--------------------------------- MODULE Scalars ---------------------------------
(***************************************************************************)
(* How a scalar of the response becomes the content of a Go value that is  *)
(* no pointer: the part of fastUnmarshal behind its pointers               *)
(* (internal/decode/fast_unmarshal.go), and encoding/json for what it      *)
(* declines.  A scalar document has kind j, "str", "bool", "num" for an    *)
(* integer literal n, or "frac" for a literal with a fraction or exponent, *)
(* between n and n + 1.  A type is described as in GoValues.               *)
(***************************************************************************)
EXTENDS Integers

CONSTANT WideBits   \* what strconv.ParseInt and ParseUint are asked for, 64 in the code

FitsInt(n, bits) == - 2^(bits - 1) <= n /\ n < 2^(bits - 1)
FitsUint(n, bits) == 0 <= n /\ n < 2^bits

\* What a place of such a kind holds after document d has been stored in it.
Content(kind, d) ==
  CASE kind \in {"int", "uint"} -> <<d.n>>
    [] kind = "float" -> <<d.n, d.j>>
    [] kind \in {"string", "bool", "custom"} -> <<d.v>>
    [] OTHER -> <<d>>

Declined == [how |-> "declined"]
Refused == [how |-> "error"]
Stored(content) == [how |-> "set", content |-> content]

\* A literal that ParseInt or ParseUint does not take is left to encoding/json;
\* one that the target is too narrow for is an error.
SetInteger(type, d) ==
  LET parsed == d.j = "num" /\ IF type.kind = "int" THEN FitsInt(d.n, WideBits)
                                                    ELSE FitsUint(d.n, WideBits)
      fits == IF type.kind = "int" THEN FitsInt(d.n, type.bits) ELSE FitsUint(d.n, type.bits)
  IN CASE ~parsed -> Declined
       [] parsed /\ ~fits -> Refused
       [] OTHER -> Stored(Content(type.kind, d))

\* fastUnmarshal, for a token that is not null and a target that is no pointer.
SetScalar(type, d) ==
  LET takes == CASE type.kind = "string" -> {"str"}
                 [] type.kind = "bool" -> {"bool"}
                 [] type.kind = "float" -> {"num", "frac"}
                 [] type.kind = "number" -> {"str", "num", "frac"}
                 [] OTHER -> {}
  IN CASE type.kind \in {"int", "uint"} /\ d.j \in {"num", "frac"} -> SetInteger(type, d)
       [] d.j \in takes -> Stored(Content(type.kind, d))
       [] OTHER -> Declined

\* json.Unmarshal of d into a new value that is no pointer.  A composite follows
\* encoding/json, not the graphql tags: its content is marked.
jsonSet(type, d) ==
  LET takes == CASE type.kind = "raw" -> {d.j}
                 [] type.kind \in {"string", "custom"} -> {"str"}
                 [] type.kind = "bool" -> {"bool"}
                 [] type.kind \in {"float", "number"} -> {"num", "frac"}
                 [] type.kind = "int" -> IF FitsInt(d.n, type.bits) THEN {"num"} ELSE {}
                 [] type.kind = "uint" -> IF FitsUint(d.n, type.bits) THEN {"num"} ELSE {}
                 [] type.kind = "struct" -> {"obj"}
                 [] type.kind = "slice" -> {"arr"}
                 [] OTHER -> {}
  IN CASE d.j \in takes -> Stored(Content(type.kind, d))
       [] d.j = "null" /\ type.kind # "raw" -> Stored(<<>>)
       [] OTHER -> Refused

\* unmarshalValue: encoding/json has the last word if the fast path declines.
Settled(fast, slow) == IF fast.how = "declined" THEN slow ELSE fast
=================================================================================
