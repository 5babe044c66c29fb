--------------------------- MODULE DecoderProperties ---------------------------
(***************************************************************************)
(* What the decoder does to the target, against the reference definition   *)
(* of module DecodeReference: the properties that follow references        *)
(* through the memory.                                                     *)
(***************************************************************************)
EXTENDS Decoder, DecodeReference

\* Every place on a stack exists, and so does every object that is referred to.
RECURSIVE IsPath(_, _)
IsPath(v, p) == p = <<>> \/ (Head(p) \in DOMAIN v.c /\ IsPath(v.c[Head(p)], Tail(p)))
TypeOK ==
  /\ \A i \in DOMAIN vs :
       /\ vs[i].stack # <<>>
       /\ \A n \in DOMAIN vs[i].stack :
            LET l == vs[i].stack[n]
            IN l = NoLoc \/ (l.o \in DOMAIN mem /\ IsPath(mem[l.o], l.p))
  /\ Reach(mem, mem[1]) \subseteq DOMAIN mem
  /\ parseState \in Seq({"{", "["})
  /\ pos \in 0..Len(toks)
  /\ result \in {"decoding", "ok", "error", "cut", "panic"}

\* When UnmarshalGraphQL accepts a document the target holds what the reference
\* says, in every place, and it refuses exactly those that have no place to go.
AgreesWithReference ==
  result \in {"ok", "error"} =>
    LET reference == Decoded(Tree(input.memory, input.memory[1]), input.doc)
    IN IF result = "ok" THEN Tree(mem, mem[1]) = reference ELSE HasBad(reference)

\* The slices in what v refers to.
RECURSIVE SlicesIn(_)
SlicesIn(v) ==
  (IF Types[v.ty].kind = "slice" THEN {v} ELSE {})
  \cup UNION {SlicesIn(v.c[i]) : i \in DOMAIN v.c}
AllSlices == UNION {SlicesIn(mem[o]) : o \in {o \in DOMAIN mem : mem[o].ty \in DOMAIN Types}}
             \cup UNION {UNION {SlicesIn(mem[o].c[i]) : i \in DOMAIN mem[o].c} :
                           o \in {o \in DOMAIN mem : mem[o].ty = PairsType}}

\* Two elements of a decoded list share no memory: writing to one, in the rest
\* of the response or later by the program, does not change the other.
ElementsAreSeparate ==
  result = "ok" =>
    \A s \in AllSlices : \A i, j \in DOMAIN s.c :
      i # j => Reach(mem, s.c[i]) \cap Reach(mem, s.c[j]) = {}

\* "When __typename is "User", only the User field is populated" (doc.go:34): a
\* member of an object changes nothing in the object's fragments on other types.
OnlyOwnFragment ==
  [][ State = "{" =>
        \A i \in DOMAIN vs :
          LET own == OwnTypename(Last(OpenDocs))
          IN /\ vs[i].born = Len(parseState) /\ vs[i].fragType # <<>>
             /\ own # "" /\ vs[i].fragType # <<own>>
             => At(mem', Top(vs[i])) = At(mem, Top(vs[i])) ]_vars
=================================================================================
