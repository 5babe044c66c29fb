-------------------------------- MODULE JSONText --------------------------------
(***************************************************************************)
(* The tokens of a document, as the tokenizer of encoding/json delivers    *)
(* them; see module Decoder for what a token and a document are.           *)
(***************************************************************************)
EXTENDS Sequences, SequencesExt

\* The tokens of d inside of the containers in open.
RECURSIVE TokensIn(_, _)
TokensIn(d, open) ==
  LET inside == Append(open, d)
      key(k, x) == [t |-> "key", k |-> k, d |-> x, n |-> 1, open |-> inside]
      member(x) == IF d.j = "obj" THEN <<key(x.k, x.d)>> \o TokensIn(x.d, inside)
                                  ELSE TokensIn(x, inside)
      body == FlattenSeq([i \in DOMAIN d.m |-> member(d.m[i])])
      token(t, after) == [t |-> t, k |-> "", d |-> d, n |-> Len(body) + 2, open |-> after]
  IN CASE d.j = "obj" -> <<token("{", inside)>> \o body \o <<token("}", open)>>
       [] d.j = "arr" -> <<token("[", inside)>> \o body \o <<token("]", open)>>
       [] OTHER -> <<[token("scalar", open) EXCEPT !.n = 1]>>
Tokens(d) == TokensIn(d, <<>>)
=================================================================================
