-------------------------------- MODULE MCShapes --------------------------------
(* Types, fields, values and documents, for the instances of the decoder. *)
EXTENDS GoValues, TagParser

Leaf(kind) == [kind |-> kind]
Number(kind, bits) == [kind |-> kind, bits |-> bits]
Called(name, type) == [graphQLType |-> name] @@ type
PtrTo(ty) == [kind |-> "ptr", elem |-> ty]
SliceOf(ty) == [kind |-> "slice", elem |-> ty]
Struct(fields) == [kind |-> "struct", fields |-> fields, wrapped |-> 0]
Tagged(tag, ty) ==
  [go |-> "F", tag |-> tag, anon |-> FALSE, exported |-> TRUE, ty |-> ty, scalar |-> FALSE]
Plain(go, ty) == [Tagged(NoTag, ty) EXCEPT !.go = go]
Field(name, ty) == Tagged(<<name>>, ty)
ScalarField(name, ty) == [Field(name, ty) EXCEPT !.scalar = TRUE]
\* alias: name(id: $x, at: "@(:") rest
Selection(alias, name, rest) ==
  (IF alias = "" THEN <<>> ELSE <<alias, ":", " ">>)
  \o <<name, "(", "id", ":", " ", "$", "x", ",", " ", "at", ":", "\"", "@", "(", ":", "\"", ")", " ">> \o rest
FragmentOn(type) == <<"...", " ", "on", " ", type>>
Fragment(on, ty) == [Tagged(FragmentOn(on), ty) EXCEPT !.anon = TRUE]
Embedded(ty) == [Plain(ty, ty) EXCEPT !.anon = TRUE]
Wrapper(ty) == [Struct(<<Plain("Value", ty)>>) EXCEPT !.wrapped = 1]

S == [j |-> "str", v |-> "x", n |-> 0, m |-> <<>>]
Num(n) == [S EXCEPT !.j = "num", !.n = n]
True == [S EXCEPT !.j = "bool"]
Null == [S EXCEPT !.j = "null"]
Obj(members) == [S EXCEPT !.j = "obj", !.m = members]
Arr(docs) == [S EXCEPT !.j = "arr", !.m = docs]
Typename(t) == <<[k |-> "__typename", d |-> [S EXCEPT !.v = t]]>>

Blank(ty) == <<Zero(ty)>>
Ref(ty, o) == [Empty(ty) EXCEPT !.to = o]
Pairs(keys, values) == [Empty(PairsType) EXCEPT !.v = keys, !.c = values]
SliceWith(ty, elems) == <<[Empty(ty) EXCEPT !.c = elems]>>

=================================================================================
