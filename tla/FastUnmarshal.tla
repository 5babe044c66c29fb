------------------------------ MODULE FastUnmarshal ------------------------------
(***************************************************************************)
(* How a scalar of the response is stored in a place of the target:        *)
(* fastUnmarshal (internal/decode/fast_unmarshal.go), with its pointers,   *)
(* and unmarshalValue (graphql.go).                                        *)
(***************************************************************************)
EXTENDS GoValues, Scalars

\* fastUnmarshal, for a token that is not null.
Pointers == {ty \in DOMAIN Types : Types[ty].kind = "ptr"}
fastUnmarshal(type, d) ==
  LET outcome[ty \in DOMAIN Types] ==
        IF ty \in Pointers /\ Types[Types[ty].elem].kind # "custom" THEN outcome[Types[ty].elem]
        ELSE SetScalar(Types[ty], d)
  IN outcome[type]

\* json.Unmarshal of d into a new value.
jsonUnmarshal(type, d) ==
  LET outcome[ty \in DOMAIN Types] ==
        IF ty \in Pointers /\ d.j # "null" THEN outcome[Types[ty].elem] ELSE jsonSet(Types[ty], d)
  IN outcome[type]

\* `new(T)` stored through a pointer at l; the new object is the last one.
New(m, l) ==
  Put(Append(m, Zero(Types[At(m, l).ty].elem)), l, [At(m, l) EXCEPT !.to = Len(m) + 1])

\* The content goes to a new value behind every pointer.
PointerDepth[ty \in DOMAIN Types] == IF ty \in Pointers THEN 1 + PointerDepth[Types[ty].elem] ELSE 0
StoreAt(m, l, content) ==
  LET depth == IF content = <<>> THEN 0 ELSE PointerDepth[At(m, l).ty]
      place(n) == IF n = 0 THEN l ELSE Object(Len(m) + n)
      made[n \in 0..depth] == IF n = 0 THEN m ELSE New(made[n - 1], place(n - 1))
  IN Put(made[depth], place(depth), [Zero(At(made[depth], place(depth)).ty) EXCEPT !.v = content])

\* unmarshalValue: d, a token or (raw) the text of a value, into the place l.
Finished(m, l, outcome) ==
  IF outcome.how = "set" THEN [m |-> StoreAt(m, l, outcome.content), ok |-> TRUE]
  ELSE [m |-> m, ok |-> FALSE]
AfterFast(m, l, d, fast) == Finished(m, l, Settled(fast, jsonUnmarshal(At(m, l).ty, d)))
unmarshalValue(m, l, d, raw) ==
  CASE d.j = "null" /\ ~raw -> [m |-> Put(m, l, Zero(At(m, l).ty)), ok |-> TRUE]
    [] raw -> Finished(m, l, jsonUnmarshal(At(m, l).ty, d))
    [] OTHER -> AfterFast(m, l, d, fastUnmarshal(At(m, l).ty, d))
=================================================================================
