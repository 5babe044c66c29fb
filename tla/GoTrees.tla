-------------------------------- MODULE GoTrees --------------------------------
(***************************************************************************)
(* What a program can see of a Go value, and what it shares with others:   *)
(* for the properties of the decoder.                                      *)
(***************************************************************************)
EXTENDS GoValues

RECURSIVE Reach(_, _)
\* The objects value v refers to, directly or through others (no cycles).
Reach(m, v) ==
  (IF v.to = 0 THEN {} ELSE {v.to} \cup Reach(m, m[v.to]))
  \cup UNION {Reach(m, v.c[i]) : i \in DOMAIN v.c}

RECURSIVE Tree(_, _)
\* The content of v with every reference replaced by what it refers to: two
\* values a program cannot tell apart by reading them have the same tree.
Tree(m, v) ==
  LET refers == v.to # 0 /\ Types[v.ty].kind # "slice"
      referent == IF refers /\ m[v.to].ty = PairsType THEN m[v.to] ELSE v
  IN [ty |-> v.ty, v |-> referent.v, nil |-> ~refers,
      c |-> IF referent # v \/ ~refers
            THEN [i \in DOMAIN referent.c |-> Tree(m, referent.c[i])]
            ELSE <<Tree(m, m[v.to])>>]
=================================================================================
