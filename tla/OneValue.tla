-------------------------------- MODULE OneValue --------------------------------
(***************************************************************************)
(* What UnmarshalGraphQL (internal/decode/graphql.go) promises about the   *)
(* shape of its input, whatever the target is: it reads exactly one JSON   *)
(* value, container by container, and accepts only if nothing follows it.  *)
(* It may give up at any moment (bad JSON, no field for a key, ...).       *)
(***************************************************************************)
EXTENDS Naturals

VARIABLES
  depth,   \* containers of the value that are open in the input
  status   \* "reading", "read" (value complete), "accepted" or "rejected"

vars == <<depth, status>>

Init == depth = 0 /\ status = "reading"

\* A "{" or a "[" opens a container.
Enter == status = "reading" /\ depth' = depth + 1 /\ UNCHANGED status

\* A "}" or a "]" closes the innermost one; closing the outermost ends the value.
Leave ==
  /\ status = "reading" /\ depth > 0
  /\ depth' = depth - 1
  /\ status' = IF depth = 1 THEN "read" ELSE "reading"

\* A scalar that is itself the top-level value; inside a container it changes nothing.
Atom == status = "reading" /\ depth = 0 /\ status' = "read" /\ UNCHANGED depth

\* Only a completely read value can be accepted.
Accept == status = "read" /\ status' = "accepted" /\ UNCHANGED depth

Reject == status \in {"reading", "read"} /\ status' = "rejected" /\ UNCHANGED depth

Next == Enter \/ Leave \/ Atom \/ Accept \/ Reject

Spec == Init /\ [][Next]_vars
=================================================================================
