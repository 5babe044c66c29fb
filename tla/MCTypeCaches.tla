----------------------------- MODULE MCTypeCaches -----------------------------
(* Two struct types that share a field type; one has a fragment and an unexported field. *)
EXTENDS TypeCaches

Field(question) == [question |-> question, exported |-> TRUE, fragment |-> FALSE]
MCFields == [
  Human |-> <<Field("ID"), [Field("Name") EXCEPT !.exported = FALSE]>>,
  Droid |-> <<[Field("Name") EXCEPT !.fragment = TRUE], Field("ID")>>]
MCFact == [ID |-> "yes", Name |-> "no"]
=================================================================================
