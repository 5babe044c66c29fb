------------------------------ MODULE ScalarMeaning ------------------------------
(***************************************************************************)
(* What a scalar of the response means for a Go type that is no pointer:   *)
(* whether it is a value of that type at all, and which.  This is the part *)
(* of DecodeReference about scalars.                                       *)
(***************************************************************************)
EXTENDS Integers

\* Does a scalar fit a type, as a value of that type?
Fits(type, d) ==
  \/ type.kind \in {"string", "custom"} /\ d.j = "str"
  \/ type.kind = "bool" /\ d.j = "bool"
  \/ type.kind \in {"float", "number"} /\ d.j \in {"num", "frac"}
  \/ type.kind = "int" /\ d.j = "num" /\ d.n \in -(2^(type.bits - 1))..2^(type.bits - 1) - 1
  \/ type.kind = "uint" /\ d.j = "num" /\ d.n \in 0..2^type.bits - 1

\* The content of the place that holds it.
StoredAs(kind, d) ==
  CASE kind \in {"int", "uint"} -> <<d.n>>
    [] kind = "float" -> <<d.n, d.j>>
    [] kind = "number" -> <<d>>
    [] OTHER -> <<d.v>>
=================================================================================
