----------------------------- MODULE MCDecodeStack -----------------------------
(* Model-checking instance of DecodeStack: the root and two fragment stacks  *)
(* are enough for two fragments of one object, and for a fragment of a       *)
(* nested object while one of the outer object is alive.  Nine tokens reach  *)
(* three open containers and a key, a value or a "}" behind each.            *)
EXTENDS DecodeStack
=================================================================================
