----------------------------- MODULE MCClientConfig -----------------------------
(* Model-checking instance of ClientConfig: one header in two spellings    *)
(* and the content type, callers that pass one or two values, and a        *)
(* modifier that overrides the header.                                     *)
EXTENDS ClientConfig, TLC

MCKeys == {"X-Foo", "x-foo", "Content-Type"}
MCCanonical == [k \in MCKeys |-> IF k = "x-foo" THEN "X-Foo" ELSE k]
MCContents == {("X-Foo" :> <<"a", "b">>), ("x-foo" :> <<"b">>) @@ ("Content-Type" :> <<"a">>), ("X-Foo" :> <<>>)}
MCModifiers == {"X-Foo" :> "b"}
MCNoModifier == <<>>
=================================================================================
