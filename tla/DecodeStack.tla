------------------------------ MODULE DecodeStack ------------------------------
(***************************************************************************)
(* The stack discipline of the response decoder (internal/decode).         *)
(*                                                                         *)
(* The decoder keeps one value stack per simultaneous target: the root,    *)
(* and one more for every inline fragment or embedded struct found when a  *)
(* "{" is read.  Every key and every array element pushes on ALL of them,  *)
(* every finished value pops ALL of them, and a stack that becomes empty   *)
(* is dropped.  The loop has no other way to know where it is: it stops    *)
(* when the last stack is gone.  This module keeps that control and drops  *)
(* the values: a stack is its height, and `born`, a history field, is the  *)
(* nesting depth at which it was added.                                    *)
(*                                                                         *)
(* The tokenizer is encoding/json's: it hands out the tokens of a JSON     *)
(* text that may be cut short, may go on after the top-level value, and    *)
(* may be malformed (Fail).  MaxTokens bounds the text, Stacks the number  *)
(* of simultaneous stacks.                                                 *)
(***************************************************************************)
EXTENDS Naturals, Sequences

CONSTANTS
  Stacks,     \* identities for value stacks
  Root,       \* the stack Decode creates for the target itself
  MaxTokens   \* bound on the length of the input, in tokens

ASSUME ConstantsOK == Root \in Stacks /\ MaxTokens \in Nat

VARIABLES
  entries,     \* vs.entries: the live stacks, each [height, born]
  parseState,  \* d.parseState: the containers the decoder believes are open
  outcome,     \* what UnmarshalGraphQL will return
  nest,        \* tokenizer: the containers that are open in the input
  whole,       \* tokenizer: the top-level value has been read entirely
  left         \* tokenizer: tokens before the end of the input

vars == <<entries, parseState, outcome, nest, whole, left>>

Delims == {"{", "["}
StackEntry == [height : Nat \ {0}, born : Nat \ {0}]
Outcomes == {"decoding", "ok", "unexpected end", "error", "trailing token"}

\* The innermost container of a nesting, "none" at top level (decoder.state).
Innermost(s) == IF s = <<>> THEN "none" ELSE s[Len(s)]
State == Innermost(parseState)
Outer(s) == SubSeq(s, 1, Len(s) - 1)

Init ==
  /\ entries = [s \in {Root} |-> [height |-> 1, born |-> 1]]
  /\ parseState = <<>>
  /\ outcome = "decoding"
  /\ nest = <<>>
  /\ whole = FALSE
  /\ left \in 0..MaxTokens

-----------------------------------------------------------------------------
(* Operations on the stacks. *)

\* Mutant: the stacks whose target has no such field get no placeholder.
PushOnlyRoot(es) ==
  [s \in DOMAIN es |-> IF s = Root THEN [es[s] EXCEPT !.height = @ + 1] ELSE es[s]]

\* valueStack.push, once for every stack (selectAndPushFields, decodeArrayValue).
PushAll(es) == [s \in DOMAIN es |-> [es[s] EXCEPT !.height = @ + 1]]

\* Mutant: a stack that becomes empty stays in the list.
PopAllKeepEmpty(es) == [s \in DOMAIN es |-> [es[s] EXCEPT !.height = @ - 1]]

\* valueStack.popAll: pop every stack, keep the ones that are not empty.
PopAll(es) ==
  [s \in {t \in DOMAIN es : es[t].height > 1} |-> [es[s] EXCEPT !.height = @ - 1]]

\* Mutant: a fragment's stack starts with the object's value below its own.
AddStacksSeededTwice(es, new, depth) ==
  [s \in DOMAIN es \cup new |->
     IF s \in new THEN [height |-> 2, born |-> depth] ELSE es[s]]

\* valueStack.addStack for each fragment or embedded struct of the new object.
AddStacks(es, new, depth) ==
  [s \in DOMAIN es \cup new |->
     IF s \in new THEN [height |-> 1, born |-> depth] ELSE es[s]]

\* Mutant: the element of an array is not pushed.
ReadyForValueInObjects == IF State = "{" THEN PushAll(entries) ELSE entries

\* A key or an array element is pushed before its value; the root is there already.
ReadyForValue == IF parseState = <<>> THEN entries ELSE PushAll(entries)

-----------------------------------------------------------------------------
(* One iteration of decodeLoop per action. *)

Looping == outcome = "decoding" /\ DOMAIN entries # {}

\* The tokenizer can deliver the next value, and its key if it is in an object.
KeyTokens == IF Innermost(nest) = "{" THEN 1 ELSE 0
ValueAhead == Looping /\ ~whole /\ State = Innermost(nest) /\ left > KeyTokens

\* decodeScalarValue.  In an object the value may be consumed raw by
\* readNextToken: any number of tokens, decoded in one piece.
Scalar ==
  /\ ValueAhead
  /\ \E n \in 1..(left - KeyTokens) :
       /\ n > 1 => State = "{"
       /\ left' = left - KeyTokens - n
  /\ entries' = PopAll(ReadyForValue)
  /\ whole' = (nest = <<>>)
  /\ UNCHANGED <<parseState, outcome, nest>>

\* decodeObjectStart: the stacks in `new` are the fragments and embedded
\* structs discovered in the values that are now on top.
OpenObject ==
  /\ ValueAhead
  /\ parseState' = Append(parseState, "{")
  /\ nest' = Append(nest, "{")
  /\ left' = left - KeyTokens - 1
  /\ \E new \in SUBSET (Stacks \ DOMAIN entries) :
       entries' = AddStacks(ReadyForValue, new, Len(parseState) + 1)
  /\ UNCHANGED <<outcome, whole>>

\* decodeArrayStart.
OpenArray ==
  /\ ValueAhead
  /\ parseState' = Append(parseState, "[")
  /\ nest' = Append(nest, "[")
  /\ left' = left - KeyTokens - 1
  /\ entries' = ReadyForValue
  /\ UNCHANGED <<outcome, whole>>

\* The end of the innermost container, as the tokenizer sees it and as the
\* decoder handles it (popAll, then popState).
Close(delim) ==
  /\ Looping /\ left > 0 /\ State = delim /\ Innermost(nest) = delim
  /\ entries' = PopAll(entries)
  /\ parseState' = Outer(parseState)
  /\ nest' = Outer(nest)
  /\ whole' = (Len(nest) = 1)
  /\ left' = left - 1
  /\ UNCHANGED outcome

CloseObject == Close("{")   \* handleObjectEnd
CloseArray == Close("[")    \* handleArrayEnd

\* Mutant: io.EOF from the tokenizer does not end the loop.
IgnoreEnd == Looping /\ left = 0 /\ UNCHANGED vars

\* The input ends where a token is needed, for a value or right after its key.
UnexpectedEnd ==
  /\ Looping
  /\ left = 0 \/ (State = "{" /\ left = 1)
  /\ outcome' = "unexpected end"
  /\ left' = 0
  /\ UNCHANGED <<entries, parseState, nest, whole>>

\* Malformed input, a key no target has a field for, an array where no target
\* has a slice, a value of the wrong type: the decoder is abandoned as it is.
Fail ==
  /\ Looping /\ left > 0
  /\ outcome' = "error"
  /\ UNCHANGED <<entries, parseState, nest, whole, left>>

\* Mutant: UnmarshalGraphQL returns without looking at the rest of the input.
SkipRest ==
  /\ outcome = "decoding" /\ DOMAIN entries = {}
  /\ outcome' = "ok"
  /\ UNCHANGED <<entries, parseState, nest, whole, left>>

\* UnmarshalGraphQL, after the loop: the input must end here.
CheckRest ==
  /\ outcome = "decoding" /\ DOMAIN entries = {}
  /\ outcome' \in IF left = 0 THEN {"ok"} ELSE {"trailing token", "error"}
  /\ UNCHANGED <<entries, parseState, nest, whole, left>>

Next ==
  \/ Scalar \/ OpenObject \/ OpenArray \/ CloseObject \/ CloseArray
  \/ UnexpectedEnd \/ Fail \/ CheckRest

\* What the code may do; and what it will do: the loop is sequential code, which
\* takes its next step if it has one.
Safety == Init /\ [][Next]_vars
Spec == Safety /\ WF_vars(Next)

-----------------------------------------------------------------------------
(* Properties. *)

\* Types; no stack is ever empty, so Top and Pop (value_stack.go:11-17) are
\* never called on an empty slice.
TypeOK ==
  /\ DOMAIN entries \subseteq Stacks
  /\ entries \in [DOMAIN entries -> StackEntry]
  /\ parseState \in Seq(Delims)
  /\ outcome \in Outcomes
  /\ nest \in Seq(Delims)
  /\ whole \in BOOLEAN
  /\ left \in 0..MaxTokens

\* "The loop invariant is that the top of each d.vs stack is where we try to
\* unmarshal the next JSON value we see" (graphql.go:109): between two
\* iterations the stacks of all targets stand at the same place in the input,
\* the root counting every open container and a fragment those since its birth.
Lockstep ==
  \A s \in DOMAIN entries :
    entries[s].height + entries[s].born =
      (IF parseState = <<>> THEN 1 ELSE Len(parseState)) + 1

\* The stacks run out exactly when the top-level value has been read, so the
\* loop `for d.vs.len() > 0` neither stops early nor reads on.
StopsAtValueEnd == DOMAIN entries = {} <=> whole

\* A nil error means the whole input was one JSON value (graphql.go:57-62), and
\* "unexpected end of JSON input" is reported only for a value that is cut short.
OkMeansWholeInput == outcome = "ok" => whole /\ nest = <<>> /\ left = 0
EndErrorMeansTruncated == outcome = "unexpected end" => ~whole /\ left = 0
VerdictsMatchInput == OkMeansWholeInput /\ EndErrorMeansTruncated

\* A fragment's stack added when an object opened lives exactly as long as the
\* object: it is dropped by the step that closes it, not before and not after.
StepKeepsLifetimes ==
  \A s \in Stacks \ {Root} :
    /\ s \in DOMAIN entries \ DOMAIN entries' => Len(nest') = entries[s].born - 1
    /\ s \in DOMAIN entries \cap DOMAIN entries' => Len(nest') >= entries[s].born
FragmentLifetime == [][StepKeepsLifetimes]_vars

\* A finite response is always decoded or refused: decodeLoop never spins.
Terminates == <>(outcome # "decoding")

\* UnmarshalGraphQL reads exactly one value, in the sense of module OneValue.
Reader == INSTANCE OneValue WITH
  depth <- Len(nest),
  status <- CASE outcome = "ok" -> "accepted"
              [] outcome = "decoding" ->
                   IF DOMAIN entries = {} THEN "read" ELSE "reading"
              [] OTHER -> "rejected"

ReadsOneValue == Reader!Spec
=================================================================================
