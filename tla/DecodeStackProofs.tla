--------------------------- MODULE DecodeStackProofs ---------------------------
(***************************************************************************)
(* Proofs about DecodeStack, for every set of stacks and every MaxTokens.  *)
(*                                                                         *)
(* The invariants are not inductive one by one: that the loop stops at the *)
(* end of the value needs the heights (Lockstep), the heights need the     *)
(* types, and both need to know that the root outlives every other stack   *)
(* and is alone outside of all containers (RootOutlives).                  *)
(***************************************************************************)
EXTENDS DecodeStack, SequenceTheorems, TLAPS

\* The root stack is there as long as any stack is, and alone at top level.
RootOutlives ==
  /\ DOMAIN entries # {} => Root \in DOMAIN entries /\ entries[Root].born = 1
  /\ parseState = <<>> => DOMAIN entries \subseteq {Root}

\* The decoder's idea of the open containers is the tokenizer's: a key is never
\* taken for a value nor a value for a key.
ParseStateAgrees == parseState = nest

\* A completely read value has no open container.
WholeIsClosed == whole => nest = <<>>

Inv ==
  /\ TypeOK
  /\ Lockstep
  /\ ParseStateAgrees
  /\ StopsAtValueEnd
  /\ RootOutlives
  /\ WholeIsClosed
  /\ OkMeansWholeInput
  /\ EndErrorMeansTruncated

-----------------------------------------------------------------------------
(* Sequences used as nestings of containers. *)

\* Opening a container: the nesting is one deeper.
LEMMA OpenNesting ==
  ASSUME NEW s \in Seq(Delims), NEW d \in Delims
  PROVE  /\ Append(s, d) \in Seq(Delims)
         /\ Len(Append(s, d)) = Len(s) + 1
         /\ Append(s, d) # <<>>
<1>1. Len(Append(s, d)) = Len(s) + 1 /\ Append(s, d) \in Seq(Delims)
  BY AppendProperties
<1>2. Len(s) \in Nat
  BY LenProperties
<1> QED
  BY <1>1, <1>2

\* Closing the innermost container: the nesting is one shallower, and it is
\* empty exactly when it had one container.
LEMMA CloseNesting ==
  ASSUME NEW s \in Seq(Delims), s # <<>>
  PROVE  /\ Outer(s) \in Seq(Delims)
         /\ Len(s) \in Nat \ {0}
         /\ Len(Outer(s)) = Len(s) - 1
         /\ Outer(s) = <<>> <=> Len(s) = 1
<1>1. Len(s) \in Nat \ {0}
  BY EmptySeq, LenProperties
<1>2. Outer(s) \in Seq(Delims) /\ Len(Outer(s)) = Len(s) - 1
  <2>1. PICK n \in Nat : n = Len(s) - 1
    BY <1>1
  <2>2. \A i \in 1..n : s[i] \in Delims
    BY <1>1, <2>1, ElementOfSeq
  <2>3. SubSeq(s, 1, n) \in Seq(Delims) /\ Len(SubSeq(s, 1, n)) = n
    BY <2>2, SubSeqProperties
  <2> QED
    BY <2>1, <2>3 DEF Outer
<1>3. Outer(s) = <<>> <=> Len(Outer(s)) = 0
  BY <1>2, EmptySeq
<1> QED
  BY <1>1, <1>2, <1>3

\* A nesting with an innermost container is not empty.
LEMMA InnermostNonempty ==
  ASSUME NEW s \in Seq(Delims), Innermost(s) \in Delims
  PROVE  s # <<>>
BY DEF Innermost, Delims

-----------------------------------------------------------------------------
(* Operations on the stacks. *)

\* Pushing: the same stacks, each one higher.
LEMMA PushAllStacks ==
  ASSUME NEW es, \A s \in DOMAIN es : es[s] \in StackEntry
  PROVE  /\ DOMAIN PushAll(es) = DOMAIN es
         /\ \A s \in DOMAIN es :
              PushAll(es)[s] = [height |-> es[s].height + 1, born |-> es[s].born]
BY DEF PushAll, StackEntry

\* Popping: the stacks higher than one remain, each one lower.
LEMMA PopAllStacks ==
  ASSUME NEW es, \A s \in DOMAIN es : es[s] \in StackEntry
  PROVE  /\ DOMAIN PopAll(es) = {s \in DOMAIN es : es[s].height > 1}
         /\ \A s \in DOMAIN PopAll(es) :
              PopAll(es)[s] = [height |-> es[s].height - 1, born |-> es[s].born]
BY DEF PopAll, StackEntry

\* Before a value is handled every stack has an element for it: one more than
\* between iterations inside a container, the same at top level.
LEMMA ReadyStacks ==
  ASSUME TypeOK
  PROVE  /\ DOMAIN ReadyForValue = DOMAIN entries
         /\ \A s \in DOMAIN entries :
              /\ ReadyForValue[s] \in StackEntry
              /\ ReadyForValue[s].born = entries[s].born
              /\ ReadyForValue[s].height =
                   entries[s].height + (IF parseState = <<>> THEN 0 ELSE 1)
<1>1. \A s \in DOMAIN entries : entries[s] \in StackEntry
  BY DEF TypeOK, StackEntry
<1>2. CASE parseState = <<>>
  BY <1>1, <1>2 DEF ReadyForValue, StackEntry
<1>3. CASE parseState # <<>>
  <2>1. ReadyForValue = PushAll(entries)
    BY <1>3 DEF ReadyForValue
  <2>2. /\ DOMAIN PushAll(entries) = DOMAIN entries
        /\ \A s \in DOMAIN entries :
             PushAll(entries)[s] = [height |-> entries[s].height + 1, born |-> entries[s].born]
    BY <1>1, PushAllStacks
  <2> QED
    BY <1>1, <1>3, <2>1, <2>2 DEF StackEntry
<1> QED
  BY <1>2, <1>3

-----------------------------------------------------------------------------
(* The invariant is inductive. *)

LEMMA InitInv == Init => Inv
<1> SUFFICES ASSUME Init PROVE Inv
  OBVIOUS
<1> USE ConstantsOK DEF Init
<1>1. TypeOK
  <2>1. <<>> \in Seq(Delims)
    BY EmptySeq
  <2>2. DOMAIN entries \subseteq Stacks /\ entries \in [DOMAIN entries -> StackEntry]
    BY DEF StackEntry
  <2> QED
    BY <2>1, <2>2 DEF TypeOK, Outcomes
<1>2. Lockstep /\ RootOutlives /\ StopsAtValueEnd
  BY DEF Lockstep, RootOutlives, StopsAtValueEnd
<1>3. ParseStateAgrees /\ WholeIsClosed /\ OkMeansWholeInput /\ EndErrorMeansTruncated
  BY DEF ParseStateAgrees, WholeIsClosed, OkMeansWholeInput, EndErrorMeansTruncated
<1> QED
  BY <1>1, <1>2, <1>3 DEF Inv

\* A value that opens no container: all stacks end where they were, and at top
\* level, where only the root is left, none remains.
LEMMA ScalarStacks ==
  ASSUME Inv, Scalar
  PROVE  /\ parseState = <<>> => DOMAIN entries' = {}
         /\ parseState # <<>> => entries' = entries
<1>1. /\ DOMAIN ReadyForValue = DOMAIN entries
      /\ \A s \in DOMAIN entries :
           /\ ReadyForValue[s] \in StackEntry
           /\ ReadyForValue[s].born = entries[s].born
           /\ ReadyForValue[s].height =
                entries[s].height + (IF parseState = <<>> THEN 0 ELSE 1)
  BY ReadyStacks DEF Inv
<1>2. /\ DOMAIN PopAll(ReadyForValue) = {s \in DOMAIN entries : ReadyForValue[s].height > 1}
      /\ \A s \in DOMAIN PopAll(ReadyForValue) :
           PopAll(ReadyForValue)[s] =
             [height |-> ReadyForValue[s].height - 1, born |-> ReadyForValue[s].born]
  BY <1>1, PopAllStacks
<1>3. entries' = PopAll(ReadyForValue)
  BY DEF Scalar
<1>4. \A s \in DOMAIN entries : entries[s] \in StackEntry
  BY DEF Inv, TypeOK, StackEntry
<1>5. ASSUME parseState = <<>> PROVE DOMAIN entries' = {}
  <2>1. \A s \in DOMAIN entries : s = Root /\ entries[s].born = 1
    BY <1>5 DEF Inv, RootOutlives
  <2>2. \A s \in DOMAIN entries : entries[s].height = 1
    BY <1>4, <1>5, <2>1 DEF Inv, Lockstep, StackEntry
  <2>3. \A s \in DOMAIN entries : ~(ReadyForValue[s].height > 1)
    BY <1>1, <1>5, <2>2
  <2> QED
    BY <1>2, <1>3, <2>3
<1>6. ASSUME parseState # <<>> PROVE entries' = entries
  <2>1. DOMAIN entries' = DOMAIN entries
    <3>1. \A s \in DOMAIN entries : ReadyForValue[s].height > 1
      BY <1>1, <1>4, <1>6 DEF StackEntry
    <3> QED
      BY <1>2, <1>3, <3>1
  <2>2. \A s \in DOMAIN entries : entries'[s] = entries[s]
    BY <1>1, <1>2, <1>3, <1>4, <1>6, <2>1 DEF StackEntry
  <2>3. /\ entries' = [s \in DOMAIN entries' |-> entries'[s]]
        /\ entries = [s \in DOMAIN entries |-> entries[s]]
    BY <1>3 DEF PopAll, Inv, TypeOK
  <2> QED
    BY <2>1, <2>2, <2>3
<1> QED
  BY <1>5, <1>6

\* A value that opens a container: the stacks that were there now count it, the
\* new ones are one high and born in it.
LEMMA OpenStacks ==
  ASSUME Inv, NEW new \in SUBSET (Stacks \ DOMAIN entries),
         entries' = AddStacks(ReadyForValue, new, Len(parseState) + 1)
  PROVE  /\ DOMAIN entries' = DOMAIN entries \cup new
         /\ entries' \in [DOMAIN entries' -> StackEntry]
         /\ \A s \in DOMAIN entries' :
              entries'[s].height + entries'[s].born = Len(parseState) + 2
         /\ \A s \in DOMAIN entries : entries'[s].born = entries[s].born
         /\ \A s \in new : entries'[s].born = Len(parseState) + 1
<1>1. /\ DOMAIN ReadyForValue = DOMAIN entries
      /\ \A s \in DOMAIN entries :
           /\ ReadyForValue[s] \in StackEntry
           /\ ReadyForValue[s].born = entries[s].born
           /\ ReadyForValue[s].height =
                entries[s].height + (IF parseState = <<>> THEN 0 ELSE 1)
  BY ReadyStacks DEF Inv
<1>2. Len(parseState) \in Nat /\ (parseState = <<>> <=> Len(parseState) = 0)
  BY LenProperties, EmptySeq DEF Inv, TypeOK
<1>3. /\ DOMAIN entries' = DOMAIN entries \cup new
      /\ entries' = [s \in DOMAIN entries \cup new |->
                     IF s \in new THEN [height |-> 1, born |-> Len(parseState) + 1]
                     ELSE ReadyForValue[s]]
  BY <1>1 DEF AddStacks
<1>4. \A s \in new : /\ entries'[s] \in StackEntry
                     /\ entries'[s].height + entries'[s].born = Len(parseState) + 2
                     /\ entries'[s].born = Len(parseState) + 1
  BY <1>2, <1>3 DEF StackEntry
<1>5. \A s \in DOMAIN entries : entries'[s] = ReadyForValue[s]
  BY <1>3
<1>6. \A s \in DOMAIN entries :
        ReadyForValue[s].height + ReadyForValue[s].born = Len(parseState) + 2
  <2>1. \A s \in DOMAIN entries : entries[s] \in StackEntry
    BY DEF Inv, TypeOK
  <2>2. CASE parseState = <<>>
    BY <1>1, <1>2, <2>1, <2>2 DEF Inv, Lockstep, StackEntry
  <2>3. CASE parseState # <<>>
    BY <1>1, <1>2, <2>1, <2>3 DEF Inv, Lockstep, StackEntry
  <2> QED
    BY <2>2, <2>3
<1>7. \A s \in DOMAIN entries' : entries'[s] \in StackEntry
  BY <1>1, <1>3, <1>4, <1>5
<1>8. entries' \in [DOMAIN entries' -> StackEntry]
  BY <1>3, <1>7
<1> QED
  BY <1>1, <1>3, <1>4, <1>5, <1>6, <1>8

\* Closing a container: a stack survives exactly if it was born further out, and
\* the survivors stand one lower; the outermost container takes them all.
LEMMA CloseStacks ==
  ASSUME Inv, parseState # <<>>, NEW closed, closed = PopAll(entries)
  PROVE  /\ DOMAIN closed = {s \in DOMAIN entries : entries[s].born < Len(parseState)}
         /\ closed \in [DOMAIN closed -> StackEntry]
         /\ \A s \in DOMAIN closed :
              /\ closed[s].height + closed[s].born = Len(parseState)
              /\ closed[s].born = entries[s].born
         /\ Len(parseState) = 1 => DOMAIN closed = {}
<1>1. Len(parseState) \in Nat \ {0}
  BY CloseNesting DEF Inv, TypeOK
<1>2. \A s \in DOMAIN entries :
        /\ entries[s] \in StackEntry
        /\ entries[s].height + entries[s].born = Len(parseState) + 1
  BY DEF Inv, TypeOK, Lockstep
<1>3. \A s \in DOMAIN entries : entries[s].height > 1 <=> entries[s].born < Len(parseState)
  BY <1>1, <1>2 DEF StackEntry
<1>4. /\ DOMAIN closed = {s \in DOMAIN entries : entries[s].height > 1}
      /\ \A s \in DOMAIN closed :
           closed[s] = [height |-> entries[s].height - 1, born |-> entries[s].born]
  BY <1>2, PopAllStacks
<1>5. DOMAIN closed = {s \in DOMAIN entries : entries[s].born < Len(parseState)}
  BY <1>3, <1>4
<1>6. ASSUME NEW s \in DOMAIN closed
      PROVE  /\ closed[s] \in StackEntry
             /\ closed[s].height + closed[s].born = Len(parseState)
             /\ closed[s].born = entries[s].born
  <2>1. s \in DOMAIN entries /\ entries[s].height > 1
    BY <1>4
  <2>2. /\ entries[s].height - 1 \in Nat \ {0}
        /\ entries[s].born \in Nat \ {0}
        /\ entries[s].height - 1 + entries[s].born = Len(parseState)
    BY <1>1, <1>2, <2>1 DEF StackEntry
  <2>3. closed[s] = [height |-> entries[s].height - 1, born |-> entries[s].born]
    BY <1>4
  <2> QED
    BY <2>2, <2>3 DEF StackEntry
<1>7. closed \in [DOMAIN closed -> StackEntry]
  BY <1>6 DEF PopAll
<1>8. ASSUME Len(parseState) = 1 PROVE DOMAIN closed = {}
  <2>1. \A s \in DOMAIN entries : ~(entries[s].born < Len(parseState))
    BY <1>2, <1>8 DEF StackEntry
  <2> QED
    BY <1>5, <2>1
<1> QED
  BY <1>5, <1>6, <1>7, <1>8

LEMMA ScalarInv == Inv /\ Scalar => Inv'
<1> SUFFICES ASSUME Inv, Scalar PROVE Inv'
  OBVIOUS
<1>1. /\ parseState = <<>> => DOMAIN entries' = {}
      /\ parseState # <<>> => entries' = entries
  BY ScalarStacks
<1>2. /\ parseState' = parseState /\ nest' = nest /\ outcome' = outcome
      /\ outcome = "decoding" /\ DOMAIN entries # {} /\ ~whole
      /\ whole' = (nest = <<>>)
  BY DEF Scalar, ValueAhead, Looping
<1>3. left' \in 0..MaxTokens
  <2>1. PICK n \in 1..(left - KeyTokens) : left' = left - KeyTokens - n
    BY DEF Scalar
  <2>2. left \in 0..MaxTokens /\ KeyTokens \in {0, 1}
    BY DEF Inv, TypeOK, KeyTokens
  <2> QED
    BY <2>1, <2>2, ConstantsOK
<1>4. DOMAIN entries' \subseteq Stacks /\ entries' \in [DOMAIN entries' -> StackEntry]
  <2>1. CASE parseState = <<>>
    <3>1. DOMAIN entries' = {}
      BY <1>1, <2>1
    <3>2. entries' = [s \in DOMAIN entries' |-> entries'[s]]
      BY DEF Scalar, PopAll
    <3> QED
      BY <3>1, <3>2
  <2>2. CASE parseState # <<>>
    BY <1>1, <2>2 DEF Inv, TypeOK
  <2> QED
    BY <2>1, <2>2
<1>5. TypeOK'
  BY <1>2, <1>3, <1>4 DEF Inv, TypeOK
<1>6. Lockstep' /\ RootOutlives' /\ StopsAtValueEnd'
  <2>1. CASE parseState = <<>>
    BY <1>1, <1>2, <2>1 DEF Inv, Lockstep, RootOutlives, StopsAtValueEnd, ParseStateAgrees
  <2>2. CASE parseState # <<>>
    BY <1>1, <1>2, <2>2 DEF Inv, Lockstep, RootOutlives, StopsAtValueEnd, ParseStateAgrees
  <2> QED
    BY <2>1, <2>2
<1>7. ParseStateAgrees' /\ WholeIsClosed'
  BY <1>2 DEF Inv, ParseStateAgrees, WholeIsClosed
<1>8. OkMeansWholeInput' /\ EndErrorMeansTruncated'
  BY <1>2 DEF OkMeansWholeInput, EndErrorMeansTruncated
<1> QED
  BY <1>5, <1>6, <1>7, <1>8 DEF Inv

\* Opening a container, with the fragments it brings (none, for an array).
LEMMA OpenInv ==
  ASSUME Inv, ValueAhead,
         NEW d \in Delims, NEW new \in SUBSET (Stacks \ DOMAIN entries),
         parseState' = Append(parseState, d), nest' = Append(nest, d),
         left' = left - KeyTokens - 1,
         entries' = AddStacks(ReadyForValue, new, Len(parseState) + 1),
         UNCHANGED <<outcome, whole>>
  PROVE  Inv'
<1>1. /\ DOMAIN entries' = DOMAIN entries \cup new
      /\ entries' \in [DOMAIN entries' -> StackEntry]
      /\ \A s \in DOMAIN entries' :
           entries'[s].height + entries'[s].born = Len(parseState) + 2
      /\ \A s \in DOMAIN entries : entries'[s].born = entries[s].born
  BY OpenStacks
<1>2. /\ parseState' \in Seq(Delims) /\ Len(parseState') = Len(parseState) + 1
      /\ parseState' # <<>> /\ nest' \in Seq(Delims) /\ parseState' = nest'
      /\ Len(parseState) \in Nat
  BY OpenNesting, LenProperties DEF Inv, TypeOK, ParseStateAgrees
<1>3. outcome = "decoding" /\ outcome' = outcome /\ DOMAIN entries # {} /\ ~whole'
  BY DEF ValueAhead, Looping
<1>4. left' \in 0..MaxTokens
  <2>1. left \in 0..MaxTokens /\ KeyTokens \in {0, 1} /\ left > KeyTokens
    BY DEF Inv, TypeOK, KeyTokens, ValueAhead
  <2> QED
    BY <2>1, ConstantsOK
<1>5. TypeOK'
  BY <1>1, <1>2, <1>3, <1>4 DEF Inv, TypeOK
<1>6. Lockstep'
  BY <1>1, <1>2 DEF Lockstep
<1>7. RootOutlives' /\ StopsAtValueEnd'
  BY <1>1, <1>2, <1>3 DEF Inv, RootOutlives, StopsAtValueEnd
<1>8. ParseStateAgrees' /\ WholeIsClosed' /\ OkMeansWholeInput' /\ EndErrorMeansTruncated'
  BY <1>2, <1>3 DEF ParseStateAgrees, WholeIsClosed, OkMeansWholeInput, EndErrorMeansTruncated
<1> QED
  BY <1>5, <1>6, <1>7, <1>8 DEF Inv

LEMMA CloseInv ==
  ASSUME Inv, NEW d \in Delims, Close(d)
  PROVE  Inv'
<1>1. parseState # <<>> /\ nest = parseState
  BY InnermostNonempty DEF Inv, TypeOK, Close, State, ParseStateAgrees
<1>2. /\ DOMAIN entries' = {s \in DOMAIN entries : entries[s].born < Len(parseState)}
      /\ entries' \in [DOMAIN entries' -> StackEntry]
      /\ \A s \in DOMAIN entries' :
           /\ entries'[s].height + entries'[s].born = Len(parseState)
           /\ entries'[s].born = entries[s].born
      /\ Len(parseState) = 1 => DOMAIN entries' = {}
  BY <1>1, CloseStacks DEF Close
<1>3. /\ Len(parseState) \in Nat \ {0}
      /\ parseState' \in Seq(Delims) /\ nest' = parseState'
      /\ Len(parseState') = Len(parseState) - 1
      /\ parseState' = <<>> <=> Len(parseState) = 1
  BY <1>1, CloseNesting DEF Inv, TypeOK, Close
<1>4. /\ outcome = "decoding" /\ outcome' = outcome
      /\ DOMAIN entries # {} /\ ~whole
      /\ whole' = (Len(parseState) = 1)
  BY <1>1 DEF Close, Looping, Inv, StopsAtValueEnd
<1>5. left' \in 0..MaxTokens
  BY ConstantsOK DEF Inv, TypeOK, Close
<1>6. TypeOK'
  <2>1. DOMAIN entries' \subseteq Stacks
    BY <1>2 DEF Inv, TypeOK
  <2> QED
    BY <1>2, <1>3, <1>4, <1>5, <2>1 DEF Inv, TypeOK
<1>7. Root \in DOMAIN entries /\ entries[Root].born = 1
  BY <1>4 DEF Inv, RootOutlives
<1>8. Len(parseState) # 1 => Root \in DOMAIN entries'
  BY <1>2, <1>3, <1>7
<1>9. Lockstep' /\ RootOutlives' /\ StopsAtValueEnd'
  <2>1. CASE Len(parseState) = 1
    BY <1>2, <1>3, <1>4, <2>1 DEF Lockstep, RootOutlives, StopsAtValueEnd
  <2>2. CASE Len(parseState) # 1
    <3>1. Lockstep'
      BY <1>2, <1>3, <2>2 DEF Lockstep
    <3>2. RootOutlives' /\ StopsAtValueEnd'
      BY <1>2, <1>3, <1>4, <1>7, <1>8, <2>2 DEF RootOutlives, StopsAtValueEnd
    <3> QED
      BY <3>1, <3>2
  <2> QED
    BY <2>1, <2>2
<1>10. ParseStateAgrees' /\ WholeIsClosed' /\ OkMeansWholeInput' /\ EndErrorMeansTruncated'
  BY <1>3, <1>4 DEF ParseStateAgrees, WholeIsClosed, OkMeansWholeInput, EndErrorMeansTruncated
<1> QED
  BY <1>6, <1>9, <1>10 DEF Inv

\* The steps that only set the outcome.
LEMMA EndingInv == Inv /\ (UnexpectedEnd \/ Fail \/ CheckRest) => Inv'
<1> SUFFICES ASSUME Inv, UnexpectedEnd \/ Fail \/ CheckRest PROVE Inv'
  OBVIOUS
<1>1. UNCHANGED <<entries, parseState, nest, whole>>
  BY DEF UnexpectedEnd, Fail, CheckRest
<1>2. left' \in 0..MaxTokens /\ outcome' \in Outcomes
  <2>1. left \in 0..MaxTokens /\ 0 \in 0..MaxTokens
    BY ConstantsOK DEF Inv, TypeOK
  <2>2. left' \in {left, 0}
    BY DEF UnexpectedEnd, Fail, CheckRest
  <2>3. outcome' \in {"unexpected end", "error", "ok", "trailing token"}
    BY DEF UnexpectedEnd, Fail, CheckRest
  <2> QED
    BY <2>1, <2>2, <2>3 DEF Outcomes
<1>3. TypeOK'
  BY <1>1, <1>2 DEF Inv, TypeOK
<1>4. Lockstep' /\ ParseStateAgrees' /\ StopsAtValueEnd' /\ RootOutlives' /\ WholeIsClosed'
  BY <1>1 DEF Inv, Lockstep, ParseStateAgrees, StopsAtValueEnd, RootOutlives, WholeIsClosed
<1>5. OkMeansWholeInput' /\ EndErrorMeansTruncated'
  BY <1>1 DEF Inv, StopsAtValueEnd, WholeIsClosed, OkMeansWholeInput, EndErrorMeansTruncated,
              UnexpectedEnd, Fail, CheckRest, Looping
<1> QED
  BY <1>3, <1>4, <1>5 DEF Inv

LEMMA NextInv == Inv /\ [Next]_vars => Inv'
<1> SUFFICES ASSUME Inv, [Next]_vars PROVE Inv'
  OBVIOUS
<1>1. CASE Scalar
  BY <1>1, ScalarInv
<1>2. CASE OpenObject
  <2>1. PICK new \in SUBSET (Stacks \ DOMAIN entries) :
          entries' = AddStacks(ReadyForValue, new, Len(parseState) + 1)
    BY <1>2 DEF OpenObject
  <2> QED
    BY <1>2, <2>1, OpenInv DEF OpenObject, Delims
<1>3. CASE OpenArray
  <2>1. entries' = AddStacks(ReadyForValue, {}, Len(parseState) + 1)
    <3>1. ReadyForValue = [s \in DOMAIN ReadyForValue |-> ReadyForValue[s]]
      BY DEF ReadyForValue, PushAll, Inv, TypeOK
    <3> QED
      BY <1>3, <3>1 DEF OpenArray, AddStacks
  <2>2. {} \in SUBSET (Stacks \ DOMAIN entries) /\ "[" \in Delims
    BY DEF Delims
  <2>3. /\ ValueAhead
        /\ parseState' = Append(parseState, "[") /\ nest' = Append(nest, "[")
        /\ left' = left - KeyTokens - 1
        /\ UNCHANGED <<outcome, whole>>
    BY <1>3 DEF OpenArray
  <2> QED
    BY <2>1, <2>2, <2>3, OpenInv
<1>4. CASE CloseObject \/ CloseArray
  BY <1>4, CloseInv DEF CloseObject, CloseArray, Delims
<1>5. CASE UnexpectedEnd \/ Fail \/ CheckRest
  BY <1>5, EndingInv
<1>6. CASE UNCHANGED vars
  BY <1>6 DEF vars, Inv, TypeOK, Lockstep, ParseStateAgrees, StopsAtValueEnd, RootOutlives,
              WholeIsClosed, OkMeansWholeInput, EndErrorMeansTruncated
<1> QED
  BY <1>1, <1>2, <1>3, <1>4, <1>5, <1>6 DEF Next

THEOREM Invariance == Spec => []Inv
BY InitInv, NextInv, PTL DEF Spec, Safety

-----------------------------------------------------------------------------
(* The results. *)

\* No stack is ever empty while it is live, so Top and Pop never fail, and every
\* variable keeps its type.
THEOREM TypeCorrect == Spec => []TypeOK
<1>1. Inv => TypeOK
  BY DEF Inv
<1> QED
  BY <1>1, Invariance, PTL

\* The tops of all value stacks always stand for the same place in the input.
THEOREM StacksInLockstep == Spec => []Lockstep
<1>1. Inv => Lockstep
  BY DEF Inv
<1> QED
  BY <1>1, Invariance, PTL

\* decodeLoop ends exactly at the end of the top-level value.
THEOREM LoopEndsWithValue == Spec => []StopsAtValueEnd
<1>1. Inv => StopsAtValueEnd
  BY DEF Inv
<1> QED
  BY <1>1, Invariance, PTL

\* A nil error means the input was one JSON value, and an "unexpected end" error
\* that it was less than one.
THEOREM Verdicts == Spec => []VerdictsMatchInput
<1>1. Inv => VerdictsMatchInput
  BY DEF Inv, VerdictsMatchInput
<1> QED
  BY <1>1, Invariance, PTL

\* A stack other than the root was born in a container that is still open.
LEMMA BornInside ==
  ASSUME Inv, NEW s \in DOMAIN entries
  PROVE  /\ entries[s].born \in Nat \ {0} /\ Len(nest) \in Nat
         /\ s # Root => nest # <<>> /\ entries[s].born <= Len(nest)
<1>1. entries[s] \in StackEntry /\ nest = parseState
  BY DEF Inv, TypeOK, ParseStateAgrees
<1>2. Len(nest) \in Nat
  BY LenProperties DEF Inv, TypeOK
<1>3. ASSUME s # Root PROVE nest # <<>> /\ entries[s].born <= Len(nest)
  <2>1. nest # <<>>
    BY <1>1, <1>3 DEF Inv, RootOutlives
  <2>2. entries[s].height + entries[s].born = Len(nest) + 1
    BY <1>1, <2>1 DEF Inv, Lockstep
  <2> QED
    BY <1>1, <1>2, <2>1, <2>2 DEF StackEntry
<1> QED
  BY <1>1, <1>2, <1>3 DEF StackEntry

LEMMA LifetimeStep == Inv /\ [Next]_vars => StepKeepsLifetimes \/ UNCHANGED vars
<1> SUFFICES ASSUME Inv, [Next]_vars, NEW s \in Stacks \ {Root}, s \in DOMAIN entries,
                    ~UNCHANGED vars
             PROVE  /\ s \notin DOMAIN entries' => Len(nest') = entries[s].born - 1
                    /\ s \in DOMAIN entries' => Len(nest') >= entries[s].born
  BY DEF StepKeepsLifetimes
<1>1. /\ entries[s].born \in Nat \ {0} /\ Len(nest) \in Nat
      /\ nest # <<>> /\ entries[s].born <= Len(nest) /\ nest = parseState
  BY BornInside DEF Inv, ParseStateAgrees
<1>2. CASE Scalar
  <2>1. entries' = entries /\ nest' = nest
    BY <1>1, <1>2, ScalarStacks DEF Scalar
  <2> QED
    BY <1>1, <2>1
<1>3. CASE OpenObject \/ OpenArray
  <2>1. s \in DOMAIN entries'
    <3>1. DOMAIN ReadyForValue = DOMAIN entries
      BY ReadyStacks DEF Inv
    <3> QED
      BY <1>3, <3>1 DEF OpenObject, OpenArray, AddStacks
  <2>2. Len(nest') = Len(nest) + 1
    BY <1>3, OpenNesting DEF OpenObject, OpenArray, Delims, Inv, TypeOK
  <2> QED
    BY <1>1, <2>1, <2>2
<1>4. CASE CloseObject \/ CloseArray
  <2>1. entries' = PopAll(entries) /\ nest' = Outer(nest)
    BY <1>4 DEF CloseObject, CloseArray, Close
  <2>2. DOMAIN entries' = {t \in DOMAIN entries : entries[t].born < Len(parseState)}
    BY <1>1, <2>1, CloseStacks
  <2>3. Len(nest') = Len(nest) - 1
    BY <1>1, <2>1, CloseNesting DEF Inv, TypeOK
  <2> QED
    BY <1>1, <2>2, <2>3
<1>5. CASE UnexpectedEnd \/ Fail \/ CheckRest
  BY <1>1, <1>5 DEF UnexpectedEnd, Fail, CheckRest
<1> QED
  BY <1>2, <1>3, <1>4, <1>5 DEF Next

\* The stack of a fragment or embedded struct lives exactly as long as the object
\* it was found in.
THEOREM FragmentsLiveWithTheirObject == Spec => FragmentLifetime
<1>1. Inv /\ [Next]_vars => [StepKeepsLifetimes]_vars
  BY LifetimeStep
<1>2. Spec => [][StepKeepsLifetimes]_vars
  BY <1>1, Invariance, PTL DEF Spec, Safety
<1> QED
  BY <1>2 DEF FragmentLifetime

-----------------------------------------------------------------------------
(* DecodeStack implements OneValue. *)

LEMMA ReaderStep == Inv /\ Inv' /\ [Next]_vars => [Reader!Next]_(Reader!vars)
<1> SUFFICES ASSUME Inv, Inv', [Next]_vars PROVE [Reader!Next]_(Reader!vars)
  OBVIOUS
<1>1. /\ nest \in Seq(Delims) /\ nest' \in Seq(Delims)
      /\ Len(nest) \in Nat /\ (nest = <<>> <=> Len(nest) = 0)
      /\ (DOMAIN entries = {} <=> whole) /\ (DOMAIN entries' = {} <=> whole')
  BY LenProperties, EmptySeq DEF Inv, TypeOK, StopsAtValueEnd
<1>2. CASE Scalar
  <2>1. /\ outcome = "decoding" /\ outcome' = "decoding" /\ ~whole
        /\ nest' = nest /\ whole' = (nest = <<>>)
    BY <1>2 DEF Scalar, ValueAhead, Looping, Inv, StopsAtValueEnd
  <2>2. CASE nest = <<>>
    BY <1>1, <2>1, <2>2 DEF Reader!Next, Reader!Atom
  <2>3. CASE nest # <<>>
    BY <1>1, <2>1, <2>3 DEF Reader!vars
  <2> QED
    BY <2>2, <2>3
<1>3. CASE OpenObject \/ OpenArray
  <2>1. /\ outcome = "decoding" /\ outcome' = "decoding" /\ ~whole /\ ~whole'
    <3>1. ValueAhead /\ outcome' = outcome /\ whole' = whole
      BY <1>3 DEF OpenObject, OpenArray
    <3> QED
      BY <3>1 DEF ValueAhead, Looping
  <2>2. Len(nest') = Len(nest) + 1
    BY <1>1, <1>3, OpenNesting DEF OpenObject, OpenArray, Delims
  <2> QED
    BY <1>1, <2>1, <2>2 DEF Reader!Next, Reader!Enter
<1>4. CASE CloseObject \/ CloseArray
  <2>1. /\ outcome = "decoding" /\ outcome' = "decoding" /\ DOMAIN entries # {}
        /\ whole' = (Len(nest) = 1) /\ nest' = Outer(nest)
        /\ Innermost(nest) \in Delims
    BY <1>4 DEF CloseObject, CloseArray, Close, Looping, Delims
  <2>2. Len(nest') = Len(nest) - 1 /\ Len(nest) > 0
    BY <1>1, <2>1, CloseNesting, InnermostNonempty
  <2> QED
    BY <1>1, <2>1, <2>2 DEF Reader!Next, Reader!Leave
<1>5. CASE UnexpectedEnd \/ Fail
  <2>1. /\ outcome = "decoding" /\ outcome' \in {"unexpected end", "error"}
        /\ DOMAIN entries # {} /\ nest' = nest
    BY <1>5 DEF UnexpectedEnd, Fail, Looping
  <2> QED
    BY <2>1 DEF Reader!Next, Reader!Reject
<1>6. CASE CheckRest
  <2>1. /\ outcome = "decoding" /\ outcome' \in {"ok", "trailing token", "error"}
        /\ DOMAIN entries = {} /\ nest' = nest
    BY <1>6 DEF CheckRest
  <2> QED
    BY <2>1 DEF Reader!Next, Reader!Accept, Reader!Reject
<1>7. CASE UNCHANGED vars
  BY <1>7 DEF vars, Reader!vars
<1> QED
  BY <1>2, <1>3, <1>4, <1>5, <1>6, <1>7 DEF Next

\* UnmarshalGraphQL reads one value container by container, and accepts only
\* what it has read to the end: DecodeStack implements OneValue.
THEOREM ImplementsOneValue == Spec => ReadsOneValue
<1>1. Init => Reader!Init
  BY DEF Init, Reader!Init
<1> QED
  BY <1>1, ReaderStep, Invariance, PTL DEF Spec, Safety, ReadsOneValue, Reader!Spec
=================================================================================
