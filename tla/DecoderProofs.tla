----------------------------- MODULE DecoderProofs -----------------------------
(***************************************************************************)
(* Proofs about the response decoder, for every set of types, every        *)
(* target, every JSON text and any number of stacks: the whole decoder,    *)
(* with the values it writes, follows the stack discipline of module       *)
(* DecodeStack, so that what is shown there of heights alone holds here.   *)
(*                                                                         *)
(* The assumptions are InputsOK, that the tokens are those of one JSON     *)
(* value, as the tokenizer of encoding/json delivers them, and BoundsOK.   *)
(* Nothing is assumed of the types, of the target, or of what decoding a   *)
(* scalar, finding a field or copying a template comes to: an action gets  *)
(* hold of places somehow, and all the proof needs is that every stack     *)
(* gets exactly one per value.                                             *)
(*                                                                         *)
(* The invariant relates three records of the same nesting: the heights of *)
(* the stacks, parseState, and the containers open in the input.  None of  *)
(* the three is inductive alone: a step is chosen by the innermost of      *)
(* parseState, which must be that of the input for a key to be a key;      *)
(* popAll drops the right stacks only if the heights agree with the        *)
(* nesting; and the stacks to drop are at the end of the list, so that the *)
(* others keep their indices, only because they are in order of birth.     *)
(***************************************************************************)
EXTENDS Decoder, TagParserProofs, SequenceTheorems, TLAPS

\* A sequence, of whatever it holds.
IsSequence(s) == s \in Seq({s[n] : n \in DOMAIN s})

\* An element of d.vs.entries; no stack is ever empty between two iterations.
IsEntry(e) ==
  /\ e = [stack |-> e.stack, fragType |-> e.fragType, born |-> e.born]
  /\ IsSequence(e.stack) /\ e.stack # <<>>
  /\ e.born \in Nat \ {0}

\* The stacks of es are in step with depth open containers: the oldest, which is
\* the target's, counts all of them, the others those since their birth.
InStep(es, depth) ==
  /\ IsSequence(es)
  /\ Len(es) <= MaxStacks
  /\ \A i \in DOMAIN es : IsEntry(es[i]) /\ Len(es[i].stack) + es[i].born = depth + 1
  /\ \A i, j \in DOMAIN es : i <= j => es[i].born <= es[j].born
  /\ es # <<>> => es[1].born = 1

\* The invariant of decodeLoop between two iterations.
LoopInv ==
  /\ input \in Inputs /\ toks = input.toks /\ pos \in 0..Len(toks)
  /\ result \in {"decoding", "ok", "error", "cut", "panic"}
  /\ InStep(vs, IF parseState = <<>> THEN 1 ELSE Len(parseState))
  /\ parseState = Delimiters(OpenDocs)
  /\ vs = <<>> <=> pos > 0 /\ OpenDocs = <<>>

-----------------------------------------------------------------------------
(* Sequences of anything. *)

\* A sequence over any set is one over its own elements.
LEMMA AnySequence ==
  ASSUME NEW S, NEW s \in Seq(S)
  PROVE  IsSequence(s)
<1>1. s \in Seq(Range(s)) /\ Range(s) = {s[n] : n \in 1..Len(s)} /\ DOMAIN s = 1..Len(s)
  BY SeqOfRange, RangeEquality, LenProperties
<1> QED BY <1>1 DEF IsSequence

\* What a sequence is made of.
LEMMA SequenceFacts ==
  ASSUME NEW s, IsSequence(s)
  PROVE  /\ Len(s) \in Nat /\ DOMAIN s = 1..Len(s)
         /\ s = <<>> <=> Len(s) = 0
         /\ s = [i \in 1..Len(s) |-> s[i]]
<1>1. s \in Seq({s[n] : n \in DOMAIN s})
  BY DEF IsSequence
<1>2. /\ Len(s) \in Nat /\ DOMAIN s = 1..Len(s) /\ s \in [1..Len(s) -> {s[n] : n \in DOMAIN s}]
      /\ s = <<>> <=> Len(s) = 0
  BY <1>1, LenProperties, EmptySeq
<1> QED BY <1>2

\* [i \in 1..n |-> ...] is a sequence of length n.
LEMMA FunctionIsSequence ==
  ASSUME NEW n \in Nat, NEW f, f = [i \in 1..n |-> f[i]]
  PROVE  IsSequence(f) /\ Len(f) = n /\ DOMAIN f = 1..n
<1> DEFINE S == {f[i] : i \in 1..n}
<1>1. f \in Seq(S) /\ DOMAIN f = 1..n
  OBVIOUS
<1>2. Len(f) \in Nat /\ 1..Len(f) = 1..n
  BY <1>1, LenProperties
<1> QED BY <1>1, <1>2, AnySequence

\* push: one more on top of what was there.
LEMMA Appended ==
  ASSUME NEW s, IsSequence(s), NEW x
  PROVE  /\ IsSequence(Append(s, x)) /\ Append(s, x) # <<>>
         /\ Len(Append(s, x)) = Len(s) + 1
         /\ \A i \in 1..Len(s) : Append(s, x)[i] = s[i]
         /\ Append(s, x)[Len(s) + 1] = x
<1> DEFINE S == {s[n] : n \in DOMAIN s} \cup {x}
<1>1. s \in Seq(S) /\ x \in S
  BY SeqMonotonic DEF IsSequence
<1> HIDE DEF S
<1>2. /\ Append(s, x) \in Seq(S) /\ Append(s, x) # <<>> /\ Len(Append(s, x)) = Len(s) + 1
      /\ \A i \in 1..Len(s) : Append(s, x)[i] = s[i]
      /\ Append(s, x)[Len(s) + 1] = x
  BY <1>1, AppendProperties
<1> QED BY <1>2, AnySequence

\* pop: all but the top.
LEMMA Fronted ==
  ASSUME NEW s, IsSequence(s), s # <<>>
  PROVE  /\ IsSequence(Front(s)) /\ Len(Front(s)) = Len(s) - 1
         /\ \A i \in 1..(Len(s) - 1) : Front(s)[i] = s[i]
<1> DEFINE S == {s[n] : n \in DOMAIN s}
<1>1. PICK n \in Nat : n = Len(s) - 1 /\ DOMAIN s = 1..(n + 1)
  BY SequenceFacts
<1>2. \A i \in 1..n : s[i] \in S
  BY <1>1
<1> HIDE DEF S
<1>3. /\ SubSeq(s, 1, n) \in Seq(S) /\ Len(SubSeq(s, 1, n)) = n
      /\ \A i \in 1..n : SubSeq(s, 1, n)[i] = s[i]
  BY <1>2, SubSeqProperties
<1> QED BY <1>1, <1>3, AnySequence DEF Front

\* Sequences with the same elements are the same.
LEMMA SequencesEqual ==
  ASSUME NEW s, NEW t, IsSequence(s), IsSequence(t), Len(s) = Len(t),
         \A i \in 1..Len(s) : s[i] = t[i]
  PROVE  s = t
BY SequenceFacts

-----------------------------------------------------------------------------
(* Popping. *)

\* popAll's loop: if the stacks that are not empty come first, it keeps those.
LEMMA NonEmptyIs ==
  ASSUME NEW es, IsSequence(es), NEW k \in 0..Len(es),
         \A i \in 1..Len(es) : es[i].stack # <<>> <=> i <= k
  PROVE  NonEmpty(es) = [i \in 1..k |-> es[i]]
<1> DEFINE E(f) == [n \in 0..Len(es) |->
                      CASE n = 0 -> <<>>
                        [] n > 0 /\ es[n].stack = <<>> -> f[n - 1]
                        [] OTHER -> Append(f[n - 1], es[n])]
           first(n) == [i \in 1..(IF n <= k THEN n ELSE k) |-> es[i]]
           g == [n \in 0..Len(es) |-> first(n)]
           kept == CHOOSE f : f = E(f)
<1>1. Len(es) \in Nat /\ k \in Nat /\ k <= Len(es)
  BY SequenceFacts
<1>2. ASSUME NEW n \in 0..Len(es)
      PROVE  first(n) = CASE n = 0 -> <<>>
                          [] n > 0 /\ es[n].stack = <<>> -> first(n - 1)
                          [] OTHER -> Append(first(n - 1), es[n])
  <2>1. CASE n = 0
    BY <1>1, <2>1
  <2>2. CASE n > 0 /\ es[n].stack = <<>>
    <3>1. ~(n <= k)
      BY <1>1, <2>2
    <3>2. (IF n <= k THEN n ELSE k) = IF n - 1 <= k THEN n - 1 ELSE k
      BY <1>1, <2>2, <3>1
    <3> QED BY <2>2, <3>2
  <2>3. CASE n > 0 /\ es[n].stack # <<>>
    <3>1. n <= k /\ n - 1 \in Nat /\ n - 1 <= k /\ n \in Nat
      BY <1>1, <2>3
    <3>2. first(n) = [i \in 1..n |-> es[i]] /\ first(n - 1) = [i \in 1..(n - 1) |-> es[i]]
      BY <3>1
    <3> HIDE DEF first
    <3>3. IsSequence(first(n)) /\ Len(first(n)) = n /\ \A i \in 1..n : first(n)[i] = es[i]
      BY <3>1, <3>2, FunctionIsSequence
    <3>4. /\ IsSequence(first(n - 1)) /\ Len(first(n - 1)) = n - 1
          /\ \A i \in 1..(n - 1) : first(n - 1)[i] = es[i]
      BY <3>1, <3>2, FunctionIsSequence
    <3>5. /\ IsSequence(Append(first(n - 1), es[n])) /\ Len(Append(first(n - 1), es[n])) = n
          /\ \A i \in 1..(n - 1) : Append(first(n - 1), es[n])[i] = es[i]
          /\ Append(first(n - 1), es[n])[n] = es[n]
      BY <3>1, <3>4, Appended
    <3>6. \A i \in 1..n : i \in 1..(n - 1) \/ i = n
      BY <3>1
    <3>7. first(n) = Append(first(n - 1), es[n])
      BY <3>3, <3>5, <3>6, SequencesEqual
    <3> QED BY <2>3, <3>7
  <2> QED BY <1>1, <2>1, <2>2, <2>3
<1>3. \E f : f = E(f)
  <2>1. \A n \in 0..Len(es) : n # 0 => n - 1 \in 0..Len(es)
    BY <1>1
  <2>2. g = E(g)
    <3> HIDE DEF first
    <3> QED BY <1>2, <2>1
  <2> HIDE DEF g, E
  <2> QED BY <2>2
<1>4. NonEmpty(es) = kept[Len(es)]
  BY Zenon DEF NonEmpty
<1> HIDE DEF E
<1>5. kept = E(kept)
  BY <1>3, Zenon
<1> HIDE DEF kept
<1>6. \A n \in 0..Len(es) :
        kept[n] = CASE n = 0 -> <<>>
                    [] n > 0 /\ es[n].stack = <<>> -> kept[n - 1]
                    [] OTHER -> Append(kept[n - 1], es[n])
  BY <1>5, Zenon DEF E
<1> DEFINE Wrong == {n \in 0..Len(es) : kept[n] # first(n)}
<1>7. Wrong = {}
  <2> HIDE DEF first
  <2> SUFFICES ASSUME Wrong # {} PROVE FALSE
    OBVIOUS
  <2>1. Wrong \in SUBSET Nat
    BY <1>1
  <2>2. PICK n \in Wrong : \A y \in Wrong : n <= y
    <3> HIDE DEF Wrong
    <3> QED BY <2>1, HasLeast
  <2>3. n \in 0..Len(es) /\ kept[n] # first(n)
    OBVIOUS
  <2>4. n # 0
    BY <1>2, <1>6, <2>3
  <2>5. n - 1 \in 0..Len(es) /\ ~(n <= n - 1)
    BY <1>1, <2>3, <2>4
  <2>6. kept[n - 1] = first(n - 1)
    BY <2>2, <2>5
  <2> HIDE DEF Wrong
  <2> QED BY <1>2, <1>6, <2>3, <2>6
<1>8. Len(es) \in 0..Len(es) /\ (IF Len(es) <= k THEN Len(es) ELSE k) = k
  BY <1>1
<1>9. kept[Len(es)] = first(Len(es))
  <2> HIDE DEF first
  <2> QED BY <1>7, <1>8
<1>10. first(Len(es)) = [i \in 1..k |-> es[i]]
  BY <1>8
<1> QED BY <1>4, <1>9, <1>10

\* An entry with another stack.
LEMMA ReplacedStack ==
  ASSUME NEW e, IsEntry(e), NEW s, NEW r, r = [e EXCEPT !.stack = s]
  PROVE  /\ r = [stack |-> s, fragType |-> e.fragType, born |-> e.born]
         /\ r.stack = s /\ r.born = e.born
         /\ IsSequence(s) /\ s # <<>> => IsEntry(r)
<1>1. e = [stack |-> e.stack, fragType |-> e.fragType, born |-> e.born] /\ e.born \in Nat \ {0}
  BY DEF IsEntry
<1>2. r = [stack |-> s, fragType |-> e.fragType, born |-> e.born]
  BY <1>1
<1>3. r.stack = s /\ r.fragType = e.fragType /\ r.born = e.born
  BY <1>2
<1> QED BY <1>1, <1>2, <1>3 DEF IsEntry

\* A stack has a height, and a time of birth.
LEMMA EntryFacts ==
  ASSUME NEW e, IsEntry(e)
  PROVE  /\ IsSequence(e.stack) /\ e.stack # <<>> /\ Len(e.stack) \in Nat \ {0}
         /\ e.born \in Nat \ {0}
BY SequenceFacts DEF IsEntry

\* No stacks are in step with any place.
LEMMA EmptyInStep == InStep(<<>>, 1)
<1>1. <<>> \in Seq({})
  BY EmptySeq
<1>2. IsSequence(<<>>) /\ Len(<<>>) = 0 /\ DOMAIN <<>> = 1..0
  BY <1>1, AnySequence, SequenceFacts
<1>3. 0 <= MaxStacks /\ 1..0 = {}
  BY BoundsOK
<1> QED BY <1>2, <1>3 DEF InStep

\* Pushing takes stacks that are in step one level further.
LEMMA Pushed ==
  ASSUME NEW depth \in Nat, InStep(vs, depth), NEW locs
  PROVE  /\ InStep(Push(locs), depth + 1) /\ Len(Push(locs)) = Len(vs)
         /\ Heights(Push(locs)) = Discipline!PushAll(Heights(vs))
<1> DEFINE es == Push(locs)
<1>1. IsSequence(vs) /\ Len(vs) \in Nat /\ DOMAIN vs = 1..Len(vs)
  BY SequenceFacts DEF InStep
<1>2. es = [i \in 1..Len(vs) |-> es[i]]
  BY <1>1 DEF Push
<1>3. IsSequence(es) /\ Len(es) = Len(vs) /\ DOMAIN es = 1..Len(vs)
  <2> HIDE DEF es
  <2> QED BY <1>1, <1>2, FunctionIsSequence
<1>4. ASSUME NEW i \in 1..Len(vs)
      PROVE  /\ IsEntry(es[i]) /\ es[i].born = vs[i].born
             /\ Len(es[i].stack) = Len(vs[i].stack) + 1 /\ Len(vs[i].stack) \in Nat
             /\ Len(vs[i].stack) + vs[i].born = depth + 1 /\ vs[i].born \in Nat
  <2>1. IsEntry(vs[i]) /\ Len(vs[i].stack) + vs[i].born = depth + 1
    BY <1>1 DEF InStep
  <2>2. es[i] = [vs[i] EXCEPT !.stack = Append(vs[i].stack, locs[i])]
    BY <1>1 DEF Push
  <2>3. /\ IsSequence(Append(vs[i].stack, locs[i])) /\ Append(vs[i].stack, locs[i]) # <<>>
        /\ Len(Append(vs[i].stack, locs[i])) = Len(vs[i].stack) + 1
    BY <2>1, EntryFacts, Appended
  <2> HIDE DEF es
  <2>4. IsEntry(es[i]) /\ es[i].born = vs[i].born /\ es[i].stack = Append(vs[i].stack, locs[i])
    <3> DEFINE s == Append(vs[i].stack, locs[i])
    <3>1. es[i] = [vs[i] EXCEPT !.stack = s] /\ IsSequence(s) /\ s # <<>>
      BY <2>2, <2>3
    <3> HIDE DEF s
    <3>2. IsEntry(es[i]) /\ es[i].born = vs[i].born /\ es[i].stack = s
      BY <2>1, <3>1, ReplacedStack
    <3> QED BY <3>2 DEF s
  <2> QED BY <2>1, <2>3, <2>4, EntryFacts
<1> HIDE DEF es
<1>5. InStep(es, depth + 1)
  <2>1. /\ Len(vs) <= MaxStacks
        /\ \A i, j \in 1..Len(vs) : i <= j => vs[i].born <= vs[j].born
        /\ vs # <<>> => vs[1].born = 1
    BY <1>1 DEF InStep
  <2>2. ASSUME NEW i \in 1..Len(vs)
        PROVE  IsEntry(es[i]) /\ Len(es[i].stack) + es[i].born = (depth + 1) + 1
    <3> DEFINE h == Len(vs[i].stack)
               b == vs[i].born
    <3>1. Len(es[i].stack) = h + 1 /\ es[i].born = b /\ h \in Nat /\ b \in Nat /\ h + b = depth + 1
      BY <1>4
    <3> HIDE DEF h, b
    <3>2. Len(es[i].stack) + es[i].born = (depth + 1) + 1
      BY <3>1
    <3> QED BY <1>4, <3>2
  <2>3. \A i, j \in 1..Len(vs) : i <= j => es[i].born <= es[j].born
    BY <1>4, <2>1
  <2>4. es # <<>> => es[1].born = 1
    <3>1. es # <<>> => vs # <<>> /\ 1 \in 1..Len(vs)
      BY <1>1, <1>3, SequenceFacts
    <3> QED BY <1>4, <2>1, <3>1
  <2> QED BY <1>3, <2>1, <2>2, <2>3, <2>4 DEF InStep
<1>6. Heights(es) = Discipline!PushAll(Heights(vs))
  <2>1. /\ DOMAIN Heights(vs) = 1..Len(vs)
        /\ \A i \in 1..Len(vs) : Heights(vs)[i] = [height |-> Len(vs[i].stack), born |-> vs[i].born]
    BY <1>1 DEF Heights
  <2>2. Heights(es) = [i \in 1..Len(vs) |-> [height |-> Len(es[i].stack), born |-> es[i].born]]
    BY <1>3 DEF Heights
  <2>3. ASSUME NEW i \in 1..Len(vs)
        PROVE  [height |-> Len(es[i].stack), born |-> es[i].born]
                 = [Heights(vs)[i] EXCEPT !.height = @ + 1]
    <3>1. Heights(vs)[i] = [height |-> Len(vs[i].stack), born |-> vs[i].born]
      BY <2>1
    <3>2. Len(es[i].stack) = Len(vs[i].stack) + 1 /\ es[i].born = vs[i].born
      BY <1>4
    <3> QED BY <3>1, <3>2
  <2> QED BY <2>1, <2>2, <2>3 DEF Discipline!PushAll
<1> QED BY <1>3, <1>5, <1>6 DEF es

\* Popping: the stacks that are higher than one come first, and stay, one lower.
LEMMA Popped ==
  ASSUME NEW depth \in Nat \ {0}, NEW es, InStep(es, depth)
  PROVE  /\ Heights(PopAll(es)) = Discipline!PopAll(Heights(es))
         /\ IF depth = 1 THEN PopAll(es) = <<>>
            ELSE /\ InStep(PopAll(es), depth - 1)
                 /\ PopAll(es) = <<>> <=> es = <<>>
<1> DEFINE n == Len(es)
           h(i) == Len(es[i].stack)
           ps == [i \in DOMAIN es |-> [es[i] EXCEPT !.stack = Front(@)]]
           high == {i \in 1..n : h(i) > 1}
<1>1. IsSequence(es) /\ n \in Nat /\ DOMAIN es = 1..n /\ n <= MaxStacks /\ (es = <<>> <=> n = 0)
  BY SequenceFacts DEF InStep
<1>2. ASSUME NEW i \in 1..n
      PROVE  /\ IsEntry(es[i]) /\ h(i) \in Nat \ {0} /\ es[i].born \in Nat \ {0}
             /\ h(i) + es[i].born = depth + 1
  BY <1>1, EntryFacts DEF InStep
<1>3. \A i, j \in 1..n : i <= j => es[i].born <= es[j].born
  BY <1>1 DEF InStep
<1>4. IsSequence(ps) /\ Len(ps) = n /\ DOMAIN ps = 1..n
  <2>1. ps = [i \in 1..n |-> ps[i]]
    BY <1>1
  <2> HIDE DEF ps
  <2> QED BY <1>1, <2>1, FunctionIsSequence
<1>5. ASSUME NEW i \in 1..n
      PROVE  /\ ps[i].born = es[i].born
             /\ ps[i].stack # <<>> <=> h(i) > 1
             /\ Len(ps[i].stack) = h(i) - 1
             /\ h(i) > 1 => IsEntry(ps[i])
  <2> DEFINE s == Front(es[i].stack)
             e == es[i]
             r == ps[i]
  <2>1. /\ IsSequence(s) /\ Len(s) = h(i) - 1 /\ h(i) \in Nat \ {0}
        /\ (s = <<>> <=> Len(s) = 0)
    <3>1. IsSequence(e.stack) /\ e.stack # <<>> /\ h(i) \in Nat \ {0}
      BY <1>2, EntryFacts
    <3>2. IsSequence(s) /\ Len(s) = h(i) - 1
      BY <3>1, Fronted
    <3> HIDE DEF s
    <3> QED BY <3>1, <3>2, SequenceFacts
  <2>2. r = [e EXCEPT !.stack = s] /\ IsEntry(e)
    BY <1>1, <1>2
  <2> HIDE DEF s, e, r
  <2>3. r.stack = s /\ r.born = e.born /\ (IsSequence(s) /\ s # <<>> => IsEntry(r))
    BY <2>2, ReplacedStack
  <2>4. s # <<>> <=> h(i) > 1
    BY <2>1
  <2> QED BY <2>1, <2>3, <2>4 DEF e, r
<1>6. PICK k \in 0..n : \A i \in 1..n : h(i) > 1 <=> i <= k
  <2>1. CASE high = {}
    <3>1. 0 \in 0..n /\ \A i \in 1..n : ~(h(i) > 1) /\ ~(i <= 0)
      BY <1>1, <2>1
    <3> HIDE DEF h
    <3> QED BY <3>1
  <2>2. CASE high # {}
    <3> DEFINE top == Greatest(high)
    <3>1. top \in high /\ \A y \in high : y <= top
      <4> HIDE DEF high
      <4>1. high \in SUBSET (1..n)
        BY DEF high
      <4> QED BY <1>1, <2>2, <4>1, GreatestIsIn
    <3> HIDE DEF top
    <3>2. ASSUME NEW i \in 1..n, i <= top PROVE h(i) > 1
      <4>1. top \in 1..n /\ h(top) > 1 /\ es[i].born <= es[top].born
        BY <1>3, <3>1, <3>2
      <4>2. h(i) + es[i].born = depth + 1 /\ h(top) + es[top].born = depth + 1
        BY <1>2, <4>1
      <4>3. h(i) \in Nat /\ h(top) \in Nat /\ es[i].born \in Nat /\ es[top].born \in Nat
        BY <1>2, <4>1
      <4> HIDE DEF h
      <4> QED BY <4>1, <4>2, <4>3
    <3>3. \A i \in 1..n : h(i) > 1 => i <= top
      BY <3>1
    <3>4. top \in 0..n
      BY <1>1, <3>1
    <3> HIDE DEF h, high, ps, n
    <3>5. \A i \in 1..n : h(i) > 1 <=> i <= top
      BY <3>2, <3>3
    <3> QED BY <3>4, <3>5, Zenon
  <2> QED BY <2>1, <2>2
<1> HIDE DEF high, ps
<1>7. PopAll(es) = [i \in 1..k |-> ps[i]]
  <2>1. \A i \in 1..n : ps[i].stack # <<>> <=> i <= k
    BY <1>5, <1>6
  <2>2. NonEmpty(ps) = [i \in 1..k |-> ps[i]]
    BY <1>4, <2>1, NonEmptyIs
  <2> QED BY <2>2 DEF PopAll, ps
<1>8. k \in Nat /\ k <= n /\ \A i \in 1..k : i \in 1..n /\ h(i) > 1
  BY <1>1, <1>6
<1> DEFINE qs == PopAll(es)
<1>9. /\ IsSequence(qs) /\ Len(qs) = k /\ DOMAIN qs = 1..k /\ (qs = <<>> <=> k = 0)
      /\ \A i \in 1..k : qs[i] = ps[i]
  <2>1. \A i \in 1..k : qs[i] = ps[i]
    BY <1>7
  <2>2. qs = [i \in 1..k |-> qs[i]]
    BY <1>7
  <2> HIDE DEF qs
  <2>3. IsSequence(qs) /\ Len(qs) = k /\ DOMAIN qs = 1..k
    BY <1>8, <2>2, FunctionIsSequence
  <2> QED BY <2>1, <2>3, SequenceFacts
<1>10. Heights(qs) = Discipline!PopAll(Heights(es))
  <2>1. /\ DOMAIN Heights(es) = 1..n
        /\ \A i \in 1..n : Heights(es)[i] = [height |-> h(i), born |-> es[i].born]
    BY <1>1 DEF Heights
  <2>2. Heights(qs) = [i \in 1..k |-> [height |-> Len(qs[i].stack), born |-> qs[i].born]]
    BY <1>9 DEF Heights
  <2>3. {i \in DOMAIN Heights(es) : Heights(es)[i].height > 1} = 1..k
    <3>1. \A i \in 1..n : Heights(es)[i].height = h(i)
      BY <2>1
    <3> HIDE DEF h
    <3> QED BY <1>6, <1>8, <2>1, <3>1
  <2>4. ASSUME NEW i \in 1..k
        PROVE  [height |-> Len(qs[i].stack), born |-> qs[i].born]
                 = [Heights(es)[i] EXCEPT !.height = @ - 1]
    <3>1. Heights(es)[i] = [height |-> h(i), born |-> es[i].born]
      BY <1>8, <2>1
    <3>2. Len(qs[i].stack) = h(i) - 1 /\ qs[i].born = es[i].born
      BY <1>5, <1>8, <1>9
    <3> HIDE DEF qs, h
    <3> QED BY <3>1, <3>2
  <2> HIDE DEF qs
  <2> QED BY <2>2, <2>3, <2>4 DEF Discipline!PopAll
<1>11. ASSUME depth = 1 PROVE qs = <<>>
  <2>2. ASSUME NEW i \in 1..n PROVE ~(h(i) > 1)
    <3> DEFINE b == es[i].born
    <3>1. h(i) + b = 2 /\ h(i) \in Nat \ {0} /\ b \in Nat \ {0}
      BY <1>2, <1>11
    <3> HIDE DEF h, b
    <3> QED BY <3>1
  <2>3. k = 0
    <3> HIDE DEF h
    <3> QED BY <1>8, <2>2
  <2> QED BY <1>9, <2>3
<1>12. ASSUME depth # 1 PROVE InStep(qs, depth - 1) /\ (qs = <<>> <=> es = <<>>)
  <2>1. es # <<>> => k >= 1 /\ es[1].born = 1
    <3>1. SUFFICES ASSUME es # <<>> PROVE k >= 1 /\ es[1].born = 1
      OBVIOUS
    <3>2. 1 \in 1..n /\ es[1].born = 1
      BY <1>1, <3>1 DEF InStep
    <3>3. h(1) + 1 = depth + 1 /\ h(1) \in Nat
      BY <1>2, <3>2
    <3>4. h(1) > 1
      <4> HIDE DEF h
      <4> QED BY <1>12, <3>3
    <3> HIDE DEF h
    <3> QED BY <1>6, <1>8, <3>2, <3>4
  <2>2. qs = <<>> <=> es = <<>>
    BY <1>1, <1>8, <1>9, <2>1
  <2>3. ASSUME NEW i \in 1..k
        PROVE  IsEntry(qs[i]) /\ Len(qs[i].stack) + qs[i].born = (depth - 1) + 1
    <3>1. IsEntry(qs[i]) /\ Len(qs[i].stack) = h(i) - 1 /\ qs[i].born = es[i].born
      BY <1>5, <1>8, <1>9
    <3>2. h(i) \in Nat /\ es[i].born \in Nat /\ h(i) + es[i].born = depth + 1
      BY <1>2, <1>8
    <3> HIDE DEF h, qs
    <3> QED BY <3>1, <3>2
  <2>4. \A i, j \in 1..k : i <= j => qs[i].born <= qs[j].born
    <3>1. \A i \in 1..k : i \in 1..n /\ qs[i].born = es[i].born
      BY <1>5, <1>8, <1>9
    <3> QED BY <1>3, <3>1
  <2>5. qs # <<>> => qs[1].born = 1
    <3>1. SUFFICES ASSUME qs # <<>> PROVE qs[1].born = 1
      OBVIOUS
    <3>2. k >= 1 /\ es[1].born = 1 /\ 1 \in 1..k
      BY <1>8, <2>1, <2>2, <3>1
    <3> QED BY <1>5, <1>8, <1>9, <3>2
  <2>6. k <= MaxStacks
    BY <1>1, <1>8, BoundsOK
  <2> HIDE DEF qs
  <2> QED BY <1>9, <2>2, <2>3, <2>4, <2>5, <2>6 DEF InStep
<1> QED BY <1>10, <1>11, <1>12

\* An object's fragments and embedded structs get stacks that are in step.
LEMMA Extended ==
  ASSUME NEW es, es # <<>>, NEW depth \in Nat, depth = Len(parseState) + 1, InStep(es, depth),
         NEW parts, NEW n \in Len(es)..MaxStacks,
         NEW all, all = [i \in 1..n |-> all[i]],
         \A i \in 1..n : all[i] = IF i <= Len(es) THEN es[i] ELSE NewStack(parts[i])
  PROVE  /\ InStep(all, depth) /\ all # <<>>
         /\ \E new \in SUBSET ((1..MaxStacks) \ DOMAIN Heights(es)) :
              Heights(all) = Discipline!AddStacks(Heights(es), new, depth)
<1> DEFINE new == (Len(es) + 1)..n
<1>1. /\ IsSequence(es) /\ Len(es) \in Nat \ {0} /\ DOMAIN es = 1..Len(es)
      /\ n \in Nat /\ n <= MaxStacks /\ Len(es) <= n
  BY SequenceFacts, BoundsOK DEF InStep
<1>2. IsSequence(all) /\ Len(all) = n /\ DOMAIN all = 1..n /\ all # <<>>
  <2>1. IsSequence(all) /\ Len(all) = n /\ DOMAIN all = 1..n
    BY <1>1, FunctionIsSequence
  <2> QED BY <1>1, <2>1, SequenceFacts
<1>3. \A i \in 1..Len(es) : all[i] = es[i]
  BY <1>1
<1>4. ASSUME NEW i \in new
      PROVE  /\ i \in 1..n /\ ~(i <= Len(es)) /\ IsEntry(all[i])
             /\ Len(all[i].stack) = 1 /\ all[i].born = depth
  <2>1. i \in 1..n /\ ~(i <= Len(es))
    BY <1>1
  <2>2. all[i] = [stack |-> <<parts[i].place>>, fragType |-> parts[i].fragType, born |-> depth]
    BY <2>1 DEF NewStack
  <2>3. /\ IsSequence(<<parts[i].place>>) /\ <<parts[i].place>> # <<>>
        /\ Len(<<parts[i].place>>) = 1
    <3>1. <<parts[i].place>> \in Seq({parts[i].place})
      OBVIOUS
    <3>2. IsSequence(<<parts[i].place>>)
      BY <3>1, AnySequence
    <3> QED BY <3>2
  <2>4. depth \in Nat \ {0}
    BY <1>1, EntryFacts DEF InStep
  <2> DEFINE e == all[i]
             s == <<parts[i].place>>
             f == parts[i].fragType
  <2>5. e = [stack |-> s, fragType |-> f, born |-> depth]
    BY <2>2
  <2> HIDE DEF e, s, f
  <2>6. e.stack = s /\ e.fragType = f /\ e.born = depth
    BY <2>5
  <2>7. e = [stack |-> e.stack, fragType |-> e.fragType, born |-> e.born]
    BY <2>5, <2>6
  <2>8. IsSequence(s) /\ s # <<>> /\ Len(s) = 1
    BY <2>3 DEF s
  <2>9. IsEntry(e) /\ Len(e.stack) = 1
    BY <2>4, <2>6, <2>7, <2>8 DEF IsEntry
  <2> QED BY <2>1, <2>6, <2>9 DEF e
<1>5. \A i \in 1..n : i \in 1..Len(es) \/ i \in new
  BY <1>1
<1>6. ASSUME NEW i \in 1..Len(es)
      PROVE  /\ IsEntry(es[i]) /\ Len(es[i].stack) + es[i].born = depth + 1
             /\ es[i].born \in Nat /\ es[i].born <= depth
  <2> DEFINE h == Len(es[i].stack)
             b == es[i].born
  <2>1. IsEntry(es[i]) /\ h + b = depth + 1
    BY <1>1 DEF InStep
  <2>2. h \in Nat \ {0} /\ b \in Nat
    BY <2>1, EntryFacts
  <2>3. b <= depth
    <3> HIDE DEF h, b
    <3> QED BY <2>1, <2>2
  <2> QED BY <2>1, <2>2, <2>3
<1> HIDE DEF new
<1>7. ASSUME NEW i \in 1..n
      PROVE  /\ IsEntry(all[i]) /\ Len(all[i].stack) + all[i].born = depth + 1
             /\ all[i].born \in Nat /\ all[i].born <= depth
  <2>1. CASE i \in 1..Len(es)
    <3>1. all[i] = es[i]
      BY <1>3, <2>1
    <3> QED BY <1>6, <2>1, <3>1
  <2>2. CASE i \in new
    <3>1. IsEntry(all[i]) /\ Len(all[i].stack) = 1 /\ all[i].born = depth
      BY <1>4, <2>2
    <3>2. 1 + depth = depth + 1 /\ depth \in Nat /\ depth <= depth
      OBVIOUS
    <3> QED BY <3>1, <3>2, Zenon
  <2> QED BY <1>5, <2>1, <2>2
<1>8. ASSUME NEW i \in 1..n, NEW j \in 1..n, i <= j
      PROVE  all[i].born <= all[j].born
  <2>1. CASE j \in new
    BY <1>4, <1>7, <2>1
  <2>2. CASE j \in 1..Len(es)
    <3>1. i \in 1..Len(es) /\ es[i].born <= es[j].born
      BY <1>1, <1>8, <2>2 DEF InStep
    <3> QED BY <1>3, <2>2, <3>1
  <2> QED BY <1>5, <2>1, <2>2
<1>9. all[1].born = 1
  <2>1. 1 \in 1..Len(es) /\ es[1].born = 1
    BY <1>1 DEF InStep
  <2> QED BY <1>3, <2>1
<1>10. InStep(all, depth)
  BY <1>1, <1>2, <1>7, <1>8, <1>9 DEF InStep
<1>11. /\ DOMAIN Heights(es) = 1..Len(es)
       /\ \A i \in 1..Len(es) : Heights(es)[i] = [height |-> Len(es[i].stack), born |-> es[i].born]
  BY <1>1 DEF Heights
<1>12. new \in SUBSET ((1..MaxStacks) \ DOMAIN Heights(es)) /\ 1..n = DOMAIN Heights(es) \cup new
  <2> DEFINE l == Len(es)
  <2>1. l \in Nat /\ n \in Nat /\ MaxStacks \in Nat /\ n <= MaxStacks /\ l <= n
    BY <1>1, BoundsOK
  <2>2. DOMAIN Heights(es) = 1..l /\ new = (l + 1)..n
    BY <1>11 DEF new
  <2> HIDE DEF l
  <2> QED BY <2>1, <2>2
<1>13. Heights(all) = Discipline!AddStacks(Heights(es), new, depth)
  <2>1. Heights(all) = [i \in 1..n |-> [height |-> Len(all[i].stack), born |-> all[i].born]]
    BY <1>2 DEF Heights
  <2>2. ASSUME NEW i \in 1..n
        PROVE  [height |-> Len(all[i].stack), born |-> all[i].born]
                 = IF i \in new THEN [height |-> 1, born |-> depth] ELSE Heights(es)[i]
    <3>1. CASE i \in new
      BY <1>4, <3>1
    <3>2. CASE i \notin new
      <4>1. i \in 1..Len(es) /\ all[i] = es[i]
        BY <1>3, <1>5, <3>2
      <4> QED BY <1>11, <3>2, <4>1
    <3> QED BY <3>1, <3>2
  <2> QED BY <1>12, <2>1, <2>2 DEF Discipline!AddStacks
<1> QED BY <1>2, <1>10, <1>12, <1>13

-----------------------------------------------------------------------------
(* The input. *)

\* The delimiters of open containers are a sequence as long as theirs.
LEMMA DelimitersOf ==
  ASSUME NEW s, IsSequence(s)
  PROVE  /\ IsSequence(Delimiters(s)) /\ Len(Delimiters(s)) = Len(s)
         /\ Delimiters(s) = <<>> <=> s = <<>>
         /\ \A i \in 1..Len(s) : Delimiters(s)[i] = DelimOf(s[i])
<1>1. Len(s) \in Nat /\ DOMAIN s = 1..Len(s) /\ (s = <<>> <=> Len(s) = 0)
  BY SequenceFacts
<1> DEFINE ds == Delimiters(s)
<1>2. /\ ds = [i \in 1..Len(s) |-> ds[i]]
      /\ \A i \in 1..Len(s) : ds[i] = DelimOf(s[i])
  BY <1>1 DEF Delimiters
<1> HIDE DEF ds
<1>3. IsSequence(ds) /\ Len(ds) = Len(s)
  BY <1>1, <1>2, FunctionIsSequence
<1>4. ds = <<>> <=> s = <<>>
  BY <1>1, <1>3, SequenceFacts
<1> QED BY <1>2, <1>3, <1>4 DEF ds

\* A container opens, in the input and for the decoder.
LEMMA DelimitersAppended ==
  ASSUME NEW s, IsSequence(s), NEW d
  PROVE  Delimiters(Append(s, d)) = Append(Delimiters(s), DelimOf(d))
<1> DEFINE left == Delimiters(Append(s, d))
           right == Append(Delimiters(s), DelimOf(d))
<1>1. /\ IsSequence(Append(s, d)) /\ Len(Append(s, d)) = Len(s) + 1 /\ Len(s) \in Nat
      /\ \A i \in 1..Len(s) : Append(s, d)[i] = s[i]
      /\ Append(s, d)[Len(s) + 1] = d
  BY Appended, SequenceFacts
<1>2. /\ IsSequence(left) /\ Len(left) = Len(s) + 1
      /\ \A i \in 1..(Len(s) + 1) : left[i] = DelimOf(Append(s, d)[i])
  BY <1>1, DelimitersOf
<1>3. /\ IsSequence(Delimiters(s)) /\ Len(Delimiters(s)) = Len(s)
      /\ \A i \in 1..Len(s) : Delimiters(s)[i] = DelimOf(s[i])
  BY DelimitersOf
<1>4. /\ IsSequence(right) /\ Len(right) = Len(s) + 1
      /\ \A i \in 1..Len(s) : right[i] = Delimiters(s)[i]
      /\ right[Len(s) + 1] = DelimOf(d)
  BY <1>3, Appended
<1> HIDE DEF left, right
<1>5. \A i \in 1..(Len(s) + 1) : i \in 1..Len(s) \/ i = Len(s) + 1
  BY <1>1
<1>6. \A i \in 1..(Len(s) + 1) : left[i] = right[i]
  BY <1>1, <1>2, <1>3, <1>4, <1>5
<1>7. left = right
  BY <1>2, <1>4, <1>6, SequencesEqual
<1> QED BY <1>7 DEF left, right

\* The innermost container closes, for both.
LEMMA DelimitersFronted ==
  ASSUME NEW s, IsSequence(s), s # <<>>
  PROVE  /\ Delimiters(Front(s)) = Front(Delimiters(s))
         /\ Last(Delimiters(s)) = DelimOf(Last(s))
<1> DEFINE left == Delimiters(Front(s))
           right == Front(Delimiters(s))
<1>1. /\ IsSequence(Front(s)) /\ Len(Front(s)) = Len(s) - 1 /\ Len(s) \in Nat \ {0}
      /\ \A i \in 1..(Len(s) - 1) : Front(s)[i] = s[i]
  BY Fronted, SequenceFacts
<1>2. /\ IsSequence(left) /\ Len(left) = Len(s) - 1
      /\ \A i \in 1..(Len(s) - 1) : left[i] = DelimOf(Front(s)[i])
  BY <1>1, DelimitersOf
<1>3. /\ IsSequence(Delimiters(s)) /\ Len(Delimiters(s)) = Len(s) /\ Delimiters(s) # <<>>
      /\ \A i \in 1..Len(s) : Delimiters(s)[i] = DelimOf(s[i])
  BY DelimitersOf
<1>4. /\ IsSequence(right) /\ Len(right) = Len(s) - 1
      /\ \A i \in 1..(Len(s) - 1) : right[i] = Delimiters(s)[i]
  BY <1>3, Fronted
<1> HIDE DEF left, right
<1>5. \A i \in 1..(Len(s) - 1) : i \in 1..Len(s)
  BY <1>1
<1>6. \A i \in 1..(Len(s) - 1) : left[i] = right[i]
  BY <1>1, <1>2, <1>3, <1>4, <1>5
<1>7. left = right
  BY <1>2, <1>4, <1>6, SequencesEqual
<1>8. Last(Delimiters(s)) = DelimOf(Last(s))
  BY <1>1, <1>3 DEF Last
<1> QED BY <1>7, <1>8 DEF left, right

\* What is open after each token, and where the text ends.
LEMMA TextFacts ==
  ASSUME NEW text, IsText(text)
  PROVE  /\ Len(text) \in Nat \ {0} /\ Len(text) <= MaxTokens
         /\ \A i \in 0..Len(text) :
              /\ IsSequence(Open(text, i))
              /\ i > 0 => (Open(text, i) = <<>> <=> i = Len(text))
<1>1. /\ Len(text) \in 1..MaxTokens
      /\ \A i \in 1..Len(text) :
           /\ text[i].open \in Seq(Range([k \in 1..Len(text) |-> text[k].d]))
           /\ text[i].open = <<>> <=> i = Len(text)
  BY DEF IsText
<1>2. Len(text) \in Nat \ {0} /\ Len(text) <= MaxTokens
  BY <1>1, BoundsOK
<1>3. IsSequence(<<>>)
  BY AnySequence, EmptySeq
<1>4. ASSUME NEW i \in 0..Len(text)
      PROVE  IsSequence(Open(text, i)) /\ (i > 0 => (Open(text, i) = <<>> <=> i = Len(text)))
  <2>1. CASE i = 0
    BY <1>3, <2>1 DEF Open
  <2>2. CASE i # 0
    <3>1. i \in 1..Len(text) /\ Open(text, i) = text[i].open
      BY <1>2, <2>2 DEF Open
    <3>2. IsSequence(Open(text, i))
      BY <1>1, <3>1, AnySequence
    <3> QED BY <1>1, <3>1, <3>2
  <2> QED BY <2>1, <2>2
<1> QED BY <1>2, <1>4

\* What is open after the next token, by its kind, and after a whole value.
LEMMA TokenFacts ==
  ASSUME NEW text, IsText(text), NEW i \in 0..(Len(text) - 1), NEW tok, tok = text[i + 1]
  PROVE  /\ tok.t \in {"{", "["} =>
              tok.t = DelimOf(tok.d) /\ Open(text, i + 1) = Append(Open(text, i), tok.d)
         /\ tok.t \in {"}", "]"} =>
              /\ Open(text, i) # <<>> /\ tok.t = ClosingDelim(Last(Open(text, i)))
              /\ Open(text, i + 1) = Front(Open(text, i))
         /\ tok.t = "key" =>
              /\ Open(text, i) # <<>> /\ Open(text, i + 1) = Open(text, i)
              /\ i + 2 <= Len(text) /\ StartsValue(text[i + 2])
         /\ tok.t = "scalar" => Open(text, i + 1) = Open(text, i)
         /\ StartsValue(tok) =>
              tok.n \in 1..(Len(text) - i) /\ Open(text, i + tok.n) = Open(text, i)
<1> DEFINE p == i + 1
<1>1. /\ Len(text) \in Nat /\ p \in 1..Len(text) /\ p - 1 = i /\ p + 1 = i + 2
      /\ Len(text) - p + 1 = Len(text) - i
  BY TextFacts
<1>2. /\ IsStep(tok, Open(text, i))
      /\ text[p].open = <<>> <=> p = Len(text)
      /\ tok.t = "key" => StartsValue(text[p + 1])
      /\ StartsValue(tok) => /\ tok.n \in 1..(Len(text) - i)
                             /\ Open(text, p + tok.n - 1) = Open(text, i)
  <2> HIDE DEF p
  <2>1. tok = text[p]
    BY DEF p
  <2> QED BY <1>1, <2>1 DEF IsText
<1>3. Open(text, i + 1) = tok.open
  BY <1>1 DEF Open
<1>4. tok.t \in {"{", "["} =>
        tok.t = DelimOf(tok.d) /\ Open(text, i + 1) = Append(Open(text, i), tok.d)
  BY <1>2, <1>3 DEF IsStep
<1>5. tok.t \in {"}", "]"} =>
        /\ Open(text, i) # <<>> /\ tok.t = ClosingDelim(Last(Open(text, i)))
        /\ Open(text, i + 1) = Front(Open(text, i))
  BY <1>2, <1>3 DEF IsStep
<1>6. tok.t = "key" => Open(text, i) # <<>> /\ Open(text, i + 1) = Open(text, i)
  BY <1>2, <1>3 DEF IsStep
<1>7. tok.t = "key" => i + 2 <= Len(text) /\ StartsValue(text[i + 2])
  <2>1. tok.t = "key" => tok.open # <<>>
    BY <1>3, <1>6
  <2>2. tok.t = "key" => p # Len(text)
    BY <1>2, <2>1
  <2> QED BY <1>1, <1>2, <2>2
<1>8. tok.t = "scalar" => Open(text, i + 1) = Open(text, i)
  BY <1>2, <1>3 DEF IsStep
<1>9. StartsValue(tok) =>
        tok.n \in 1..(Len(text) - i) /\ Open(text, i + tok.n) = Open(text, i)
  <2>1. SUFFICES ASSUME StartsValue(tok)
                 PROVE  tok.n \in 1..(Len(text) - i) /\ Open(text, i + tok.n) = Open(text, i)
    OBVIOUS
  <2>2. tok.n \in 1..(Len(text) - i) /\ Open(text, p + tok.n - 1) = Open(text, i)
    BY <1>2, <2>1
  <2>3. p + tok.n - 1 = i + tok.n
    BY <1>1, <2>2
  <2> QED BY <2>2, <2>3
<1> QED BY <1>4, <1>5, <1>6, <1>7, <1>8, <1>9

\* Between two iterations the decoder and the tokenizer are at the same place.
LEMMA Synced ==
  ASSUME LoopInv
  PROVE  /\ IsText(toks) /\ Len(toks) \in Nat \ {0} /\ Len(toks) <= MaxTokens
         /\ pos \in Nat /\ pos <= Len(toks) /\ (vs # <<>> => pos < Len(toks))
         /\ IsSequence(OpenDocs) /\ IsSequence(parseState) /\ Len(parseState) = Len(OpenDocs)
         /\ parseState = <<>> <=> OpenDocs = <<>>
         /\ parseState # <<>> =>
              State \in {"{", "["} /\ State = DelimOf(Last(OpenDocs))
         /\ State = Discipline!State /\ State = Discipline!Innermost(parseState)
         /\ DOMAIN Heights(vs) = 1..Len(vs) /\ Len(vs) \in Nat
         /\ vs = <<>> <=> DOMAIN Heights(vs) = {}
<1>1. IsText(toks) /\ pos \in 0..Len(toks) /\ parseState = Delimiters(OpenDocs)
  BY InputsOK DEF LoopInv
<1>2. Len(toks) \in Nat \ {0} /\ Len(toks) <= MaxTokens /\ IsSequence(OpenDocs)
  BY <1>1, TextFacts DEF OpenDocs
<1>3. vs # <<>> => pos < Len(toks)
  <2>1. vs = <<>> <=> pos > 0 /\ OpenDocs = <<>>
    BY DEF LoopInv
  <2>2. pos > 0 => (OpenDocs = <<>> <=> pos = Len(toks))
    BY <1>1, TextFacts DEF OpenDocs
  <2> QED BY <1>1, <1>2, <2>1, <2>2
<1>4. IsSequence(parseState) /\ Len(parseState) = Len(OpenDocs) /\ (parseState = <<>> <=> OpenDocs = <<>>)
  BY <1>1, <1>2, DelimitersOf
<1>5. parseState # <<>> => State \in {"{", "["} /\ State = DelimOf(Last(OpenDocs))
  BY <1>1, <1>2, <1>4, DelimitersFronted DEF State, DelimOf
<1>6. State = Discipline!State /\ State = Discipline!Innermost(parseState)
  BY DEF State, Last, Discipline!State, Discipline!Innermost
<1>7. /\ DOMAIN Heights(vs) = 1..Len(vs) /\ Len(vs) \in Nat
      /\ vs = <<>> <=> DOMAIN Heights(vs) = {}
  <2>1. Len(vs) \in Nat /\ DOMAIN vs = 1..Len(vs) /\ (vs = <<>> <=> Len(vs) = 0)
    BY SequenceFacts DEF LoopInv, InStep
  <2>2. DOMAIN Heights(vs) = 1..Len(vs)
    BY <2>1 DEF Heights
  <2> QED BY <2>1, <2>2
<1>8. pos \in Nat /\ pos <= Len(toks)
  BY <1>1, <1>2
<1> QED BY <1>1, <1>2, <1>3, <1>4, <1>5, <1>6, <1>7, <1>8, Zenon

-----------------------------------------------------------------------------
(* The steps of the decoder. *)

\* The decoder is looping, and has the place for the next value on top of the
\* stacks es; the value's token comes after a key if there is one.
Ready(es, ahead) ==
  /\ Looping
  /\ es # <<>> /\ InStep(es, Len(parseState) + 1)
  /\ Heights(es) = Discipline!ReadyForValue
  /\ ahead = Discipline!KeyTokens
  /\ pos + ahead < Len(toks)
  /\ Open(toks, pos + ahead) = OpenDocs

\* The numbers a step reckons with.
LEMMA Places ==
  ASSUME LoopInv
  PROVE  /\ Len(toks) \in Nat /\ pos \in Nat /\ Len(parseState) \in Nat
         /\ parseState = <<>> <=> Len(parseState) = 0
<1>1. IsSequence(parseState)
  BY Synced
<1>2. Len(parseState) \in Nat /\ (parseState = <<>> <=> Len(parseState) = 0)
  BY <1>1, SequenceFacts
<1>3. Len(toks) \in Nat \ {0} /\ pos \in Nat
  BY Synced
<1> QED BY <1>2, <1>3

\* What is ready for a value in the decoder is so in DecodeStack.
LEMMA ReadyFacts ==
  ASSUME LoopInv, NEW es, NEW ahead, Ready(es, ahead)
  PROVE  /\ ahead \in Nat /\ Len(parseState) \in Nat
         /\ Discipline!ValueAhead
<1>1. ahead \in {0, 1} /\ ahead = Discipline!KeyTokens
  BY DEF Ready, Discipline!KeyTokens
<1>2. Discipline!Looping
  BY Synced DEF Ready, Looping, Discipline!Looping
<1>3. ~(pos > 0 /\ OpenDocs = <<>>)
  BY DEF LoopInv, Ready, Looping
<1>4. Discipline!State = Discipline!Innermost(Delimiters(OpenDocs))
  BY DEF LoopInv, Discipline!State
<1>5. Len(toks) - pos > ahead
  <2>1. pos + ahead < Len(toks)
    BY DEF Ready
  <2>2. Len(toks) \in Nat /\ pos \in Nat /\ ahead \in Nat
    BY <1>1, Places
  <2> QED BY <2>1, <2>2
<1>6. Discipline!ValueAhead
  BY <1>1, <1>2, <1>3, <1>4, <1>5 DEF Discipline!ValueAhead
<1>7. Len(parseState) \in Nat
  BY Synced, SequenceFacts
<1> QED BY <1>1, <1>6, <1>7

\* An error leaves the stacks and the place in the input as they are.
LEMMA FailStep ==
  ASSUME LoopInv, Looping, result' \in {"error", "cut", "panic"},
         UNCHANGED <<vs, parseState, toks, pos, input>>
  PROVE  LoopInv' /\ Discipline!Fail
<1>1. UNCHANGED <<OpenDocs, Heights(vs)>>
  BY DEF OpenDocs
<1>2. LoopInv'
  BY <1>1 DEF LoopInv
<1>3. Discipline!Looping /\ Len(toks) - pos > 0
  <2>1. Len(toks) \in Nat /\ pos \in Nat /\ pos < Len(toks) /\ DOMAIN Heights(vs) # {}
    BY Synced DEF Looping
  <2>2. Len(toks) - pos > 0
    BY <2>1
  <2> QED BY <2>1, <2>2 DEF Looping, Discipline!Looping
<1>4. Discipline!Fail
  BY <1>1, <1>3 DEF Discipline!Fail
<1> QED BY <1>2, <1>4

\* A value without containers, or one that is taken whole: n tokens.
TakesValue(es, ahead, n) ==
  /\ n \in 1..(Len(toks) - pos - ahead) /\ (n > 1 => State = "{")
  /\ Open(toks, pos + ahead + n) = OpenDocs
  /\ vs' = PopAll(es) /\ pos' = pos + ahead + n
  /\ UNCHANGED <<parseState, result, toks, input>>

\* The place of the value's first token.
LEMMA PlacesAhead ==
  ASSUME LoopInv, NEW es, NEW ahead, Ready(es, ahead)
  PROVE  ahead \in Nat /\ pos + ahead \in 0..(Len(toks) - 1) /\ Len(parseState) + 1 \in Nat \ {0}
<1>1. ahead \in Nat /\ Len(toks) \in Nat /\ pos \in Nat /\ Len(parseState) \in Nat
  BY ReadyFacts, Places
<1>2. pos + ahead < Len(toks)
  BY DEF Ready
<1> QED BY <1>1, <1>2

\* popAll after a value: the stacks are back in step with what is open around it.
LEMMA PoppedStacks ==
  ASSUME LoopInv, NEW es, NEW ahead, Ready(es, ahead)
  PROVE  /\ Heights(PopAll(es)) = Discipline!PopAll(Discipline!ReadyForValue)
         /\ InStep(PopAll(es), IF parseState = <<>> THEN 1 ELSE Len(parseState))
         /\ PopAll(es) = <<>> <=> parseState = <<>>
<1> DEFINE depth == Len(parseState) + 1
<1>1. /\ depth \in Nat \ {0} /\ (depth = 1 <=> parseState = <<>>) /\ depth - 1 = Len(parseState)
  BY Places
<1>2. es # <<>> /\ InStep(es, depth) /\ Heights(es) = Discipline!ReadyForValue
  BY DEF Ready
<1> HIDE DEF depth
<1>3. Heights(PopAll(es)) = Discipline!PopAll(Heights(es))
  BY <1>1, <1>2, Popped
<1>4. CASE depth = 1
  <2>1. PopAll(es) = <<>>
    BY <1>1, <1>2, <1>4, Popped
  <2>2. InStep(<<>>, 1)
    BY EmptyInStep
  <2> QED BY <1>1, <1>2, <1>3, <1>4, <2>1, <2>2
<1>5. CASE depth # 1
  <2>1. InStep(PopAll(es), depth - 1) /\ (PopAll(es) = <<>> <=> es = <<>>)
    BY <1>1, <1>2, <1>5, Popped
  <2> QED BY <1>1, <1>2, <1>3, <1>5, <2>1
<1> QED BY <1>4, <1>5

\* Reckoning with tokens.
LEMMA Forward ==
  ASSUME NEW l \in Nat, NEW p \in Nat, NEW a \in Nat, p + a \in 0..(l - 1),
         NEW n \in 1..(l - p - a)
  PROVE  p + a + n \in 0..l /\ p + a + n > 0 /\ l - (p + a + n) = l - p - a - n
OBVIOUS

LEMMA OneFurther ==
  ASSUME NEW l \in Nat, NEW p \in Nat, p < l
  PROVE  /\ p \in 0..(l - 1) /\ p + 1 \in 0..l /\ p + 1 > 0
         /\ l - p > 0 /\ l - (p + 1) = l - p - 1
OBVIOUS

\* A container that is closed was the only one.
LEMMA LengthOne ==
  ASSUME NEW s, IsSequence(s), NEW n \in Nat \ {0}, Len(s) = n - 1
  PROVE  s = <<>> <=> n = 1
<1>1. s = <<>> <=> Len(s) = 0
  BY SequenceFacts
<1>2. n - 1 = 0 <=> n = 1
  OBVIOUS
<1> QED BY <1>1, <1>2

\* decodeScalarValue, or a value that readNextToken takes whole, is a Scalar step.
LEMMA ScalarStep ==
  ASSUME LoopInv, NEW es, NEW ahead, Ready(es, ahead), NEW n, TakesValue(es, ahead, n)
  PROVE  LoopInv' /\ Discipline!Scalar
<1>1. /\ n \in 1..(Len(toks) - pos - ahead) /\ pos' = pos + ahead + n
      /\ UNCHANGED <<parseState, result, toks, input>> /\ vs' = PopAll(es)
      /\ Open(toks, pos + ahead + n) = OpenDocs /\ (n > 1 => State = "{")
  BY DEF TakesValue
<1>2. pos' \in 0..Len(toks) /\ pos' > 0 /\ Len(toks) - pos' = Len(toks) - pos - ahead - n
  <2>1. Len(toks) \in Nat /\ pos \in Nat /\ ahead \in Nat /\ pos + ahead \in 0..(Len(toks) - 1)
    BY Places, PlacesAhead
  <2>2. /\ pos + ahead + n \in 0..Len(toks) /\ pos + ahead + n > 0
        /\ Len(toks) - (pos + ahead + n) = Len(toks) - pos - ahead - n
    BY <1>1, <2>1, Forward
  <2> QED BY <1>1, <2>2, Zenon
<1>3. OpenDocs' = OpenDocs
  BY <1>1 DEF OpenDocs
<1>4. parseState = <<>> <=> OpenDocs = <<>>
  BY Synced
<1>5. /\ Heights(vs') = Discipline!PopAll(Discipline!ReadyForValue)
      /\ InStep(vs', IF parseState = <<>> THEN 1 ELSE Len(parseState))
      /\ vs' = <<>> <=> parseState = <<>>
  BY <1>1, PoppedStacks
<1>6. LoopInv'
  BY <1>1, <1>2, <1>3, <1>4, <1>5 DEF LoopInv
<1>7. Discipline!Scalar
  <2>1. ahead = Discipline!KeyTokens /\ Discipline!ValueAhead /\ State = Discipline!State
    BY ReadyFacts, Synced DEF Ready
  <2>2. (pos > 0 /\ OpenDocs = <<>>)' = (Delimiters(OpenDocs) = <<>>)
    BY <1>2, <1>3, <1>4 DEF LoopInv
  <2> QED BY <1>1, <1>2, <1>3, <1>5, <2>1, <2>2 DEF Discipline!Scalar
<1> QED BY <1>6, <1>7

\* A container that opens, with stacks that are in step.
OpensContainer(ahead, tok) ==
  /\ tok = toks[pos + ahead + 1] /\ tok.t \in {"{", "["}
  /\ parseState' = Append(parseState, tok.t) /\ pos' = pos + ahead + 1
  /\ InStep(vs', Len(parseState) + 1) /\ vs' # <<>>
  /\ UNCHANGED <<result, toks, input>>

\* decodeObjectStart and decodeArrayStart: the decoder and the input agree on it.
LEMMA OpenStep ==
  ASSUME LoopInv, NEW es, NEW ahead, Ready(es, ahead), NEW tok, OpensContainer(ahead, tok)
  PROVE  /\ LoopInv'
         /\ Delimiters(OpenDocs)' = Append(Delimiters(OpenDocs), tok.t)
         /\ Len(toks) - pos' = Len(toks) - pos - ahead - 1
         /\ ~(pos > 0 /\ OpenDocs = <<>>) /\ ~(pos > 0 /\ OpenDocs = <<>>)'
<1> DEFINE i == pos + ahead
<1>1. /\ tok = toks[i + 1] /\ tok.t \in {"{", "["}
      /\ parseState' = Append(parseState, tok.t) /\ pos' = i + 1
      /\ InStep(vs', Len(parseState) + 1) /\ vs' # <<>>
      /\ UNCHANGED <<result, toks, input>>
  BY DEF OpensContainer
<1>2. Open(toks, i) = OpenDocs /\ IsText(toks) /\ IsSequence(OpenDocs)
  BY Synced DEF Ready
<1>3. i \in 0..(Len(toks) - 1)
  BY PlacesAhead
<1>4. pos' \in 0..Len(toks) /\ pos' > 0 /\ Len(toks) - pos' = Len(toks) - pos - ahead - 1
  <2>1. Len(toks) \in Nat /\ pos \in Nat /\ ahead \in Nat /\ pos + ahead \in 0..(Len(toks) - 1)
    BY Places, PlacesAhead
  <2>2. 1 \in 1..(Len(toks) - pos - ahead)
    BY <2>1
  <2>3. /\ pos + ahead + 1 \in 0..Len(toks) /\ pos + ahead + 1 > 0
        /\ Len(toks) - (pos + ahead + 1) = Len(toks) - pos - ahead - 1
    BY <2>1, <2>2, Forward
  <2> QED BY <1>1, <2>3, Zenon
<1> HIDE DEF i
<1>5. tok.t = DelimOf(tok.d) /\ Open(toks, i + 1) = Append(Open(toks, i), tok.d)
  BY <1>1, <1>2, <1>3, TokenFacts
<1>6. OpenDocs' = Append(OpenDocs, tok.d)
  BY <1>1, <1>2, <1>5 DEF OpenDocs
<1>7. Delimiters(Append(OpenDocs, tok.d)) = Append(Delimiters(OpenDocs), tok.t)
  BY <1>2, <1>5, DelimitersAppended
<1>8. Delimiters(OpenDocs)' = Append(Delimiters(OpenDocs), tok.t) /\ OpenDocs' # <<>>
  BY <1>2, <1>6, <1>7, Appended
<1>9. parseState' = Delimiters(OpenDocs)'
  BY <1>1, <1>8 DEF LoopInv
<1>10. Len(parseState') = Len(parseState) + 1 /\ parseState' # <<>>
  BY <1>1, Synced, Appended
<1>11. LoopInv'
  BY <1>1, <1>4, <1>8, <1>9, <1>10 DEF LoopInv
<1>12. ~(pos > 0 /\ OpenDocs = <<>>)
  BY DEF LoopInv, Ready, Looping
<1> QED BY <1>4, <1>8, <1>11, <1>12

\* The value ahead is decoded into the tops of es.
Decodes(m, es, ahead, tok, raw) ==
  /\ tok = toks[pos + ahead + 1] /\ StartsValue(tok) /\ (raw => State = "{")
  /\ Value(m, es, tok, raw)
  /\ pos' = IF result' = "decoding" THEN pos + ahead + (IF raw THEN tok.n ELSE 1) ELSE pos
  /\ UNCHANGED <<toks, input>>

\* A scalar that is decoded, or whose value does not fit the target.
LEMMA DecodesScalar ==
  ASSUME LoopInv, NEW es, NEW ahead, Ready(es, ahead), NEW m, NEW tok, NEW raw,
         Decodes(m, es, ahead, tok, raw), ScalarValue(m, es, tok, raw)
  PROVE  LoopInv' /\ Discipline!Next
<1>1. /\ tok = toks[pos + ahead + 1] /\ StartsValue(tok) /\ (raw => State = "{")
      /\ pos' = IF result' = "decoding" THEN pos + ahead + (IF raw THEN tok.n ELSE 1) ELSE pos
      /\ UNCHANGED <<toks, input>>
  BY DEF Decodes
<1>2. Looping /\ result = "decoding" /\ Open(toks, pos + ahead) = OpenDocs
  BY DEF Ready, Looping
<1>3. /\ raw \/ tok.t = "scalar"
      /\ UNCHANGED parseState
      /\ \/ vs' = PopAll(es) /\ UNCHANGED result
         \/ result' = "error" /\ UNCHANGED vs
  BY DEF ScalarValue
<1>4. CASE result' = "error" /\ UNCHANGED vs
  BY <1>1, <1>2, <1>3, <1>4, FailStep DEF Discipline!Next
<1>5. CASE vs' = PopAll(es) /\ UNCHANGED result
  <2> DEFINE n == IF raw THEN tok.n ELSE 1
             i == pos + ahead
  <2>1. i \in 0..(Len(toks) - 1) /\ IsText(toks) /\ tok = toks[i + 1]
    BY <1>1, PlacesAhead, Synced
  <2> HIDE DEF i
  <2>2. /\ tok.n \in 1..(Len(toks) - i) /\ Open(toks, i + tok.n) = Open(toks, i)
        /\ tok.t = "scalar" => Open(toks, i + 1) = Open(toks, i)
    BY <1>1, <2>1, TokenFacts
  <2>3. n \in 1..(Len(toks) - i) /\ (n > 1 => raw)
    <3>1. 1 \in 1..(Len(toks) - i) /\ ~(1 > 1)
      BY <2>1, Places
    <3> QED BY <2>2, <3>1
  <2>4. Open(toks, i + n) = OpenDocs
    BY <1>2, <1>3, <2>2 DEF i
  <2>5. pos' = i + n
    BY <1>1, <1>2, <1>5 DEF i
  <2> HIDE DEF n
  <2>6. n \in 1..(Len(toks) - pos - ahead)
    <3>1. Len(toks) \in Nat /\ pos \in Nat /\ ahead \in Nat
      BY Places, PlacesAhead
    <3>2. Len(toks) - (pos + ahead) = Len(toks) - pos - ahead
      BY <3>1
    <3> QED BY <2>3, <3>2 DEF i
  <2>7. TakesValue(es, ahead, n)
    BY <1>1, <1>3, <1>5, <2>3, <2>4, <2>5, <2>6 DEF TakesValue, i
  <2> QED BY <2>7, ScalarStep DEF Discipline!Next
<1> QED BY <1>3, <1>4, <1>5

\* No stack is lost by pushing.
LEMMA ReadyDomain ==
  ASSUME NEW es, NEW ahead, Ready(es, ahead)
  PROVE  DOMAIN Heights(es) = DOMAIN Heights(vs)
BY DEF Ready, Discipline!ReadyForValue, Discipline!PushAll

\* An object opens, whatever fragments and embedded structs are found in it.
LEMMA DecodesObject ==
  ASSUME LoopInv, NEW es, NEW ahead, Ready(es, ahead), NEW m, NEW tok, NEW raw,
         Decodes(m, es, ahead, tok, raw), ~raw, ObjectStart(m, es, tok)
  PROVE  LoopInv' /\ Discipline!Next
<1> DEFINE depth == Len(parseState) + 1
<1>1. /\ tok = toks[pos + ahead + 1]
      /\ pos' = IF result' = "decoding" THEN pos + ahead + 1 ELSE pos
      /\ UNCHANGED <<toks, input>>
  BY DEF Decodes
<1>2. /\ result = "decoding" /\ es # <<>> /\ InStep(es, depth)
      /\ Heights(es) = Discipline!ReadyForValue /\ ahead = Discipline!KeyTokens
  BY DEF Ready, Looping
<1>3. /\ tok.t = "{" /\ parseState' = Append(parseState, "{") /\ UNCHANGED result
      /\ \E n \in Len(es)..MaxStacks : \E parts :
           vs' = [i \in 1..n |-> IF i <= Len(es) THEN es[i] ELSE NewStack(parts[i])]
  BY DEF ObjectStart
<1>4. PICK n \in Len(es)..MaxStacks : \E parts :
        vs' = [i \in 1..n |-> IF i <= Len(es) THEN es[i] ELSE NewStack(parts[i])]
  BY <1>3
<1>5. PICK parts : vs' = [i \in 1..n |-> IF i <= Len(es) THEN es[i] ELSE NewStack(parts[i])]
  BY <1>4
<1>6. depth \in Nat
  BY Places
<1>7. /\ InStep(vs', depth) /\ vs' # <<>>
      /\ \E new \in SUBSET ((1..MaxStacks) \ DOMAIN Heights(es)) :
           Heights(vs') = Discipline!AddStacks(Heights(es), new, depth)
  <2>1. depth = Len(parseState) + 1
    OBVIOUS
  <2> HIDE DEF depth
  <2>2. /\ vs' = [i \in 1..n |-> vs'[i]]
        /\ \A i \in 1..n : vs'[i] = IF i <= Len(es) THEN es[i] ELSE NewStack(parts[i])
    BY <1>5
  <2> QED BY <1>2, <1>6, <2>1, <2>2, Extended
<1>8. OpensContainer(ahead, tok)
  BY <1>1, <1>2, <1>3, <1>7 DEF OpensContainer
<1>9. /\ LoopInv'
      /\ Delimiters(OpenDocs)' = Append(Delimiters(OpenDocs), tok.t)
      /\ Len(toks) - pos' = Len(toks) - pos - ahead - 1
      /\ ~(pos > 0 /\ OpenDocs = <<>>) /\ ~(pos > 0 /\ OpenDocs = <<>>)'
  BY <1>8, OpenStep
<1>10. Discipline!OpenObject
  <2>1. Discipline!ValueAhead /\ DOMAIN Heights(es) = DOMAIN Heights(vs)
    BY ReadyFacts, ReadyDomain
  <2> QED BY <1>1, <1>2, <1>3, <1>7, <1>9, <2>1 DEF Discipline!OpenObject
<1> QED BY <1>9, <1>10 DEF Discipline!Next

\* An array opens, or a target slice has more than one template.
LEMMA DecodesArray ==
  ASSUME LoopInv, NEW es, NEW ahead, Ready(es, ahead), NEW m, NEW tok, NEW raw,
         Decodes(m, es, ahead, tok, raw), ~raw, ArrayStart(m, es, tok)
  PROVE  LoopInv' /\ Discipline!Next
<1>1. /\ tok = toks[pos + ahead + 1]
      /\ pos' = IF result' = "decoding" THEN pos + ahead + 1 ELSE pos
      /\ UNCHANGED <<toks, input>>
  BY DEF Decodes
<1>2. /\ Looping /\ result = "decoding" /\ es # <<>> /\ InStep(es, Len(parseState) + 1)
      /\ Heights(es) = Discipline!ReadyForValue /\ ahead = Discipline!KeyTokens
  BY DEF Ready, Looping
<1>3. /\ tok.t = "["
      /\ \/ vs' = es /\ parseState' = Append(parseState, "[") /\ UNCHANGED result
         \/ result' = "error" /\ UNCHANGED <<vs, parseState>>
  BY DEF ArrayStart
<1>4. CASE result' = "error" /\ UNCHANGED <<vs, parseState>>
  BY <1>1, <1>2, <1>4, FailStep DEF Discipline!Next
<1>5. CASE vs' = es /\ parseState' = Append(parseState, "[") /\ UNCHANGED result
  <2>1. OpensContainer(ahead, tok)
    BY <1>1, <1>2, <1>3, <1>5 DEF OpensContainer
  <2>2. /\ LoopInv'
        /\ Delimiters(OpenDocs)' = Append(Delimiters(OpenDocs), tok.t)
        /\ Len(toks) - pos' = Len(toks) - pos - ahead - 1
        /\ ~(pos > 0 /\ OpenDocs = <<>>) /\ ~(pos > 0 /\ OpenDocs = <<>>)'
    BY <2>1, OpenStep
  <2>3. Discipline!OpenArray
    <3>1. Discipline!ValueAhead
      BY ReadyFacts
    <3> QED BY <1>1, <1>2, <1>3, <1>5, <2>2, <3>1 DEF Discipline!OpenArray
  <2> QED BY <2>2, <2>3 DEF Discipline!Next
<1> QED BY <1>3, <1>4, <1>5

\* Any value, from any memory.
LEMMA ValueStep ==
  ASSUME LoopInv, NEW es, NEW ahead, Ready(es, ahead), NEW m, NEW tok, NEW raw,
         Decodes(m, es, ahead, tok, raw)
  PROVE  LoopInv' /\ Discipline!Next
<1>1. \/ ScalarValue(m, es, tok, raw)
      \/ ~raw /\ ObjectStart(m, es, tok)
      \/ ~raw /\ ArrayStart(m, es, tok)
  BY DEF Decodes, Value
<1> QED BY <1>1, DecodesScalar, DecodesObject, DecodesArray


\* In a container, the stacks with the next place on top are ready for a value.
LEMMA ReadyInside ==
  ASSUME LoopInv, Looping, parseState # <<>>, NEW locs, NEW ahead, ahead = Discipline!KeyTokens,
         pos + ahead < Len(toks), Open(toks, pos + ahead) = OpenDocs
  PROVE  Ready(Push(locs), ahead)
<1>1. InStep(vs, Len(parseState)) /\ Len(parseState) \in Nat /\ vs # <<>>
  BY Places DEF LoopInv, Looping
<1>2. /\ InStep(Push(locs), Len(parseState) + 1) /\ Len(Push(locs)) = Len(vs)
      /\ Heights(Push(locs)) = Discipline!PushAll(Heights(vs))
  BY <1>1, Pushed
<1>3. Push(locs) # <<>>
  BY <1>1, <1>2, SequenceFacts DEF InStep
<1>4. Heights(Push(locs)) = Discipline!ReadyForValue
  BY <1>2 DEF Discipline!ReadyForValue
<1> QED BY <1>2, <1>3, <1>4 DEF Ready

\* The value of the document itself.
LEMMA RootValueStep == LoopInv /\ RootValue => LoopInv' /\ Discipline!Next
<1> SUFFICES ASSUME LoopInv, RootValue PROVE LoopInv' /\ Discipline!Next
  OBVIOUS
<1>1. /\ Looping /\ State = "none" /\ vs # <<>>
      /\ NextTok.t \in {"scalar", "{", "["} /\ pos < Len(toks)
      /\ UNCHANGED <<toks, input>>
      /\ Value(mem, vs, NextTok, FALSE) /\ Advance(1)
  BY DEF RootValue, Peek, Looping
<1>2. parseState = <<>> /\ OpenDocs = <<>>
  BY <1>1, Synced
<1>3. pos + 0 = pos /\ pos + 0 + 1 = pos + 1
  BY Places
<1>4. Ready(vs, 0)
  <2>1. InStep(vs, 1) /\ Len(parseState) + 1 = 1
    BY <1>2, Places DEF LoopInv
  <2>2. Heights(vs) = Discipline!ReadyForValue
    BY <1>2 DEF Discipline!ReadyForValue
  <2>3. 0 = Discipline!KeyTokens
    BY <1>1, Synced DEF LoopInv, Discipline!KeyTokens, Discipline!State
  <2> QED BY <1>1, <1>3, <2>1, <2>2, <2>3 DEF Ready, OpenDocs
<1>5. Decodes(mem, vs, 0, NextTok, FALSE)
  BY <1>1, <1>3 DEF Decodes, NextTok, StartsValue, Advance
<1> QED BY <1>4, <1>5, ValueStep

\* A member of an object: its key is pushed on every stack, found or not, and its
\* value is decoded; or no stack has a field for it.
LEMMA ObjectKeyStep == LoopInv /\ ObjectKey => LoopInv' /\ Discipline!Next
<1> SUFFICES ASSUME LoopInv, ObjectKey PROVE LoopInv' /\ Discipline!Next
  OBVIOUS
<1> DEFINE tok == toks[pos + 2]
<1>1. PICK found :
        /\ Looping /\ State = "{" /\ toks[pos + 1].t = "key" /\ pos < Len(toks)
        /\ UNCHANGED <<toks, input>>
        /\ MemberValue(found, tok)
  BY DEF ObjectKey, Peek, NextTok
<1>2. \/ Stop("error") /\ UNCHANGED pos
      \/ /\ Value(mem, PushSelected(found), tok, TakesRaw(found))
         /\ Advance(1 + (IF TakesRaw(found) THEN tok.n ELSE 1))
  BY <1>1 DEF MemberValue
<1>3. CASE Stop("error") /\ UNCHANGED pos
  BY <1>1, <1>3, FailStep DEF Stop, Discipline!Next
<1>4. CASE /\ Value(mem, PushSelected(found), tok, TakesRaw(found))
           /\ Advance(1 + (IF TakesRaw(found) THEN tok.n ELSE 1))
  <2>1. /\ IsText(toks) /\ pos \in 0..(Len(toks) - 1) /\ Len(toks) \in Nat /\ pos \in Nat
    BY <1>1, Synced, Places, OneFurther, Zenon
  <2>2. /\ Open(toks, pos) # <<>> /\ Open(toks, pos + 1) = Open(toks, pos)
        /\ pos + 2 <= Len(toks) /\ StartsValue(tok)
    BY <1>1, <2>1, TokenFacts
  <2>3. pos + 1 < Len(toks) /\ pos + 1 + 1 = pos + 2
    BY <2>1, <2>2
  <2>4. 1 = Discipline!KeyTokens /\ parseState # <<>>
    BY <1>1, Synced DEF LoopInv, Discipline!KeyTokens, Discipline!State, State
  <2>5. PICK locs : PushSelected(found) = Push(locs)
    BY DEF PushSelected
  <2>6. Ready(Push(locs), 1)
    BY <1>1, <2>2, <2>3, <2>4, ReadyInside DEF OpenDocs
  <2>7. Decodes(mem, Push(locs), 1, tok, TakesRaw(found))
    <3>1. pos' = IF result' = "decoding"
                 THEN pos + 1 + (IF TakesRaw(found) THEN tok.n ELSE 1) ELSE pos
      <4>1. PICK n \in Nat : n = IF TakesRaw(found) THEN tok.n ELSE 1
        <5>1. pos + 1 \in 0..(Len(toks) - 1) /\ tok = toks[pos + 1 + 1]
          BY <2>1, <2>3
        <5> HIDE DEF tok
        <5>2. tok.n \in 1..(Len(toks) - (pos + 1))
          BY <2>1, <2>2, <5>1, TokenFacts
        <5> QED BY <2>1, <5>2
      <4>2. Advance(1 + n)
        BY <1>4, <4>1
      <4>3. pos + (1 + n) = pos + 1 + n
        BY <2>1
      <4> QED BY <4>1, <4>2, <4>3 DEF Advance
    <3> QED BY <1>1, <1>4, <2>2, <2>3, <2>5, <3>1 DEF Decodes
  <2> HIDE DEF tok
  <2> QED BY <2>6, <2>7, ValueStep
<1> QED BY <1>2, <1>3, <1>4

\* An element of an array: its place is pushed on every stack, and it is decoded;
\* or no stack has a slice, or one has a slice with no template or a map as its
\* template.
LEMMA ArrayValueStep == LoopInv /\ ArrayValue => LoopInv' /\ Discipline!Next
<1> SUFFICES ASSUME LoopInv, ArrayValue PROVE LoopInv' /\ Discipline!Next
  OBVIOUS
<1>1. PICK end :
        /\ Looping /\ State = "[" /\ NextTok.t \in {"scalar", "{", "["} /\ pos < Len(toks)
        /\ UNCHANGED <<toks, input>>
        /\ ElementValue(end) /\ Advance(1)
  BY DEF ArrayValue, Peek
<1>2. \/ Stop("panic") \/ Stop("error")
      \/ Value(end.m, Push(end.places), NextTok, FALSE)
  BY <1>1 DEF ElementValue
<1>3. CASE Stop("panic") \/ Stop("error")
  <2>1. result' \in {"panic", "error"} /\ UNCHANGED <<vs, parseState, pos>>
    BY <1>1, <1>3 DEF Stop, Advance
  <2> QED BY <1>1, <2>1, FailStep DEF Discipline!Next
<1>4. CASE Value(end.m, Push(end.places), NextTok, FALSE)
  <2>1. pos + 0 = pos /\ pos + 0 + 1 = pos + 1
    BY Places
  <2>2. 0 = Discipline!KeyTokens /\ parseState # <<>>
    BY <1>1, Synced DEF LoopInv, Discipline!KeyTokens, Discipline!State, State
  <2>3. Ready(Push(end.places), 0)
    BY <1>1, <2>1, <2>2, ReadyInside DEF OpenDocs
  <2>4. Decodes(end.m, Push(end.places), 0, NextTok, FALSE)
    BY <1>1, <1>4, <2>1 DEF Decodes, NextTok, StartsValue, Advance
  <2> QED BY <2>3, <2>4, ValueStep
<1> QED BY <1>2, <1>3, <1>4

\* The end of a container, of the kind the decoder believes is open.
LEMMA CloseStep ==
  ASSUME LoopInv, Looping, NEW d \in {"{", "["}, State = d, pos < Len(toks),
         toks[pos + 1].t = IF d = "{" THEN "}" ELSE "]",
         pos' = pos + 1, vs' = PopAll(vs), parseState' = Front(parseState),
         UNCHANGED <<result, toks, input>>
  PROVE  LoopInv' /\ Discipline!Close(d)
<1> DEFINE depth == Len(parseState)
<1>1. /\ IsText(toks) /\ Len(toks) \in Nat /\ pos \in Nat /\ pos \in 0..(Len(toks) - 1)
      /\ IsSequence(OpenDocs) /\ IsSequence(parseState)
      /\ parseState = Delimiters(OpenDocs)
  <2>1. Len(toks) \in Nat /\ pos \in Nat
    BY Places
  <2> QED BY <2>1, Synced, OneFurther, Zenon DEF LoopInv
<1>2. parseState # <<>> /\ depth \in Nat \ {0} /\ OpenDocs # <<>>
  BY Synced, Places DEF State
<1>3. Open(toks, pos + 1) = Front(OpenDocs)
  BY <1>1, TokenFacts DEF OpenDocs
<1>4. OpenDocs' = Front(OpenDocs)
  BY <1>3 DEF OpenDocs
<1>5. parseState' = Delimiters(OpenDocs')
  BY <1>1, <1>2, <1>4, DelimitersFronted
<1>6. IsSequence(parseState') /\ Len(parseState') = depth - 1
  BY <1>1, <1>2, Fronted
<1>7. /\ pos' \in 0..Len(toks) /\ pos' > 0
      /\ Len(toks) - pos' = Len(toks) - pos - 1 /\ Len(toks) - pos > 0
  BY <1>1, OneFurther, Zenon
<1>8. OpenDocs' = <<>> <=> depth = 1
  <2>1. IsSequence(OpenDocs') /\ Len(OpenDocs') = depth - 1
    BY <1>1, <1>2, <1>4, Synced, Fronted
  <2> HIDE DEF depth
  <2> QED BY <1>2, <2>1, LengthOne
<1>9. vs # <<>> /\ InStep(vs, depth)
  BY <1>2 DEF LoopInv, Looping
<1>10. parseState' = <<>> <=> depth = 1
  <2> HIDE DEF depth
  <2> QED BY <1>2, <1>6, LengthOne
<1> HIDE DEF depth
<1>11. /\ Heights(vs') = Discipline!PopAll(Heights(vs))
       /\ InStep(vs', IF parseState' = <<>> THEN 1 ELSE Len(parseState'))
       /\ vs' = <<>> <=> depth = 1
  <2>1. Heights(PopAll(vs)) = Discipline!PopAll(Heights(vs))
    BY <1>2, <1>9, Popped
  <2>2. CASE depth = 1
    <3>1. PopAll(vs) = <<>>
      BY <1>2, <1>9, <2>2, Popped
    <3> QED BY <1>10, <2>1, <2>2, <3>1, EmptyInStep
  <2>3. CASE depth # 1
    <3>1. InStep(PopAll(vs), depth - 1) /\ (PopAll(vs) = <<>> <=> vs = <<>>)
      BY <1>2, <1>9, <2>3, Popped
    <3> QED BY <1>6, <1>9, <1>10, <2>1, <2>3, <3>1
  <2> QED BY <2>2, <2>3
<1>12. LoopInv'
  BY <1>5, <1>7, <1>8, <1>11 DEF LoopInv
<1>13. Discipline!Close(d)
  <2>1. Discipline!Looping /\ State = Discipline!State /\ State = Discipline!Innermost(parseState)
    BY Synced DEF Looping, Discipline!Looping
  <2>2. Len(toks) - pos > 0
    BY <1>7
  <2>3. parseState' = Discipline!Outer(parseState)
    BY DEF Front, Discipline!Outer
  <2>4. (pos > 0 /\ OpenDocs = <<>>)' = (Len(parseState) = 1)
    BY <1>7, <1>8 DEF depth
  <2> QED BY <1>1, <1>5, <1>7, <1>11, <2>1, <2>2, <2>3, <2>4 DEF Discipline!Close
<1> QED BY <1>12, <1>13

\* handleObjectEnd and handleArrayEnd.
LEMMA EndStep == LoopInv /\ (ObjectEnd \/ ArrayEnd) => LoopInv' /\ Discipline!Next
<1> SUFFICES ASSUME LoopInv, ObjectEnd \/ ArrayEnd PROVE LoopInv' /\ Discipline!Next
  OBVIOUS
<1>1. CASE ObjectEnd
  <2>1. /\ Looping /\ State = "{" /\ pos < Len(toks) /\ toks[pos + 1].t = "}"
        /\ pos' = pos + 1 /\ vs' = PopAll(vs) /\ parseState' = Front(parseState)
        /\ UNCHANGED <<result, toks, input>>
    BY <1>1 DEF ObjectEnd, Peek, NextTok
  <2>2. LoopInv' /\ Discipline!Close("{")
    BY <2>1, CloseStep
  <2> QED BY <2>2 DEF Discipline!Next, Discipline!CloseObject
<1>2. CASE ArrayEnd
  <2>1. /\ Looping /\ State = "[" /\ pos < Len(toks) /\ toks[pos + 1].t = "]"
        /\ pos' = pos + 1 /\ vs' = PopAll(vs) /\ parseState' = Front(parseState)
        /\ UNCHANGED <<result, toks, input>>
    BY <1>2 DEF ArrayEnd, Peek, NextTok
  <2>2. LoopInv' /\ Discipline!Close("[")
    BY <2>1, CloseStep
  <2> QED BY <2>2 DEF Discipline!Next, Discipline!CloseArray
<1> QED BY <1>1, <1>2

\* UnmarshalGraphQL is content: the input is at its end.
LEMMA FinishStep == LoopInv /\ Finish => LoopInv' /\ Discipline!Next
<1> SUFFICES ASSUME LoopInv, Finish PROVE LoopInv' /\ Discipline!Next
  OBVIOUS
<1>1. /\ result = "decoding" /\ vs = <<>> /\ pos = Len(toks) /\ result' = "ok"
      /\ UNCHANGED <<vs, parseState, toks, pos, input>>
  BY DEF Finish
<1>2. UNCHANGED <<OpenDocs, Heights(vs)>>
  BY <1>1 DEF OpenDocs
<1>3. LoopInv'
  BY <1>1, <1>2 DEF LoopInv
<1>4. DOMAIN Heights(vs) = {} /\ Len(toks) - pos = 0
  <2>1. Len(toks) \in Nat
    BY Places
  <2>2. Len(toks) - Len(toks) = 0
    BY <2>1
  <2> QED BY <1>1, <2>2, Synced, Zenon
<1>5. Discipline!CheckRest
  BY <1>1, <1>2, <1>4 DEF Discipline!CheckRest
<1> QED BY <1>3, <1>5 DEF Discipline!Next

\* The input is cut short or malformed.
LEMMA CutStep == LoopInv /\ Cut => LoopInv' /\ Discipline!Next
<1> SUFFICES ASSUME LoopInv, Cut PROVE LoopInv' /\ Discipline!Next
  OBVIOUS
<1>1. Looping /\ result' = "cut" /\ UNCHANGED <<vs, parseState, toks, pos, input>>
  BY DEF Cut, Stop
<1> QED BY <1>1, FailStep DEF Discipline!Next

\* One iteration of decodeLoop.
LEMMA LoopStep == LoopInv /\ Next => LoopInv' /\ Discipline!Next
BY RootValueStep, ObjectKeyStep, ArrayValueStep, EndStep, CutStep, FinishStep DEF Next


\* Decode: one stack, with the target, in front of the whole input.
LEMMA InitInv == Init => LoopInv /\ Discipline!Init
<1> SUFFICES ASSUME Init PROVE LoopInv /\ Discipline!Init
  OBVIOUS
<1> DEFINE stack == <<Object(1)>>
           e == [stack |-> stack, fragType |-> <<>>, born |-> 1]
<1>1. /\ input \in Inputs /\ toks = input.toks /\ pos = 0 /\ vs = <<e>>
      /\ parseState = <<>> /\ result = "decoding"
  BY DEF Init
<1>2. OpenDocs = <<>>
  BY <1>1 DEF OpenDocs, Open
<1>3. Delimiters(<<>>) = <<>>
  <2>1. <<>> \in Seq({})
    BY EmptySeq
  <2>2. IsSequence(<<>>) /\ Len(<<>>) = 0
    BY <2>1, AnySequence, SequenceFacts
  <2>3. IsSequence(Delimiters(<<>>)) /\ Len(Delimiters(<<>>)) = 0
    BY <2>2, DelimitersOf
  <2> QED BY <2>3, SequenceFacts
<1>4. Len(toks) \in Nat \ {0} /\ Len(toks) <= MaxTokens
  BY <1>1, InputsOK, TextFacts
<1>5. pos \in 0..Len(toks) /\ ~(pos > 0) /\ Len(toks) - pos \in 0..MaxTokens
  <2>1. 0 \in 0..Len(toks) /\ ~(0 > 0) /\ Len(toks) - 0 \in 0..MaxTokens
    BY <1>4, BoundsOK
  <2> QED BY <1>1, <2>1, Zenon
<1>6. IsSequence(stack) /\ stack # <<>> /\ Len(stack) = 1
  <2>1. stack \in Seq({Object(1)}) /\ stack # <<>> /\ Len(stack) = 1
    OBVIOUS
  <2> QED BY <2>1, AnySequence
<1> HIDE DEF stack
<1>7. IsEntry(e) /\ Len(e.stack) = 1 /\ e.born = 1
  BY <1>6 DEF IsEntry
<1> HIDE DEF e
<1>8. /\ IsSequence(vs) /\ Len(vs) = 1 /\ DOMAIN vs = {1} /\ vs[1] = e /\ vs # <<>>
  <2>1. <<e>> \in Seq({e}) /\ Len(<<e>>) = 1 /\ DOMAIN <<e>> = {1} /\ <<e>>[1] = e /\ <<e>> # <<>>
    OBVIOUS
  <2>2. IsSequence(<<e>>)
    BY <2>1, AnySequence
  <2> QED BY <1>1, <2>1, <2>2
<1>9. InStep(vs, 1)
  <2>1. 1 <= MaxStacks /\ 1 + 1 = 1 + 1
    BY BoundsOK
  <2> QED BY <1>7, <1>8, <2>1 DEF InStep
<1>10. LoopInv
  BY <1>1, <1>2, <1>3, <1>5, <1>8, <1>9 DEF LoopInv
<1>11. Heights(vs) = [s \in {1} |-> [height |-> 1, born |-> 1]]
  BY <1>7, <1>8 DEF Heights
<1>12. Discipline!Init
  BY <1>1, <1>2, <1>3, <1>5, <1>11 DEF Discipline!Init
<1> QED BY <1>10, <1>12

\* Nothing happens.
LEMMA StutterStep == LoopInv /\ UNCHANGED vars => LoopInv' /\ UNCHANGED Discipline!vars
<1> SUFFICES ASSUME LoopInv, UNCHANGED vars PROVE LoopInv' /\ UNCHANGED Discipline!vars
  OBVIOUS
<1>1. UNCHANGED <<vs, parseState, result, toks, pos, input>>
  BY DEF vars, decoderVars
<1>2. UNCHANGED <<OpenDocs, Heights(vs)>>
  BY <1>1 DEF OpenDocs
<1>3. LoopInv'
  BY <1>1, <1>2 DEF LoopInv
<1>4. UNCHANGED Discipline!vars
  BY <1>1, <1>2 DEF Discipline!vars
<1> QED BY <1>3, <1>4

\* The invariant is inductive, and a step under it is one of DecodeStack.
LEMMA NextInv == LoopInv /\ [Next]_vars => LoopInv' /\ [Discipline!Next]_(Discipline!vars)
BY LoopStep, StutterStep

\* Between two iterations of decodeLoop the heights of all stacks, d.parseState and
\* the containers open in the input always agree.
THEOREM LoopInvariant == Spec => []LoopInv
<1>1. Init => LoopInv
  BY InitInv
<1>2. LoopInv /\ [Next]_vars => LoopInv'
  BY NextInv
<1> QED
  BY <1>1, <1>2, PTL DEF Spec

\* The decoder implements DecodeStack: whatever the types, the target and the
\* document, decodeLoop (graphql.go) pushes and pops its stacks as DecodeStack does,
\* and a scalar, a field or a template that goes wrong never upsets them.
THEOREM ImplementsDecodeStack == Spec => FollowsDiscipline
<1>1. Init => Discipline!Init
  BY InitInv
<1>2. LoopInv /\ [Next]_vars => [Discipline!Next]_(Discipline!vars)
  BY NextInv
<1> QED
  BY <1>1, <1>2, LoopInvariant, PTL DEF Spec, FollowsDiscipline, Discipline!Safety


-----------------------------------------------------------------------------
(* What module DecodeStackProofs shows of DecodeStack holds for the decoder. *)

\* DecodeStack as module Decoder instantiates it, with its lemmas.
Stack == INSTANCE DecodeStackProofs WITH
  Stacks <- 1..MaxStacks,
  Root <- 1,
  MaxTokens <- MaxTokens,
  entries <- Heights(vs),
  outcome <- IF result \in {"decoding", "ok"} THEN result ELSE "error",
  nest <- Delimiters(OpenDocs),
  whole <- pos > 0 /\ OpenDocs = <<>>,
  left <- Len(toks) - pos

\* What DecodeStack assumes of its constants.
LEMMA StackConstants == Stack!ConstantsOK
BY BoundsOK DEF Stack!ConstantsOK

\* Its invariant holds at the start...
LEMMA StackInit == Discipline!Init => Stack!Inv
<1>1. Stack!Init => Stack!Inv
  BY StackConstants, Stack!InitInv
<1> QED BY <1>1 DEF Stack!Init, Discipline!Init

\* (the two instances have the same steps)
LEMMA StackStep == [Discipline!Next]_(Discipline!vars) => [Stack!Next]_(Stack!vars)
<1>1. Discipline!vars = Stack!vars /\ Discipline!vars' = Stack!vars'
  BY DEF Stack!vars, Discipline!vars
<1>2. Discipline!Next => Stack!Next
  BY DEF Stack!Next, Discipline!Next, Stack!Scalar, Discipline!Scalar, Stack!OpenObject,
         Discipline!OpenObject, Stack!OpenArray, Discipline!OpenArray, Stack!CloseObject,
         Discipline!CloseObject, Stack!CloseArray, Discipline!CloseArray,
         Stack!UnexpectedEnd, Discipline!UnexpectedEnd, Stack!Fail, Discipline!Fail,
         Stack!CheckRest, Discipline!CheckRest, Stack!Close, Discipline!Close,
         Stack!ValueAhead, Discipline!ValueAhead, Stack!Looping, Discipline!Looping,
         Stack!KeyTokens, Discipline!KeyTokens, Stack!Innermost, Discipline!Innermost,
         Stack!State, Discipline!State, Stack!Outer, Discipline!Outer, Stack!PopAll,
         Discipline!PopAll, Stack!PushAll, Discipline!PushAll, Stack!AddStacks,
         Discipline!AddStacks, Stack!ReadyForValue, Discipline!ReadyForValue
<1> QED BY <1>1, <1>2

\* ...and every step of the decoder preserves it.
LEMMA StackNext == Stack!Inv /\ [Discipline!Next]_(Discipline!vars) => Stack!Inv'
<1>1. Stack!Inv /\ [Stack!Next]_(Stack!vars) => Stack!Inv'
  BY StackConstants, Stack!NextInv
<1> QED BY <1>1, StackStep

\* The inductive invariant of DecodeStack is one of the decoder.
THEOREM StackInvariant == Spec => []Stack!Inv
<1>1. Discipline!Init => Stack!Inv
  BY StackInit
<1>2. Stack!Inv /\ [Discipline!Next]_(Discipline!vars) => Stack!Inv'
  BY StackNext
<1> QED
  BY <1>1, <1>2, ImplementsDecodeStack, PTL DEF FollowsDiscipline, Discipline!Safety

-----------------------------------------------------------------------------
(* The results. *)

\* Every live stack has exactly one place per container opened since its birth.
StacksInStep ==
  \A i \in DOMAIN vs :
    Len(vs[i].stack) + vs[i].born = (IF parseState = <<>> THEN 1 ELSE Len(parseState)) + 1

\* "The loop invariant is that the top of each d.vs stack is where we try to
\* unmarshal the next JSON value we see" (graphql.go:109): the tops of all stacks
\* stand for the same place in the document, whichever targets have no such field.
THEOREM DecoderStacksInStep == Spec => []StacksInStep
<1>1. LoopInv => StacksInStep
  BY DEF LoopInv, InStep, StacksInStep
<1> QED
  BY <1>1, LoopInvariant, PTL

\* The decoder's record of the nesting is the input's, and its stacks last for it.
KnowsItsPlace ==
  /\ parseState = Delimiters(OpenDocs)
  /\ vs = <<>> <=> pos = Len(toks)

\* d.parseState always holds the containers that are open in the document, and the
\* condition `for d.vs.len() > 0` of decodeLoop fails exactly when the last token of
\* the value has been read: the loop neither stops early nor reads on.
THEOREM DecoderKnowsItsPlace == Spec => []KnowsItsPlace
<1>1. LoopInv => KnowsItsPlace
  <2> SUFFICES ASSUME LoopInv PROVE KnowsItsPlace
    OBVIOUS
  <2>2. /\ parseState = Delimiters(OpenDocs) /\ pos \in 0..Len(toks)
        /\ vs = <<>> <=> pos > 0 /\ OpenDocs = <<>>
    BY DEF LoopInv
  <2>3. IsText(toks) /\ Len(toks) \in Nat \ {0}
    BY Synced
  <2>4. pos > 0 => (OpenDocs = <<>> <=> pos = Len(toks))
    BY <2>2, <2>3, TextFacts DEF OpenDocs
  <2>5. pos = Len(toks) => pos > 0
    BY <2>3
  <2> QED BY <2>2, <2>4, <2>5 DEF KnowsItsPlace
<1> QED
  BY <1>1, LoopInvariant, PTL

\* A nil error, and what has been read.
AcceptsOnlyAll == result = "ok" => vs = <<>> /\ parseState = <<>> /\ pos = Len(toks)

\* UnmarshalGraphQL returns a nil error only for a document read to its end, with
\* every container closed and every stack popped.
THEOREM DecoderAcceptsOnlyAll == Spec => []AcceptsOnlyAll
<1>1. KnowsItsPlace /\ LoopInv /\ Stack!Inv => AcceptsOnlyAll
  <2> SUFFICES ASSUME LoopInv, KnowsItsPlace, Stack!Inv, result = "ok"
               PROVE  vs = <<>> /\ parseState = <<>> /\ pos = Len(toks)
    BY DEF AcceptsOnlyAll
  <2>2. pos > 0 /\ OpenDocs = <<>>
    BY DEF Stack!Inv, Stack!OkMeansWholeInput
  <2>3. vs = <<>> /\ parseState = <<>>
    BY <2>2, Synced DEF LoopInv
  <2> QED BY <2>3 DEF KnowsItsPlace
<1> QED
  BY <1>1, DecoderKnowsItsPlace, LoopInvariant, StackInvariant, PTL

\* A stack, once added, is dropped by the step that closes the object it was added in.
FragmentsLiveWithTheirObject == Stack!FragmentLifetime

\* addStack and popAll: the stack of an inline fragment or embedded struct lives
\* exactly as long as the object of the document it was discovered in.
THEOREM DecoderFragments == Spec => FragmentsLiveWithTheirObject
<1>1. Stack!Inv /\ [Discipline!Next]_(Discipline!vars)
        => [Stack!StepKeepsLifetimes]_(Stack!vars)
  <2>1. Stack!Inv /\ [Stack!Next]_(Stack!vars)
          => Stack!StepKeepsLifetimes \/ UNCHANGED Stack!vars
    BY StackConstants, Stack!LifetimeStep
  <2> QED BY <2>1, StackStep
<1> QED
  BY <1>1, ImplementsDecodeStack, StackInvariant, PTL
     DEF FollowsDiscipline, Discipline!Safety, FragmentsLiveWithTheirObject,
         Stack!FragmentLifetime

\* The decoder, seen as a reader of one value (module OneValue).
ReadsOneValue == Stack!ReadsOneValue

\* UnmarshalGraphQL reads one value, container by container, and accepts or rejects
\* once: the decoder, with all it does to the target, implements OneValue.
THEOREM DecoderReadsOneValue == Spec => ReadsOneValue
<1>1. Discipline!Init => Stack!Reader!Init
  BY DEF Discipline!Init, Stack!Reader!Init
<1>2. Stack!Inv /\ Stack!Inv' /\ [Discipline!Next]_(Discipline!vars)
        => [Stack!Reader!Next]_(Stack!Reader!vars)
  BY StackConstants, StackStep, Stack!ReaderStep
<1> QED
  BY <1>1, <1>2, ImplementsDecodeStack, StackInvariant, PTL
     DEF FollowsDiscipline, Discipline!Safety, ReadsOneValue, Stack!ReadsOneValue,
         Stack!Reader!Spec

=================================================================================
