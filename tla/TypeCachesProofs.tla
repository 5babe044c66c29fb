--------------------------- MODULE TypeCachesProofs ---------------------------
(***************************************************************************)
(* Proofs about the type caches, for any number of goroutines, calls,      *)
(* types and fields.  A goroutine shares nothing while it builds: its      *)
(* table is the one of its present call, which no cache names before       *)
(* LoadOrStore.  So the inductive invariant has two parts: what each       *)
(* goroutine has built so far (GoroutineOK), and that whatever is          *)
(* published is complete and nobody's to write to any more (PublishedOK).  *)
(***************************************************************************)
EXTENDS TypeCaches, TLAPS

\* The goroutine may still write to the table of its call.
MayWrite(g) == pc[g] = "load" \/ building[g]

\* The tables of later calls, and of one that has not begun to build.
Unwritten(g) ==
  /\ \A n \in 1..MaxCalls : n > calls[g] => tables[<<g, n>>] = <<>>
  /\ pc[g] = "load" => tables[Own(g)] = <<>>

\* The table it builds has the fields before the one it is at.
Partial(g) ==
  building[g] => /\ at[g] \in 1..(Len(Fields[of[g]]) + 1)
                 /\ IsTable(tables[Own(g)], of[g], at[g] - 1)

\* What it asks for a table is about the field it is at.
AsksForField(g) ==
  building[g] /\ pc[g] # "scan" =>
    /\ pc[g] \in {"loadFact", "storeFact"}
    /\ at[g] <= Len(Fields[of[g]]) /\ FieldAt(g).exported
    /\ asked[g] = FieldAt(g).question

GoroutineOK(g) ==
  /\ Unwritten(g) /\ Partial(g) /\ AsksForField(g)
  /\ MayWrite(g) => calls[g] > 0
  /\ pc[g] = "scan" => building[g]

PublishedOK(s) ==
  LET id == fieldLookupCache[s]
  IN id # NoTable => /\ id[2] <= calls[id[1]]
                     /\ MayWrite(id[1]) => id # Own(id[1])
                     /\ IsTable(tables[id], s, Len(Fields[s]))

\* A caller has the published table; an answer is the fact.
GivenOK ==
  /\ \A r \in returned : fieldLookupCache[r[1]] = r[2]
  /\ \A q \in Questions : facts[q] \in {Unknown, Fact[q]}
  /\ \A a \in told : a[2] = Fact[a[1]]

Inv ==
  /\ CachesTypeOK
  /\ \A g \in Goroutines : GoroutineOK(g)
  /\ \A s \in StructTypes : PublishedOK(s)
  /\ GivenOK

-----------------------------------------------------------------------------
(* Tables and answers. *)

LEMMA NoTableIsNone == NoTable \notin Tables
BY DEF NoTable, Tables

LEMMA AnswerTypes == \A q \in Questions : Fact[q] \in Answers /\ Fact[q] # Unknown
BY FactOK DEF Answers

LEMMA ElementType ==
  ASSUME NEW S, NEW q \in Seq(S), NEW i \in 1..Len(q)
  PROVE  q[i] \in S
OBVIOUS

\* What FieldsOK says of one field.
LEMMA FieldTypes ==
  ASSUME NEW s \in StructTypes, NEW i \in 1..Len(Fields[s])
  PROVE  /\ Fields[s][i].question \in Questions
         /\ Fields[s][i].exported \in BOOLEAN /\ Fields[s][i].fragment \in BOOLEAN
<1>1. Fields[s] \in Seq([question : Questions, exported : BOOLEAN, fragment : BOOLEAN])
  BY FieldsOK
<1>2. Fields[s][i] \in [question : Questions, exported : BOOLEAN, fragment : BOOLEAN]
  BY <1>1, ElementType
<1> QED BY <1>2

LEMMA LengthType == \A s \in StructTypes : Len(Fields[s]) \in Nat
<1>1. \A s \in StructTypes :
        Fields[s] \in Seq([question : Questions, exported : BOOLEAN, fragment : BOOLEAN])
  BY FieldsOK
<1> QED BY <1>1

LEMMA EmptyTable == \A s \in StructTypes : IsTable(<<>>, s, 0)
BY DEF IsTable

\* A field without a name adds nothing.
LEMMA TableSkips ==
  ASSUME NEW s \in StructTypes, NEW entries \in Seq(Entry), NEW i \in Nat \ {0},
         IsTable(entries, s, i - 1), ~Named(s, i)
  PROVE  IsTable(entries, s, i)
<1>1. 1..i = (1..(i - 1)) \cup {i}
  OBVIOUS
<1>2. \A k \in DOMAIN entries : entries[k].fieldIndex \in 1..i
  BY <1>1 DEF IsTable
<1> QED BY <1>1, <1>2 DEF IsTable

\* A field with a name adds its entry at the end.
LEMMA TableAppends ==
  ASSUME NEW s \in StructTypes, NEW entries \in Seq(Entry), NEW i \in Nat \ {0},
         IsTable(entries, s, i - 1), Named(s, i),
         NEW answer \in Answers, answer = Fact[Fields[s][i].question]
  PROVE  IsTable(Append(entries, [fieldIndex |-> i, hasGraphQLType |-> answer]), s, i)
<1> DEFINE entry == [fieldIndex |-> i, hasGraphQLType |-> answer]
           longer == Append(entries, entry)
           n == Len(entries)
<1>1. n \in Nat /\ DOMAIN entries = 1..n /\ DOMAIN longer = 1..(n + 1)
  OBVIOUS
<1>2. longer[n + 1] = entry /\ \A k \in 1..n : longer[k] = entries[k]
  OBVIOUS
<1>3. \A k \in 1..n : entries[k].fieldIndex \in 1..(i - 1)
  BY <1>1 DEF IsTable
<1>4. \A k \in 1..n : /\ Named(s, entries[k].fieldIndex)
                      /\ entries[k].hasGraphQLType = Fact[Fields[s][entries[k].fieldIndex].question]
  BY <1>1 DEF IsTable
<1>5. \A k, m \in 1..n : k < m => entries[k].fieldIndex < entries[m].fieldIndex
  BY <1>1 DEF IsTable
<1>6. \A j \in 1..(i - 1) : Named(s, j) => \E k \in 1..n : entries[k].fieldIndex = j
  BY <1>1 DEF IsTable
<1>7. entry.fieldIndex = i /\ entry.hasGraphQLType = answer
  OBVIOUS
<1> HIDE DEF longer, entry, n
<1>8. \A k \in 1..(n + 1) :
         /\ longer[k].fieldIndex \in 1..i /\ Named(s, longer[k].fieldIndex)
         /\ longer[k].hasGraphQLType = Fact[Fields[s][longer[k].fieldIndex].question]
  <2> SUFFICES ASSUME NEW k \in 1..(n + 1)
               PROVE  /\ longer[k].fieldIndex \in 1..i /\ Named(s, longer[k].fieldIndex)
                      /\ longer[k].hasGraphQLType
                           = Fact[Fields[s][longer[k].fieldIndex].question]
    OBVIOUS
  <2>1. CASE k = n + 1
    BY <2>1, <1>2, <1>7
  <2>2. CASE k \in 1..n
    BY <2>2, <1>2, <1>3, <1>4
  <2> QED BY <2>1, <2>2, <1>1
<1>9. \A k, m \in 1..(n + 1) : k < m => longer[k].fieldIndex < longer[m].fieldIndex
  <2> SUFFICES ASSUME NEW k \in 1..(n + 1), NEW m \in 1..(n + 1), k < m
               PROVE  longer[k].fieldIndex < longer[m].fieldIndex
    OBVIOUS
  <2>1. k \in 1..n
    BY <1>1
  <2>2. CASE m = n + 1
    BY <2>1, <2>2, <1>2, <1>3, <1>7
  <2>3. CASE m \in 1..n
    BY <2>1, <2>3, <1>2, <1>5
  <2> QED BY <2>2, <2>3, <1>1
<1>10. \A j \in 1..i : Named(s, j) => \E k \in 1..(n + 1) : longer[k].fieldIndex = j
  <2> SUFFICES ASSUME NEW j \in 1..i, Named(s, j)
               PROVE  \E k \in 1..(n + 1) : longer[k].fieldIndex = j
    OBVIOUS
  <2>1. CASE j = i
    BY <2>1, <1>1, <1>2, <1>7
  <2>2. CASE j \in 1..(i - 1)
    BY <2>2, <1>1, <1>2, <1>6
  <2> QED BY <2>1, <2>2
<1>11. IsTable(longer, s, i)
  BY <1>1, <1>8, <1>9, <1>10 DEF IsTable, longer
<1> QED BY <1>11 DEF longer, entry

-----------------------------------------------------------------------------
(* A step of one goroutine, as the others see it. *)

\* The local variables and the tables of the others stay.
OthersStay(g) ==
  \A h \in Goroutines \ {g} :
    /\ pc'[h] = pc[h] /\ of'[h] = of[h] /\ building'[h] = building[h]
    /\ asked'[h] = asked[h] /\ at'[h] = at[h] /\ calls'[h] = calls[h]
    /\ \A n \in 1..MaxCalls : tables'[<<h, n>>] = tables[<<h, n>>]

\* Of its own tables it writes to the one of its call, if any, and it has no
\* other to write to until its next call.
WritesOwn(g) ==
  /\ \A n \in 1..MaxCalls :
       tables'[<<g, n>>] # tables[<<g, n>>] => MayWrite(g) /\ n = calls[g]
  /\ calls'[g] >= calls[g]
  /\ MayWrite(g)' => MayWrite(g) \/ calls'[g] > calls[g]

LEMMA OthersKeep ==
  ASSUME CachesTypeOK, NEW g \in Goroutines, OthersStay(g),
         NEW h \in Goroutines \ {g}, GoroutineOK(h)
  PROVE  GoroutineOK(h)'
<1>1. /\ pc'[h] = pc[h] /\ of'[h] = of[h] /\ building'[h] = building[h]
      /\ asked'[h] = asked[h] /\ at'[h] = at[h] /\ calls'[h] = calls[h]
      /\ \A n \in 1..MaxCalls : tables'[<<h, n>>] = tables[<<h, n>>]
  BY DEF OthersStay
<1>2. calls[h] \in 0..MaxCalls
  BY DEF CachesTypeOK
<1>3. MayWrite(h) => calls[h] \in 1..MaxCalls
  BY <1>2, MaxCallsOK DEF GoroutineOK
<1>4. Own(h)' = Own(h) /\ (MayWrite(h) => tables'[Own(h)] = tables[Own(h)])
  BY <1>1, <1>3 DEF Own
<1>5. Unwritten(h)'
  BY <1>1, <1>4 DEF GoroutineOK, Unwritten, MayWrite
<1>6. Partial(h)'
  BY <1>1, <1>4 DEF GoroutineOK, Partial, IsTable, MayWrite
<1>7. AsksForField(h)'
  BY <1>1 DEF GoroutineOK, AsksForField, FieldAt
<1> QED BY <1>1, <1>5, <1>6, <1>7 DEF GoroutineOK, MayWrite

\* What is published is not written to.
LEMMA PublishedStays ==
  ASSUME CachesTypeOK, NEW g \in Goroutines, OthersStay(g), WritesOwn(g),
         NEW s \in StructTypes, PublishedOK(s), fieldLookupCache[s] \in Tables,
         fieldLookupCache'[s] = fieldLookupCache[s], CachesTypeOK'
  PROVE  /\ tables'[fieldLookupCache[s]] = tables[fieldLookupCache[s]]
         /\ PublishedOK(s)'
<1>1. PICK h \in Goroutines, n \in 1..MaxCalls : fieldLookupCache[s] = <<h, n>>
  BY DEF Tables
<1>2. /\ n <= calls[h] /\ (MayWrite(h) => n # calls[h])
      /\ IsTable(tables[<<h, n>>], s, Len(Fields[s]))
  BY <1>1, NoTableIsNone DEF PublishedOK, Own
<1>3. n \in Nat /\ calls[h] \in Nat /\ calls'[h] \in Nat
  BY MaxCallsOK DEF CachesTypeOK
<1>4. CASE h = g
  <2>1. tables'[<<h, n>>] = tables[<<h, n>>]
    BY <1>2, <1>4 DEF WritesOwn
  <2>2. n <= calls'[h] /\ (MayWrite(h)' => n # calls'[h])
    BY <1>2, <1>3, <1>4 DEF WritesOwn
  <2> QED BY <1>1, <1>2, <2>1, <2>2 DEF PublishedOK, Own, IsTable
<1>5. CASE h # g
  <2>1. /\ tables'[<<h, n>>] = tables[<<h, n>>] /\ calls'[h] = calls[h]
        /\ MayWrite(h)' = MayWrite(h)
    BY <1>5 DEF OthersStay, MayWrite
  <2> QED BY <1>1, <1>2, <2>1 DEF PublishedOK, Own, IsTable
<1> QED BY <1>4, <1>5

\* Most steps publish nothing.
LEMMA UnpublishedStep ==
  ASSUME Inv, NEW g \in Goroutines, CachesTypeOK', OthersStay(g), WritesOwn(g),
         GoroutineOK(g)', UNCHANGED fieldLookupCache, GivenOK'
  PROVE  Inv'
<1>1. \A h \in Goroutines : GoroutineOK(h)'
  BY OthersKeep DEF Inv
<1>2. ASSUME NEW s \in StructTypes PROVE PublishedOK(s)'
  <2>1. CASE fieldLookupCache[s] = NoTable
    BY <2>1 DEF PublishedOK
  <2>2. CASE fieldLookupCache[s] \in Tables
    BY <2>2, PublishedStays DEF Inv
  <2> QED BY <2>1, <2>2 DEF Inv, CachesTypeOK
<1> QED BY <1>1, <1>2 DEF Inv

-----------------------------------------------------------------------------
(* The actions. *)

LEMMA Initially == Init => Inv
<1> SUFFICES ASSUME Init PROVE Inv
  OBVIOUS
<1>1. CachesTypeOK
  BY MaxCallsOK DEF Init, CachesTypeOK
<1>2. ASSUME NEW g \in Goroutines PROVE GoroutineOK(g)
  <2>1. \A n \in 1..MaxCalls : tables[<<g, n>>] = <<>>
    BY DEF Init, Tables
  <2> QED BY <2>1 DEF Init, GoroutineOK, Unwritten, Partial, AsksForField, MayWrite
<1> QED BY <1>1, <1>2 DEF Init, Inv, PublishedOK, GivenOK

\* What the invariant says of one goroutine.
LEMMA Locals ==
  ASSUME Inv, NEW g \in Goroutines
  PROVE  /\ of[g] \in StructTypes /\ asked[g] \in Questions /\ at[g] \in Nat
         /\ calls[g] \in Nat /\ calls[g] <= MaxCalls /\ building[g] \in BOOLEAN
         /\ pc[g] \in {"idle", "load"} => ~building[g]
         /\ MayWrite(g) => calls[g] \in 1..MaxCalls
<1>1. /\ of[g] \in StructTypes /\ asked[g] \in Questions /\ at[g] \in Nat
      /\ calls[g] \in Nat /\ calls[g] <= MaxCalls /\ building[g] \in BOOLEAN
  BY MaxCallsOK DEF Inv, CachesTypeOK
<1>2. pc[g] \in {"idle", "load"} => ~building[g]
  BY DEF Inv, GoroutineOK, AsksForField
<1>3. MayWrite(g) => calls[g] > 0
  BY DEF Inv, GoroutineOK
<1> QED BY <1>1, <1>2, <1>3, MaxCallsOK

LEMMA KeepsOnLookup ==
  ASSUME Inv, NEW g \in Goroutines, NEW s \in StructTypes, LookupFieldTable(g, s)
  PROVE  Inv'
<1> USE DEF LookupFieldTable, Goto, caches
<1>1. calls[g] \in Nat /\ calls'[g] = calls[g] + 1 /\ calls'[g] \in 1..MaxCalls
      /\ pc'[g] = "load" /\ ~building'[g]
  BY Locals, MaxCallsOK DEF Inv, CachesTypeOK
<1>2. CachesTypeOK'
  <2>1. /\ pc' \in [Goroutines -> {"idle", "load", "scan", "loadFact", "storeFact"}]
        /\ of' \in [Goroutines -> StructTypes] /\ calls' \in [Goroutines -> 0..MaxCalls]
    BY MaxCallsOK DEF Inv, CachesTypeOK
  <2> QED BY <2>1 DEF Inv, CachesTypeOK
<1>3. OthersStay(g) /\ WritesOwn(g)
  BY <1>1 DEF Inv, CachesTypeOK, OthersStay, WritesOwn
<1>4. Unwritten(g)'
  <2>1. \A n \in 1..MaxCalls : n > calls[g] => tables'[<<g, n>>] = <<>>
    BY DEF Inv, GoroutineOK, Unwritten
  <2> QED BY <1>1, <2>1, MaxCallsOK DEF Unwritten, Own
<1>5. GoroutineOK(g)'
  BY <1>1, <1>4 DEF GoroutineOK, Partial, AsksForField
<1> QED BY <1>2, <1>3, <1>5, UnpublishedStep DEF Inv, GivenOK

LEMMA KeepsOnAsk ==
  ASSUME Inv, NEW g \in Goroutines, NEW q \in Questions, Ask(g, q)
  PROVE  Inv'
<1> USE DEF Ask, Goto, caches
<1>1. calls[g] \in Nat /\ calls'[g] = calls[g] + 1 /\ calls'[g] \in 1..MaxCalls
      /\ pc'[g] = "loadFact" /\ ~building'[g]
  BY Locals, MaxCallsOK DEF Inv, CachesTypeOK
<1>2. CachesTypeOK'
  <2>1. /\ pc' \in [Goroutines -> {"idle", "load", "scan", "loadFact", "storeFact"}]
        /\ asked' \in [Goroutines -> Questions] /\ calls' \in [Goroutines -> 0..MaxCalls]
    BY MaxCallsOK DEF Inv, CachesTypeOK
  <2> QED BY <2>1 DEF Inv, CachesTypeOK
<1>3. OthersStay(g) /\ WritesOwn(g)
  BY <1>1 DEF Inv, CachesTypeOK, OthersStay, WritesOwn
<1>4. Unwritten(g)'
  <2>1. \A n \in 1..MaxCalls : n > calls[g] => tables'[<<g, n>>] = <<>>
    BY DEF Inv, GoroutineOK, Unwritten
  <2> QED BY <1>1, <2>1, MaxCallsOK DEF Unwritten, Own
<1>5. GoroutineOK(g)'
  BY <1>1, <1>4 DEF GoroutineOK, Partial, AsksForField, MayWrite
<1> QED BY <1>2, <1>3, <1>5, UnpublishedStep DEF Inv, GivenOK

\* A table that is returned is the published one.
LEMMA KeepsOnLoadTable ==
  ASSUME Inv, NEW g \in Goroutines, LoadTable(g)
  PROVE  Inv'
<1> USE DEF LoadTable, Goto, Return, caches
<1>1. pc[g] = "load" /\ ~building[g] /\ calls[g] \in 1..MaxCalls /\ of[g] \in StructTypes
  BY Locals DEF MayWrite
<1>2. CASE fieldLookupCache[of[g]] # NoTable
  <2>1. fieldLookupCache[of[g]] \in Tables
    BY <1>1, <1>2 DEF Inv, CachesTypeOK
  <2>2. CachesTypeOK'
    <3>1. pc' \in [Goroutines -> {"idle", "load", "scan", "loadFact", "storeFact"}]
      BY <1>2 DEF Inv, CachesTypeOK
    <3>2. returned' = returned \cup {<<of[g], fieldLookupCache[of[g]]>>}
      BY <1>2
    <3>3. returned' \subseteq StructTypes \X Tables
      BY <1>1, <2>1, <3>2 DEF Inv, CachesTypeOK
    <3> QED BY <1>2, <3>1, <3>3 DEF Inv, CachesTypeOK
  <2>3. OthersStay(g) /\ WritesOwn(g)
    BY <1>2 DEF Inv, CachesTypeOK, OthersStay, WritesOwn, MayWrite
  <2>4. GoroutineOK(g)'
    BY <1>1, <1>2 DEF Inv, CachesTypeOK, GoroutineOK, Unwritten, Partial, AsksForField, MayWrite, Own
  <2>5. GivenOK'
    BY <1>2 DEF Inv, GivenOK
  <2> QED BY <2>2, <2>3, <2>4, <2>5, UnpublishedStep
<1>3. CASE fieldLookupCache[of[g]] = NoTable
  <2>1. CachesTypeOK'
    <3>1. /\ pc' = [pc EXCEPT ![g] = "scan"] /\ at' = [at EXCEPT ![g] = 1]
          /\ building' = [building EXCEPT ![g] = TRUE]
          /\ UNCHANGED <<caches, tables, of, asked, calls, returned, told>>
      BY <1>3
    <3> QED BY <3>1 DEF Inv, CachesTypeOK
  <2>2. OthersStay(g) /\ WritesOwn(g)
    BY <1>3 DEF Inv, CachesTypeOK, OthersStay, WritesOwn, MayWrite
  <2>3. /\ pc'[g] = "scan" /\ building'[g] /\ at'[g] = 1
        /\ tables'[Own(g)'] = <<>> /\ of'[g] = of[g] /\ calls'[g] = calls[g]
    BY <1>1, <1>3 DEF Inv, CachesTypeOK, GoroutineOK, Unwritten, Own
  <2>4. Partial(g)'
    BY <1>1, <2>3, LengthType, EmptyTable DEF Partial, IsTable
  <2>5. Unwritten(g)'
    BY <1>1, <2>3 DEF Inv, GoroutineOK, Unwritten
  <2>6. GoroutineOK(g)'
    BY <1>1, <2>3, <2>4, <2>5 DEF GoroutineOK, AsksForField
  <2> QED BY <1>3, <2>1, <2>2, <2>6, UnpublishedStep DEF Inv, GivenOK
<1> QED BY <1>2, <1>3

\* The field of a goroutine that scans.
LEMMA ScannedField ==
  ASSUME Inv, NEW g \in Goroutines, building[g], at[g] <= Len(Fields[of[g]])
  PROVE  /\ at[g] \in 1..Len(Fields[of[g]]) /\ at[g] \in Nat \ {0}
         /\ IsTable(tables[Own(g)], of[g], at[g] - 1)
         /\ Own(g) \in Tables /\ tables[Own(g)] \in Seq(Entry)
         /\ FieldAt(g).question \in Questions /\ FieldAt(g).exported \in BOOLEAN
         /\ FieldAt(g).fragment \in BOOLEAN
<1>1. Partial(g) /\ of[g] \in StructTypes /\ calls[g] \in 1..MaxCalls
  BY Locals DEF Inv, GoroutineOK, MayWrite
<1>2. at[g] \in 1..Len(Fields[of[g]]) /\ at[g] \in Nat \ {0}
  BY <1>1, LengthType DEF Partial
<1>3. Own(g) \in Tables /\ tables[Own(g)] \in Seq(Entry)
  BY <1>1 DEF Inv, CachesTypeOK, Own, Tables
<1>4. /\ FieldAt(g).question \in Questions /\ FieldAt(g).exported \in BOOLEAN
      /\ FieldAt(g).fragment \in BOOLEAN
  BY <1>1, <1>2, FieldTypes DEF FieldAt
<1> QED BY <1>1, <1>2, <1>3, <1>4 DEF Partial

LEMMA KeepsOnSkipField ==
  ASSUME Inv, NEW g \in Goroutines, SkipField(g)
  PROVE  Inv'
<1>1. /\ pc[g] = "scan" /\ at[g] <= Len(Fields[of[g]]) /\ ~FieldAt(g).exported
      /\ at' = [at EXCEPT ![g] = @ + 1]
      /\ UNCHANGED <<caches, tables, pc, of, building, asked, calls, returned, told>>
  BY DEF SkipField, Scanning
<1>2. building[g]
  BY <1>1 DEF Inv, GoroutineOK
<1>3. CachesTypeOK'
  BY <1>1 DEF Inv, CachesTypeOK, caches
<1>4. OthersStay(g) /\ WritesOwn(g)
  BY <1>1, Locals DEF Inv, CachesTypeOK, OthersStay, WritesOwn, MayWrite
<1>5. Partial(g)'
  <2>1. at'[g] = at[g] + 1 /\ Own(g)' = Own(g)
    BY <1>1 DEF Inv, CachesTypeOK, Own
  <2>2. IsTable(tables[Own(g)], of[g], at[g])
    BY <1>1, <1>2, Locals, ScannedField, TableSkips DEF Named, FieldAt
  <2>3. at'[g] - 1 = at[g] /\ at'[g] \in 1..(Len(Fields[of[g]]) + 1)
    BY <1>1, <1>2, <2>1, ScannedField, Locals, LengthType
  <2> QED BY <1>1, <2>1, <2>2, <2>3 DEF Partial, IsTable
<1>6. GoroutineOK(g)'
  BY <1>1, <1>5 DEF Inv, GoroutineOK, Unwritten, AsksForField, MayWrite, Own
<1> QED BY <1>1, <1>3, <1>4, <1>6, UnpublishedStep DEF Inv, GivenOK, caches

LEMMA PartialStays ==
  ASSUME NEW g \in Goroutines, Partial(g), UNCHANGED <<tables, of, building, at, calls>>
  PROVE  Partial(g)'
BY DEF Partial, IsTable, Own

LEMMA KeepsOnAskAboutField ==
  ASSUME Inv, NEW g \in Goroutines, AskAboutField(g)
  PROVE  Inv'
<1>1. /\ pc[g] = "scan" /\ at[g] <= Len(Fields[of[g]]) /\ FieldAt(g).exported
      /\ pc' = [pc EXCEPT ![g] = "loadFact"]
      /\ asked' = [asked EXCEPT ![g] = FieldAt(g).question]
      /\ UNCHANGED <<caches, tables, of, building, at, calls, returned, told>>
  BY DEF AskAboutField, Scanning, Goto
<1>2. building[g] /\ FieldAt(g).question \in Questions
  BY <1>1, ScannedField DEF Inv, GoroutineOK
<1>3. CachesTypeOK'
  BY <1>1, <1>2 DEF Inv, CachesTypeOK, caches
<1>4. OthersStay(g) /\ WritesOwn(g)
  BY <1>1, Locals DEF Inv, CachesTypeOK, OthersStay, WritesOwn, MayWrite
<1>5. AsksForField(g)'
  <2>1. pc'[g] = "loadFact" /\ asked'[g] = FieldAt(g).question /\ FieldAt(g)' = FieldAt(g)
    BY <1>1 DEF Inv, CachesTypeOK, FieldAt
  <2> QED BY <1>1, <2>1 DEF AsksForField
<1>6. GoroutineOK(g)'
  <2>1. pc'[g] = "loadFact"
    BY <1>1 DEF Inv, CachesTypeOK
  <2>2. Unwritten(g)'
    BY <1>1, <2>1 DEF Inv, GoroutineOK, Unwritten
  <2>3. Partial(g)'
    BY <1>1, PartialStays DEF Inv, GoroutineOK
  <2> QED BY <1>1, <1>2, <1>5, <2>1, <2>2, <2>3 DEF Inv, GoroutineOK, MayWrite
<1> QED BY <1>1, <1>3, <1>4, <1>6, UnpublishedStep DEF Inv, GivenOK, caches

\* With the right answer a table gets the right entry.
LEMMA AnswerExtends ==
  ASSUME Inv, NEW g \in Goroutines, pc[g] \in {"loadFact", "storeFact"}, building[g],
         AddEntry(g, Fact[asked[g]]), UNCHANGED <<of, asked, calls>>
  PROVE  /\ tables' \in [Tables -> Seq(Entry)] /\ at' \in [Goroutines -> Nat]
         /\ OthersStay(g) /\ WritesOwn(g) /\ GoroutineOK(g)'
<1>1. /\ tables' = IF FieldAt(g).fragment THEN tables
                   ELSE [tables EXCEPT ![Own(g)] =
                           Append(@, [fieldIndex |-> at[g], hasGraphQLType |-> Fact[asked[g]]])]
      /\ at' = [at EXCEPT ![g] = @ + 1] /\ pc' = [pc EXCEPT ![g] = "scan"]
      /\ UNCHANGED <<building, told>>
  BY DEF AddEntry, Goto
<1>2. /\ at[g] <= Len(Fields[of[g]]) /\ FieldAt(g).exported
      /\ asked[g] = FieldAt(g).question
  BY DEF Inv, GoroutineOK, AsksForField
<1>3. Fact[asked[g]] \in Answers
  BY Locals, AnswerTypes
<1>4. at[g] \in Nat \ {0} /\ Own(g) \in Tables /\ tables[Own(g)] \in Seq(Entry)
  BY <1>2, ScannedField
<1> DEFINE longer == Append(tables[Own(g)],
                            [fieldIndex |-> at[g], hasGraphQLType |-> Fact[asked[g]]])
<1>5. longer \in Seq(Entry)
  BY <1>3, <1>4 DEF Entry
<1>6. tables' = IF FieldAt(g).fragment THEN tables ELSE [tables EXCEPT ![Own(g)] = longer]
  BY <1>1, <1>4 DEF Inv, CachesTypeOK
<1>7. tables' \in [Tables -> Seq(Entry)] /\ at' \in [Goroutines -> Nat]
  <2> HIDE DEF longer
  <2>1. tables' \in [Tables -> Seq(Entry)]
    BY <1>5, <1>6 DEF Inv, CachesTypeOK
  <2>2. at' \in [Goroutines -> Nat]
    BY <1>1 DEF Inv, CachesTypeOK
  <2> QED BY <2>1, <2>2
<1>8. \A id \in Tables : id # Own(g) => tables'[id] = tables[id]
  BY <1>6 DEF Inv, CachesTypeOK
<1>9. OthersStay(g) /\ WritesOwn(g)
  BY <1>1, <1>8, Locals DEF Inv, CachesTypeOK, OthersStay, WritesOwn, MayWrite, Own, Tables
<1>10. /\ at'[g] = at[g] + 1 /\ pc'[g] = "scan" /\ building'[g]
       /\ Own(g)' = Own(g) /\ of'[g] = of[g] /\ calls'[g] = calls[g]
  BY <1>1 DEF Inv, CachesTypeOK, Own
<1>11. IsTable(tables'[Own(g)], of[g], at[g])
  <2>1. IsTable(tables[Own(g)], of[g], at[g] - 1) /\ of[g] \in StructTypes
    BY <1>2, ScannedField, Locals
  <2>2. CASE FieldAt(g).fragment
    BY <1>4, <1>6, <2>1, <2>2, TableSkips DEF Named, FieldAt
  <2>3. CASE ~FieldAt(g).fragment
    <3>1. tables'[Own(g)] = longer
      BY <1>4, <1>6, <2>3 DEF Inv, CachesTypeOK
    <3>2. Named(of[g], at[g]) /\ Fact[asked[g]] = Fact[Fields[of[g]][at[g]].question]
      BY <1>2, <2>3 DEF Named, FieldAt
    <3> QED BY <1>3, <1>4, <2>1, <3>1, <3>2, TableAppends
  <2> QED BY <2>2, <2>3
<1>12. Partial(g)'
  <2>1. Len(Fields[of[g]]) \in Nat
    BY Locals, LengthType
  <2>2. at'[g] - 1 = at[g] /\ at'[g] \in 1..(Len(Fields[of[g]]) + 1)
    BY <1>2, <1>4, <1>10, <2>1
  <2> QED BY <1>10, <1>11, <2>2 DEF Partial, IsTable
<1>13. Unwritten(g)'
  <2>1. \A n \in 1..MaxCalls : n > calls[g] => tables[<<g, n>>] = <<>>
    BY DEF Inv, GoroutineOK, Unwritten
  <2>2. \A n \in 1..MaxCalls : n > calls[g] => <<g, n>> \in Tables /\ <<g, n>> # Own(g)
    BY Locals DEF Own, Tables
  <2> QED BY <1>8, <1>10, <2>1, <2>2 DEF Unwritten
<1>14. GoroutineOK(g)'
  BY <1>10, <1>12, <1>13, Locals DEF GoroutineOK, AsksForField, MayWrite
<1> QED BY <1>7, <1>9, <1>14

\* An answer to a question a goroutine asked.
LEMMA KeepsOnAnswer ==
  ASSUME Inv, NEW g \in Goroutines, pc[g] \in {"loadFact", "storeFact"},
         Answer(g, Fact[asked[g]]),
         UNCHANGED <<fieldLookupCache, of, asked, calls, returned>>,
         facts' \in [Questions -> Answers \cup {Unknown}],
         \A q \in Questions : facts'[q] \in {Unknown, Fact[q]}
  PROVE  Inv'
<1>1. CASE building[g]
  <2>1. /\ AddEntry(g, Fact[asked[g]]) /\ UNCHANGED <<building, told>>
        /\ pc' = [pc EXCEPT ![g] = "scan"]
    BY <1>1 DEF Answer, AddEntry, Goto
  <2>2. /\ tables' \in [Tables -> Seq(Entry)] /\ at' \in [Goroutines -> Nat]
        /\ OthersStay(g) /\ WritesOwn(g) /\ GoroutineOK(g)'
    BY <1>1, <2>1, AnswerExtends
  <2>3. CachesTypeOK'
    BY <2>1, <2>2 DEF Inv, CachesTypeOK
  <2>4. GivenOK'
    BY <2>1 DEF Inv, GivenOK
  <2> QED BY <2>2, <2>3, <2>4, UnpublishedStep
<1>2. CASE ~building[g]
  <2>1. /\ told' = told \cup {<<asked[g], Fact[asked[g]]>>}
        /\ pc' = [pc EXCEPT ![g] = "idle"] /\ UNCHANGED <<tables, at, building>>
    BY <1>2 DEF Answer, Goto
  <2>2. told' \subseteq Questions \X Answers
    BY <2>1, Locals, AnswerTypes DEF Inv, CachesTypeOK
  <2>3. CachesTypeOK'
    BY <2>1, <2>2 DEF Inv, CachesTypeOK
  <2>4. OthersStay(g) /\ WritesOwn(g) /\ pc'[g] = "idle"
    BY <1>2, <2>1, Locals DEF Inv, CachesTypeOK, OthersStay, WritesOwn, MayWrite
  <2>5. GoroutineOK(g)'
    BY <1>2, <2>1, <2>4 DEF Inv, GoroutineOK, Unwritten, Partial, AsksForField, MayWrite
  <2>6. GivenOK'
    BY <2>1 DEF Inv, GivenOK
  <2> QED BY <2>3, <2>4, <2>5, <2>6, UnpublishedStep
<1> QED BY <1>1, <1>2

LEMMA KeepsOnLoadFact ==
  ASSUME Inv, NEW g \in Goroutines, LoadFact(g)
  PROVE  Inv'
<1>1. pc[g] = "loadFact" /\ UNCHANGED <<fieldLookupCache, facts, of, asked, calls, returned>>
  BY DEF LoadFact, caches
<1>2. CASE facts[asked[g]] # Unknown
  <2>1. facts[asked[g]] = Fact[asked[g]]
    BY <1>2, Locals DEF Inv, GivenOK
  <2>2. Answer(g, Fact[asked[g]])
    BY <1>2, <2>1 DEF LoadFact
  <2> QED BY <1>1, <2>2, KeepsOnAnswer DEF Inv, CachesTypeOK, GivenOK
<1>3. CASE facts[asked[g]] = Unknown
  <2>1. pc' = [pc EXCEPT ![g] = "storeFact"] /\ UNCHANGED <<tables, at, building, told>>
    BY <1>3 DEF LoadFact, Goto
  <2>2. CachesTypeOK'
    BY <1>1, <2>1 DEF Inv, CachesTypeOK
  <2>3. OthersStay(g) /\ WritesOwn(g) /\ pc'[g] = "storeFact"
    BY <1>1, <2>1, Locals DEF Inv, CachesTypeOK, OthersStay, WritesOwn, MayWrite
  <2>4. AsksForField(g)'
    BY <1>1, <2>1, <2>3 DEF Inv, GoroutineOK, AsksForField, FieldAt
  <2>5. Unwritten(g)'
    BY <1>1, <2>1, <2>3 DEF Inv, GoroutineOK, Unwritten
  <2>6. Partial(g)'
    BY <1>1, <2>1, PartialStays DEF Inv, GoroutineOK
  <2>7. GoroutineOK(g)'
    BY <1>1, <2>1, <2>3, <2>4, <2>5, <2>6 DEF Inv, GoroutineOK, MayWrite
  <2> QED BY <1>1, <2>1, <2>2, <2>3, <2>7, UnpublishedStep DEF Inv, GivenOK
<1> QED BY <1>2, <1>3

LEMMA KeepsOnStoreFact ==
  ASSUME Inv, NEW g \in Goroutines, StoreFact(g)
  PROVE  Inv'
<1>1. /\ pc[g] = "storeFact" /\ Answer(g, Fact[asked[g]])
      /\ facts' = [facts EXCEPT ![asked[g]] = Fact[asked[g]]]
      /\ UNCHANGED <<fieldLookupCache, of, asked, calls, returned>>
  BY DEF StoreFact
<1>2. facts' \in [Questions -> Answers \cup {Unknown}]
  BY <1>1, Locals, AnswerTypes DEF Inv, CachesTypeOK
<1>3. \A q \in Questions : facts'[q] \in {Unknown, Fact[q]}
  BY <1>1 DEF Inv, CachesTypeOK, GivenOK
<1> QED BY <1>1, <1>2, <1>3, KeepsOnAnswer

\* The winner publishes a complete table and is done with it; a loser leaves
\* what it has built where nobody looks.
LEMMA KeepsOnLoadOrStore ==
  ASSUME Inv, NEW g \in Goroutines, LoadOrStore(g)
  PROVE  Inv'
<1> DEFINE s == of[g]
           won == IF fieldLookupCache[s] = NoTable THEN Own(g) ELSE fieldLookupCache[s]
<1>1. /\ pc[g] = "scan" /\ at[g] > Len(Fields[s])
      /\ fieldLookupCache' = [fieldLookupCache EXCEPT ![s] = won]
      /\ pc' = [pc EXCEPT ![g] = "idle"] /\ building' = [building EXCEPT ![g] = FALSE]
      /\ returned' = returned \cup {<<s, fieldLookupCache'[s]>>}
      /\ UNCHANGED <<facts, tables, of, asked, at, calls, told>>
  BY DEF LoadOrStore, Return, Goto
<1>2. building[g] /\ s \in StructTypes /\ calls[g] \in 1..MaxCalls /\ Own(g) \in Tables
  <2>1. building[g]
    BY <1>1 DEF Inv, GoroutineOK
  <2> QED BY <2>1, Locals DEF MayWrite, Own, Tables
<1>3. IsTable(tables[Own(g)], s, Len(Fields[s]))
  <2>1. Partial(g) /\ Len(Fields[s]) \in Nat /\ at[g] \in Nat
    BY <1>2, Locals, LengthType DEF Inv, GoroutineOK
  <2>2. at[g] - 1 = Len(Fields[s])
    BY <1>1, <1>2, <2>1 DEF Partial
  <2> QED BY <1>2, <2>1, <2>2 DEF Partial
<1>4. won \in Tables /\ fieldLookupCache'[s] = won
  BY <1>1, <1>2 DEF Inv, CachesTypeOK
<1> HIDE DEF won
<1>5. CachesTypeOK'
  <2>1. fieldLookupCache' \in [StructTypes -> Tables \cup {NoTable}]
    BY <1>1, <1>2, <1>4 DEF Inv, CachesTypeOK
  <2>2. returned' \subseteq StructTypes \X Tables
    BY <1>1, <1>2, <1>4 DEF Inv, CachesTypeOK
  <2> QED BY <1>1, <2>1, <2>2 DEF Inv, CachesTypeOK
<1>6. OthersStay(g) /\ WritesOwn(g) /\ pc'[g] = "idle" /\ ~building'[g]
  BY <1>1, <1>2, Locals DEF Inv, CachesTypeOK, OthersStay, WritesOwn, MayWrite
<1>7. GoroutineOK(g)'
  BY <1>1, <1>2, <1>6 DEF Inv, GoroutineOK, Unwritten, Partial, AsksForField, MayWrite
<1>8. \A h \in Goroutines : GoroutineOK(h)'
  BY <1>6, <1>7, OthersKeep DEF Inv
<1>9. ASSUME NEW t \in StructTypes PROVE PublishedOK(t)'
  <2>1. CASE fieldLookupCache[t] \in Tables
    <3>1. fieldLookupCache'[t] = fieldLookupCache[t]
      BY <1>1, <1>2, <2>1, NoTableIsNone DEF Inv, CachesTypeOK, won
    <3> QED BY <1>5, <1>6, <2>1, <3>1, PublishedStays DEF Inv
  <2>2. CASE fieldLookupCache[t] = NoTable /\ t # s
    <3>1. fieldLookupCache'[t] = NoTable
      BY <1>1, <1>2, <2>2 DEF Inv, CachesTypeOK
    <3> QED BY <3>1 DEF PublishedOK
  <2>3. CASE fieldLookupCache[t] = NoTable /\ t = s
    <3>1. fieldLookupCache'[t] = Own(g) /\ ~MayWrite(g)' /\ calls'[g] = calls[g]
      BY <1>1, <1>2, <1>4, <1>6, <2>3 DEF MayWrite, won
    <3>2. Own(g)[1] = g /\ Own(g)[2] = calls'[g] /\ calls'[g] \in Nat
      BY <1>1, <3>1, Locals DEF Own
    <3>3. IsTable(tables[Own(g)], s, Len(Fields[s]))'
      BY <1>1, <1>3 DEF IsTable, Own
    <3>4. IsTable(tables[Own(g)], t, Len(Fields[t]))' /\ Own(g)' = Own(g)
      BY <1>1, <2>3, <3>3 DEF Own
    <3> QED BY <3>1, <3>2, <3>4 DEF PublishedOK
  <2> QED BY <2>1, <2>2, <2>3 DEF Inv, CachesTypeOK
<1>10. GivenOK'
  <2>1. ASSUME NEW r \in returned' PROVE fieldLookupCache'[r[1]] = r[2]
    <3>1. CASE r = <<s, fieldLookupCache'[s]>>
      BY <3>1
    <3>2. CASE r \in returned
      <4>1. r[1] \in StructTypes /\ r[2] \in Tables /\ fieldLookupCache[r[1]] = r[2]
        BY <3>2 DEF Inv, CachesTypeOK, GivenOK
      <4> QED BY <1>1, <1>2, <4>1, NoTableIsNone DEF Inv, CachesTypeOK, won
    <3> QED BY <1>1, <3>1, <3>2
  <2> QED BY <1>1, <2>1 DEF Inv, GivenOK
<1> QED BY <1>5, <1>8, <1>9, <1>10 DEF Inv

-----------------------------------------------------------------------------
(* The theorems. *)

LEMMA Consecution == Inv /\ [Next]_vars => Inv'
<1> SUFFICES ASSUME Inv, [Next]_vars PROVE Inv'
  OBVIOUS
<1>1. CASE UNCHANGED vars
  <2>1. UNCHANGED <<fieldLookupCache, facts, tables, pc, of, building, asked, at, calls,
                    returned, told>>
    BY <1>1 DEF vars, caches, locals
  <2>2. CachesTypeOK' /\ GivenOK'
    BY <2>1 DEF Inv, CachesTypeOK, GivenOK
  <2>3. ASSUME NEW g \in Goroutines PROVE GoroutineOK(g)'
    <3>1. Unwritten(g)' /\ Partial(g)'
      BY <2>1, PartialStays DEF Inv, GoroutineOK, Unwritten, Own
    <3>2. AsksForField(g)'
      BY <2>1 DEF Inv, GoroutineOK, AsksForField, FieldAt
    <3> QED BY <2>1, <3>1, <3>2 DEF Inv, GoroutineOK, MayWrite
  <2>4. ASSUME NEW s \in StructTypes PROVE PublishedOK(s)'
    BY <2>1 DEF Inv, PublishedOK, MayWrite, Own, IsTable
  <2> QED BY <2>2, <2>3, <2>4 DEF Inv
<1>2. CASE Next
  <2>1. PICK g \in Goroutines : \/ \E s \in StructTypes : LookupFieldTable(g, s)
                                \/ \E q \in Questions : Ask(g, q)
                                \/ Step(g)
    BY <1>2 DEF Next
  <2>2. CASE \E s \in StructTypes : LookupFieldTable(g, s)
    BY <2>2, KeepsOnLookup
  <2>3. CASE \E q \in Questions : Ask(g, q)
    BY <2>3, KeepsOnAsk
  <2>4. CASE Step(g)
    BY <2>4, KeepsOnLoadTable, KeepsOnSkipField, KeepsOnAskAboutField, KeepsOnLoadOrStore,
       KeepsOnLoadFact, KeepsOnStoreFact DEF Step
  <2> QED BY <2>1, <2>2, <2>3, <2>4
<1> QED BY <1>1, <1>2

LEMMA Invariance == Spec => []Inv
BY Initially, Consecution, PTL DEF Spec

\* Every cache holds what its type says, and no answer is ever "not found".
THEOREM CachesAreTyped == Spec => []CachesTypeOK
BY Invariance, PTL DEF Inv

\* However many goroutines look up types for the first time at the same time
\* (field_cache.go:101-110), a table they get is complete and stays so.
THEOREM AnswersStayRight == Spec => []AnswersAreRight
<1>1. Inv => AnswersAreRight
  <2> SUFFICES ASSUME Inv PROVE AnswersAreRight
    OBVIOUS
  <2>1. ASSUME NEW r \in returned PROVE IsTable(tables[r[2]], r[1], Len(Fields[r[1]]))
    <3>1. r[1] \in StructTypes /\ r[2] \in Tables /\ fieldLookupCache[r[1]] = r[2]
      BY DEF Inv, CachesTypeOK, GivenOK
    <3> QED BY <3>1, NoTableIsNone DEF Inv, PublishedOK
  <2> QED BY <2>1 DEF AnswersAreRight, Inv, GivenOK
<1> QED BY <1>1, Invariance, PTL

\* All callers share one table per type, because LoadOrStore keeps the first.
THEOREM TablesAreShared == Spec => []OneTablePerType
<1>1. Inv => OneTablePerType
  BY DEF Inv, GivenOK, OneTablePerType
<1> QED BY <1>1, Invariance, PTL

-----------------------------------------------------------------------------
(* The refinement. *)

\* A call that ends, ends with the one answer; every other step is a stutter.
LEMMA OneAnswerStep ==
  ASSUME Inv, NEW g \in Goroutines, Step(g)
  PROVE  Abstract!Next \/ UNCHANGED <<fieldLookupCache, returned, told>>
<1>1. ASSUME NEW id \in Tables, fieldLookupCache[of[g]] \in {NoTable, id},
             fieldLookupCache' = [fieldLookupCache EXCEPT ![of[g]] = id],
             returned' = returned \cup {<<of[g], id>>}, UNCHANGED told
      PROVE  Abstract!Next
  <2>1. Abstract!AnswerTable(of[g], id)
    BY <1>1 DEF Abstract!AnswerTable
  <2> QED BY <2>1, Locals DEF Abstract!Next
<1>2. ASSUME Answer(g, Fact[asked[g]]), UNCHANGED <<fieldLookupCache, returned>>
      PROVE  Abstract!Next \/ UNCHANGED <<fieldLookupCache, returned, told>>
  <2>1. CASE building[g]
    BY <1>2, <2>1 DEF Answer, AddEntry
  <2>2. CASE ~building[g]
    <3>1. Abstract!AnswerFact(asked[g])
      BY <1>2, <2>2 DEF Answer, Abstract!AnswerFact
    <3> QED BY <3>1, Locals DEF Abstract!Next
  <2> QED BY <2>1, <2>2
<1>3. CASE LoadTable(g)
  <2>1. CASE fieldLookupCache[of[g]] # NoTable
    <3>1. fieldLookupCache[of[g]] \in Tables
      BY <2>1, Locals DEF Inv, CachesTypeOK
    <3>2. /\ returned' = returned \cup {<<of[g], fieldLookupCache[of[g]]>>}
          /\ UNCHANGED <<fieldLookupCache, told>>
      BY <1>3, <2>1 DEF LoadTable, Return, caches
    <3>3. fieldLookupCache' = [fieldLookupCache EXCEPT ![of[g]] = fieldLookupCache[of[g]]]
      BY <3>2 DEF Inv, CachesTypeOK
    <3> QED BY <1>1, <3>1, <3>2, <3>3
  <2>2. CASE fieldLookupCache[of[g]] = NoTable
    BY <1>3, <2>2 DEF LoadTable, caches
  <2> QED BY <2>1, <2>2
<1>4. CASE LoadOrStore(g)
  <2> DEFINE won == IF fieldLookupCache[of[g]] = NoTable THEN Own(g) ELSE fieldLookupCache[of[g]]
  <2>1. /\ pc[g] = "scan" /\ UNCHANGED told
        /\ fieldLookupCache' = [fieldLookupCache EXCEPT ![of[g]] = won]
        /\ returned' = returned \cup {<<of[g], fieldLookupCache'[of[g]]>>}
    BY <1>4 DEF LoadOrStore, Return
  <2>2. Own(g) \in Tables
    BY <2>1, Locals DEF Inv, GoroutineOK, MayWrite, Own, Tables
  <2>3. won \in Tables /\ fieldLookupCache[of[g]] \in {NoTable, won}
    BY <2>2, Locals DEF Inv, CachesTypeOK
  <2>4. fieldLookupCache'[of[g]] = won
    BY <2>1, Locals DEF Inv, CachesTypeOK
  <2> QED BY <1>1, <2>1, <2>3, <2>4
<1>5. CASE LoadFact(g)
  <2>1. CASE facts[asked[g]] # Unknown
    <3>1. facts[asked[g]] = Fact[asked[g]]
      BY <2>1, Locals DEF Inv, GivenOK
    <3> QED BY <1>2, <1>5, <2>1, <3>1 DEF LoadFact, caches
  <2>2. CASE facts[asked[g]] = Unknown
    BY <1>5, <2>2 DEF LoadFact, caches
  <2> QED BY <2>1, <2>2
<1>6. CASE StoreFact(g)
  BY <1>2, <1>6 DEF StoreFact
<1>7. CASE SkipField(g) \/ AskAboutField(g)
  BY <1>7 DEF SkipField, AskAboutField, caches
<1> QED BY <1>3, <1>4, <1>5, <1>6, <1>7 DEF Step

\* The caches implement OneAnswer: what a caller is told depends neither on who
\* else asks nor on when.
THEOREM CachesImplementOneAnswer == Spec => ImplementsOneAnswer
<1>1. Init => Abstract!Init
  BY DEF Init, Abstract!Init
<1>2. Inv /\ [Next]_vars => [Abstract!Next]_Abstract!vars
  <2> SUFFICES ASSUME Inv, [Next]_vars
               PROVE  Abstract!Next \/ UNCHANGED <<fieldLookupCache, returned, told>>
    BY DEF Abstract!vars
  <2>1. CASE UNCHANGED vars
    BY <2>1 DEF vars, caches
  <2>2. CASE Next
    <3>1. PICK g \in Goroutines : \/ \E s \in StructTypes : LookupFieldTable(g, s)
                                  \/ \E q \in Questions : Ask(g, q)
                                  \/ Step(g)
      BY <2>2 DEF Next
    <3>2. CASE Step(g)
      BY <3>2, OneAnswerStep
    <3>3. CASE ~Step(g)
      BY <3>1, <3>3 DEF LookupFieldTable, Ask, caches
    <3> QED BY <3>2, <3>3
  <2> QED BY <2>1, <2>2
<1> QED BY <1>1, <1>2, Invariance, PTL DEF Spec, ImplementsOneAnswer, Abstract!Spec

-----------------------------------------------------------------------------
(* What is left of a call. *)

Shrinks(g) == StepsLeft(g)' \in 0..(StepsLeft(g) - 1)

LEMMA ThreeLess ==
  ASSUME NEW n \in Nat, NEW i \in Nat, i <= n
  PROVE  3 * (n - i) \in Nat /\ 3 * (n + 1 - i) = 3 * (n - i) + 3
OBVIOUS

\* The step an answer makes.
LEMMA AnswerShrinks ==
  ASSUME Inv, NEW g \in Goroutines, NEW answer, pc[g] \in {"loadFact", "storeFact"},
         Answer(g, answer), UNCHANGED of
  PROVE  Shrinks(g)
<1>1. /\ of[g] \in StructTypes /\ at[g] \in Nat /\ building[g] \in BOOLEAN
      /\ Len(Fields[of[g]]) \in Nat /\ of'[g] = of[g]
  BY Locals, LengthType
<1>2. CASE building[g]
  <2>1. pc'[g] = "scan" /\ at'[g] = at[g] + 1 /\ building'[g] = building[g]
    BY <1>2 DEF Answer, AddEntry, Goto, Inv, CachesTypeOK
  <2>2. at[g] <= Len(Fields[of[g]])
    BY <1>2 DEF Inv, GoroutineOK, AsksForField
  <2> DEFINE later == 3 * (Len(Fields[of[g]]) - at[g])
  <2>3. later \in Nat /\ 3 * (Len(Fields[of[g]]) + 1 - at[g]) = later + 3
    BY <1>1, <2>2, ThreeLess
  <2>4. StepsLeft(g)' = later + 1
    BY <1>1, <2>1 DEF StepsLeft
  <2>5. \/ StepsLeft(g) = 3 * (Len(Fields[of[g]]) + 1 - at[g]) - 1
        \/ StepsLeft(g) = 3 * (Len(Fields[of[g]]) + 1 - at[g])
    BY <1>2 DEF StepsLeft
  <2> HIDE DEF later
  <2> QED BY <2>3, <2>4, <2>5 DEF Shrinks
<1>3. CASE ~building[g]
  <2>1. pc'[g] = "idle"
    BY <1>3 DEF Answer, Goto, Inv, CachesTypeOK
  <2>2. StepsLeft(g)' = 0
    BY <2>1 DEF StepsLeft
  <2>3. StepsLeft(g) \in {1, 2}
    BY <1>3 DEF StepsLeft
  <2> QED BY <2>2, <2>3 DEF Shrinks
<1> QED BY <1>2, <1>3

LEMMA StepShrinks ==
  ASSUME Inv, NEW g \in Goroutines, Step(g)
  PROVE  Shrinks(g)
<1> DEFINE n == Len(Fields[of[g]])
<1>1. of[g] \in StructTypes /\ at[g] \in Nat /\ building[g] \in BOOLEAN /\ n \in Nat
  BY Locals, LengthType
<1>2. building[g] => at[g] \in 1..(n + 1)
  BY DEF Inv, GoroutineOK, Partial
<1>3. pc[g] = "scan" => building[g]
  BY DEF Inv, GoroutineOK
<1>4. CASE LoadTable(g)
  <2>1. StepsLeft(g) = 3 * n + 2
    BY <1>4 DEF LoadTable, StepsLeft
  <2>2. CASE fieldLookupCache[of[g]] # NoTable
    <3>1. pc'[g] = "idle"
      BY <1>4, <2>2 DEF LoadTable, Return, Goto, Inv, CachesTypeOK
    <3>2. StepsLeft(g)' = 0
      BY <3>1 DEF StepsLeft
    <3> QED BY <1>1, <2>1, <3>2 DEF Shrinks
  <2>3. CASE fieldLookupCache[of[g]] = NoTable
    <3>1. pc'[g] = "scan" /\ at'[g] = 1 /\ of' = of
      BY <1>4, <2>3 DEF LoadTable, Goto, Inv, CachesTypeOK
    <3>2. StepsLeft(g)' = 3 * n + 1
      BY <1>1, <3>1 DEF StepsLeft
    <3> QED BY <1>1, <2>1, <3>2 DEF Shrinks
  <2> QED BY <2>2, <2>3
<1>5. CASE SkipField(g)
  <2>1. /\ pc[g] = "scan" /\ at[g] <= n
        /\ pc' = pc /\ of' = of /\ at'[g] = at[g] + 1
    BY <1>5 DEF SkipField, Scanning, Inv, CachesTypeOK
  <2> DEFINE later == 3 * (n - at[g])
  <2>2. later \in Nat /\ 3 * (n + 1 - at[g]) = later + 3
    BY <1>1, <2>1, ThreeLess
  <2>3. StepsLeft(g) = 3 * (n + 1 - at[g]) + 1
    BY <2>1 DEF StepsLeft
  <2>4. StepsLeft(g)' = 3 * (n + 1 - at'[g]) + 1
    BY <2>1 DEF StepsLeft
  <2>5. 3 * (n + 1 - at'[g]) = later
    BY <1>1, <2>1
  <2> HIDE DEF later
  <2> QED BY <2>2, <2>3, <2>4, <2>5 DEF Shrinks
<1>6. CASE AskAboutField(g)
  <2>1. /\ pc[g] = "scan" /\ at[g] <= n /\ building[g]
        /\ pc'[g] = "loadFact" /\ of' = of /\ at' = at /\ building' = building
    BY <1>3, <1>6 DEF AskAboutField, Scanning, Goto, Inv, CachesTypeOK
  <2>2. StepsLeft(g) = 3 * (n + 1 - at[g]) + 1 /\ StepsLeft(g)' = 3 * (n + 1 - at[g])
    BY <1>1, <2>1 DEF StepsLeft
  <2> QED BY <1>1, <2>1, <2>2 DEF Shrinks
<1>7. CASE LoadOrStore(g)
  <2>1. pc[g] = "scan" /\ at[g] > n /\ pc'[g] = "idle"
    BY <1>7 DEF LoadOrStore, Return, Goto, Inv, CachesTypeOK
  <2>2. at[g] = n + 1
    BY <1>1, <1>2, <1>3, <2>1
  <2>3. StepsLeft(g) = 1 /\ StepsLeft(g)' = 0
    BY <1>1, <2>1, <2>2 DEF StepsLeft
  <2> QED BY <2>3 DEF Shrinks
<1>8. CASE LoadFact(g)
  <2>1. pc[g] = "loadFact" /\ of' = of
    BY <1>8 DEF LoadFact
  <2>2. CASE facts[asked[g]] # Unknown
    BY <1>8, <2>1, <2>2, AnswerShrinks DEF LoadFact
  <2>3. CASE facts[asked[g]] = Unknown
    <3>1. pc'[g] = "storeFact" /\ at' = at /\ building' = building
      BY <1>8, <2>3 DEF LoadFact, Goto, Inv, CachesTypeOK
    <3>2. CASE building[g]
      <4>1. /\ StepsLeft(g) = 3 * (n + 1 - at[g])
            /\ StepsLeft(g)' = 3 * (n + 1 - at[g]) - 1
        BY <1>1, <2>1, <3>1, <3>2 DEF StepsLeft
      <4>2. at[g] <= n
        BY <2>1, <3>2 DEF Inv, GoroutineOK, AsksForField
      <4> QED BY <1>1, <4>1, <4>2 DEF Shrinks
    <3>3. CASE ~building[g]
      <4>1. StepsLeft(g) = 2 /\ StepsLeft(g)' = 1
        BY <2>1, <3>1, <3>3 DEF StepsLeft
      <4> QED BY <4>1 DEF Shrinks
    <3> QED BY <3>2, <3>3
  <2> QED BY <2>2, <2>3
<1>9. CASE StoreFact(g)
  BY <1>9, AnswerShrinks DEF StoreFact
<1> QED BY <1>4, <1>5, <1>6, <1>7, <1>8, <1>9 DEF Step

\* A step of another goroutine does not move a call.
LEMMA OthersStand ==
  ASSUME Inv, NEW g \in Goroutines, NEW h \in Goroutines \ {g},
         \/ \E s \in StructTypes : LookupFieldTable(g, s)
         \/ \E q \in Questions : Ask(g, q)
         \/ Step(g)
  PROVE  pc'[h] = pc[h] /\ at'[h] = at[h]
<1> USE DEF Inv, CachesTypeOK, Goto, Return
<1>1. CASE \E s \in StructTypes : LookupFieldTable(g, s)
  BY <1>1 DEF LookupFieldTable
<1>2. CASE \E q \in Questions : Ask(g, q)
  BY <1>2 DEF Ask
<1>3. CASE LoadTable(g)
  BY <1>3 DEF LoadTable
<1>4. CASE SkipField(g)
  BY <1>4 DEF SkipField
<1>5. CASE AskAboutField(g)
  BY <1>5 DEF AskAboutField
<1>6. CASE LoadOrStore(g)
  BY <1>6 DEF LoadOrStore
<1>7. CASE LoadFact(g)
  BY <1>7 DEF LoadFact, Answer, AddEntry
<1>8. CASE StoreFact(g)
  BY <1>8 DEF StoreFact, Answer, AddEntry
<1> QED BY <1>1, <1>2, <1>3, <1>4, <1>5, <1>6, <1>7, <1>8 DEF Step

\* LoadOrStore (field_cache.go:111) does not try again: a call is over after at
\* most 3n + 2 steps of its own for a type of n fields, whatever others do.
THEOREM CallsAreWaitFree == Spec => WaitFree
<1> DEFINE Moves(g) == pc[g] # "idle" => \/ UNCHANGED <<pc[g], at[g]>>
                                         \/ Shrinks(g)
<1>1. ASSUME Inv, [Next]_vars, NEW g \in Goroutines
      PROVE  Moves(g)
  <2>1. CASE UNCHANGED vars
    BY <2>1 DEF vars, locals
  <2>2. CASE Next
    <3>1. PICK h \in Goroutines : \/ \E s \in StructTypes : LookupFieldTable(h, s)
                                  \/ \E q \in Questions : Ask(h, q)
                                  \/ Step(h)
      BY <2>2 DEF Next
    <3>2. CASE h # g
      BY <1>1, <3>1, <3>2, OthersStand
    <3>3. CASE h = g /\ Step(g)
      BY <1>1, <3>3, StepShrinks
    <3>4. CASE h = g /\ ~Step(g)
      BY <3>1, <3>4 DEF LookupFieldTable, Ask
    <3> QED BY <3>2, <3>3, <3>4, <3>1
  <2> QED BY <1>1, <2>1, <2>2
<1>2. Inv /\ [Next]_vars => [\A g \in Goroutines : Moves(g)]_vars
  BY <1>1
<1> QED BY <1>2, Invariance, PTL DEF Spec, WaitFree, Shrinks
===============================================================================
