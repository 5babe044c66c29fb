------------------------------- MODULE TypeCaches -------------------------------
(***************************************************************************)
(* The sync.Maps in which the decoder keeps what it has found out about    *)
(* types (internal/decode/field_cache.go, fast_unmarshal.go,               *)
(* internal/reflectutil/unwrap.go), used by goroutines at the same time.   *)
(*                                                                         *)
(* fieldLookupCache maps a struct type to a pointer to its lookup table: a *)
(* goroutine that finds none builds one, field by field, and publishes it  *)
(* with LoadOrStore.  The other three caches (jsonUnmarshalerCache,        *)
(* wrappedFieldIndexCache, implementsGraphQLTypeCache) map a type to a     *)
(* value, and are filled with Load, compute, Store.  They work alike: a    *)
(* question is one type asked about in one of them.  Building a table asks *)
(* a question for each exported field.                                     *)
(***************************************************************************)
EXTENDS Naturals, Sequences

CONSTANTS
  Goroutines,
  StructTypes,
  Fields,     \* the fields of each struct type: [question, exported, fragment]
  Questions,
  Fact,       \* what reflect says
  MaxCalls    \* calls by one goroutine

Unknown == "unknown"   \* sync.Map.Load found nothing

ASSUME FieldsOK ==
  Fields \in [StructTypes -> Seq([question : Questions, exported : BOOLEAN, fragment : BOOLEAN])]
Answers == {Fact[q] : q \in Questions}

ASSUME FactOK == Unknown \notin Answers
ASSUME MaxCallsOK == MaxCalls \in Nat

\* A table is known by who made it, and in which call.
Tables == Goroutines \X (1..MaxCalls)
NoTable == <<>>

VARIABLES
  fieldLookupCache,  \* struct type -> table or NoTable
  facts,             \* question -> answer or Unknown: the other three caches
  tables,            \* the memory: the entries of every table
  pc,                \* per goroutine: "idle", "load", "scan", "loadFact", "storeFact"
  of,                \* the struct type it looks up
  building,          \* whether it asks a question for a table, or for itself
  asked,             \* the question it asks
  at,                \* the field it scans
  calls,             \* its calls so far
  returned,          \* history: tables given to callers, <<type, table>>
  told               \* history: answers given to callers, <<question, answer>>

caches == <<fieldLookupCache, facts>>
locals == <<of, building, asked, at, calls>>
vars == <<caches, tables, pc, locals, returned, told>>

Init ==
  /\ fieldLookupCache = [s \in StructTypes |-> NoTable]
  /\ facts = [q \in Questions |-> Unknown]
  /\ tables = [id \in Tables |-> <<>>]
  /\ pc = [g \in Goroutines |-> "idle"]
  /\ \E s \in StructTypes : of = [g \in Goroutines |-> s]
  /\ building = [g \in Goroutines |-> FALSE]
  /\ \E q \in Questions : asked = [g \in Goroutines |-> q]
  /\ at = [g \in Goroutines |-> 1]
  /\ calls = [g \in Goroutines |-> 0]
  /\ returned = {} /\ told = {}

Own(g) == <<g, calls[g]>>          \* the table of this call
Goto(g, place) == pc' = [pc EXCEPT ![g] = place]

-----------------------------------------------------------------------------
(* lookupFieldTable *)

\* A goroutine decodes into a struct of type s.
LookupFieldTable(g, s) ==
  /\ pc[g] = "idle" /\ calls[g] < MaxCalls
  /\ Goto(g, "load")
  /\ of' = [of EXCEPT ![g] = s]
  /\ calls' = [calls EXCEPT ![g] = @ + 1]
  /\ UNCHANGED <<caches, tables, building, asked, at, returned, told>>

Return(g, id) == Goto(g, "idle") /\ returned' = returned \cup {<<of[g], id>>}

\* Mutant: the table is published as soon as it is allocated.
LoadTableAndPublish(g) ==
  /\ pc[g] = "load"
  /\ IF fieldLookupCache[of[g]] # NoTable
     THEN Return(g, fieldLookupCache[of[g]]) /\ UNCHANGED <<fieldLookupCache, building, at>>
     ELSE /\ Goto(g, "scan")
          /\ fieldLookupCache' = [fieldLookupCache EXCEPT ![of[g]] = Own(g)]
          /\ building' = [building EXCEPT ![g] = TRUE]
          /\ at' = [at EXCEPT ![g] = 1]
          /\ UNCHANGED returned
  /\ UNCHANGED <<facts, tables, of, asked, calls, told>>

\* fieldLookupCache.Load, and an empty table if there is none.
LoadTable(g) ==
  /\ pc[g] = "load"
  /\ IF fieldLookupCache[of[g]] # NoTable
     THEN Return(g, fieldLookupCache[of[g]]) /\ UNCHANGED <<building, at>>
     ELSE /\ Goto(g, "scan")
          /\ building' = [building EXCEPT ![g] = TRUE]
          /\ at' = [at EXCEPT ![g] = 1]
          /\ UNCHANGED returned
  /\ UNCHANGED <<caches, tables, of, asked, calls, told>>

FieldAt(g) == Fields[of[g]][at[g]]
Scanning(g) == pc[g] = "scan" /\ at[g] <= Len(Fields[of[g]])

\* buildFieldLookupTable, one field: unexported ones are passed over.
SkipField(g) ==
  /\ Scanning(g) /\ ~FieldAt(g).exported
  /\ at' = [at EXCEPT ![g] = @ + 1]
  /\ UNCHANGED <<caches, tables, pc, of, building, asked, calls, returned, told>>

\* An exported one: does its type implement GraphQLType?
AskAboutField(g) ==
  /\ Scanning(g) /\ FieldAt(g).exported
  /\ Goto(g, "loadFact")
  /\ asked' = [asked EXCEPT ![g] = FieldAt(g).question]
  /\ UNCHANGED <<caches, tables, of, building, at, calls, returned, told>>

\* With the answer it becomes an entry, unless it is a fragment.
AddEntry(g, answer) ==
  /\ tables' = IF FieldAt(g).fragment THEN tables
               ELSE [tables EXCEPT ![Own(g)] =
                       Append(@, [fieldIndex |-> at[g], hasGraphQLType |-> answer])]
  /\ at' = [at EXCEPT ![g] = @ + 1]
  /\ Goto(g, "scan")
  /\ UNCHANGED <<building, told>>

\* Mutant: Store in place of LoadOrStore.
StoreTable(g) ==
  /\ pc[g] = "scan" /\ at[g] > Len(Fields[of[g]])
  /\ fieldLookupCache' = [fieldLookupCache EXCEPT ![of[g]] = Own(g)]
  /\ Return(g, Own(g))
  /\ building' = [building EXCEPT ![g] = FALSE]
  /\ UNCHANGED <<facts, tables, of, asked, at, calls, told>>

\* Mutant: LoadOrStore, and the caller's own table is returned.
LoadOrStoreReturningOwn(g) ==
  /\ pc[g] = "scan" /\ at[g] > Len(Fields[of[g]])
  /\ fieldLookupCache' = [fieldLookupCache EXCEPT ![of[g]] = IF @ = NoTable THEN Own(g) ELSE @]
  /\ Return(g, Own(g))
  /\ building' = [building EXCEPT ![g] = FALSE]
  /\ UNCHANGED <<facts, tables, of, asked, at, calls, told>>

\* Mutant: a loser tries again until it wins.
CompareAndSwapTable(g) ==
  /\ pc[g] = "scan" /\ at[g] > Len(Fields[of[g]])
  /\ IF fieldLookupCache[of[g]] = NoTable
     THEN /\ fieldLookupCache' = [fieldLookupCache EXCEPT ![of[g]] = Own(g)]
          /\ Return(g, Own(g))
          /\ building' = [building EXCEPT ![g] = FALSE]
          /\ UNCHANGED <<tables, at>>
     ELSE /\ tables' = [tables EXCEPT ![Own(g)] = <<>>]
          /\ at' = [at EXCEPT ![g] = 1]
          /\ UNCHANGED <<fieldLookupCache, pc, building, returned>>
  /\ UNCHANGED <<facts, of, asked, calls, told>>

\* LoadOrStore: the first table that gets here is everybody's.
LoadOrStore(g) ==
  /\ pc[g] = "scan" /\ at[g] > Len(Fields[of[g]])
  /\ fieldLookupCache' = [fieldLookupCache EXCEPT ![of[g]] = IF @ = NoTable THEN Own(g) ELSE @]
  /\ Return(g, fieldLookupCache'[of[g]])
  /\ building' = [building EXCEPT ![g] = FALSE]
  /\ UNCHANGED <<facts, tables, of, asked, at, calls, told>>

-----------------------------------------------------------------------------
(* The caches that hold values *)

\* A goroutine asks on its own: implementsJSONUnmarshaler for a scalar,
\* wrappedFieldIndex for a place, ImplementsGraphQLType for a name.
Ask(g, q) ==
  /\ pc[g] = "idle" /\ calls[g] < MaxCalls
  /\ Goto(g, "loadFact")
  /\ asked' = [asked EXCEPT ![g] = q]
  /\ calls' = [calls EXCEPT ![g] = @ + 1]
  /\ UNCHANGED <<caches, tables, of, building, at, returned, told>>

Answer(g, answer) ==
  IF building[g] THEN AddEntry(g, answer)
  ELSE /\ told' = told \cup {<<asked[g], answer>>}
       /\ Goto(g, "idle")
       /\ UNCHANGED <<tables, at, building>>

\* Mutant: what Load found is used whether it found something or not.
LoadFactUnchecked(g) ==
  /\ pc[g] = "loadFact"
  /\ Answer(g, facts[asked[g]])
  /\ UNCHANGED <<caches, of, asked, calls, returned>>

\* Load: a hit is the answer.
LoadFact(g) ==
  /\ pc[g] = "loadFact"
  /\ IF facts[asked[g]] # Unknown
     THEN Answer(g, facts[asked[g]])
     ELSE Goto(g, "storeFact") /\ UNCHANGED <<tables, at, building, told>>
  /\ UNCHANGED <<caches, of, asked, calls, returned>>

\* Otherwise reflect is asked, and the answer is stored over whatever is there.
StoreFact(g) ==
  /\ pc[g] = "storeFact"
  /\ facts' = [facts EXCEPT ![asked[g]] = Fact[asked[g]]]
  /\ Answer(g, Fact[asked[g]])
  /\ UNCHANGED <<fieldLookupCache, of, asked, calls, returned>>

-----------------------------------------------------------------------------
Step(g) ==
  \/ LoadTable(g) \/ SkipField(g) \/ AskAboutField(g) \/ LoadOrStore(g)
  \/ LoadFact(g) \/ StoreFact(g)

Next ==
  \E g \in Goroutines :
    \/ \E s \in StructTypes : LookupFieldTable(g, s)
    \/ \E q \in Questions : Ask(g, q)
    \/ Step(g)

\* A call is sequential code that never waits.
Fairness == \A g \in Goroutines : WF_vars(Step(g))

Spec == Init /\ [][Next]_vars /\ Fairness

-----------------------------------------------------------------------------
(* Properties. *)

Entry == [fieldIndex : Nat, hasGraphQLType : Answers]

\* The types of all this; in particular no answer is ever Unknown.
CachesTypeOK ==
  /\ fieldLookupCache \in [StructTypes -> Tables \cup {NoTable}]
  /\ facts \in [Questions -> Answers \cup {Unknown}]
  /\ tables \in [Tables -> Seq(Entry)]
  /\ pc \in [Goroutines -> {"idle", "load", "scan", "loadFact", "storeFact"}]
  /\ of \in [Goroutines -> StructTypes]
  /\ building \in [Goroutines -> BOOLEAN]
  /\ asked \in [Goroutines -> Questions]
  /\ at \in [Goroutines -> Nat]
  /\ calls \in [Goroutines -> 0..MaxCalls]
  /\ returned \subseteq StructTypes \X Tables
  /\ told \subseteq Questions \X Answers

\* The fields of s a key can name.
Named(s, i) == Fields[s][i].exported /\ ~Fields[s][i].fragment

\* A table for the first n fields of s: an entry for each that has a name, with
\* what is true of its type, in the order of declaration.
IsTable(entries, s, n) ==
  /\ \A k \in DOMAIN entries :
       /\ entries[k].fieldIndex \in 1..n
       /\ Named(s, entries[k].fieldIndex)
       /\ entries[k].hasGraphQLType = Fact[Fields[s][entries[k].fieldIndex].question]
  /\ \A k, m \in DOMAIN entries : k < m => entries[k].fieldIndex < entries[m].fieldIndex
  /\ \A i \in 1..n : Named(s, i) => \E k \in DOMAIN entries : entries[k].fieldIndex = i

\* Whatever a goroutine is given is right and complete, and so it stays: a table
\* is in use while others are built, lost, and published.
AnswersAreRight ==
  /\ \A r \in returned : IsTable(tables[r[2]], r[1], Len(Fields[r[1]]))
  /\ \A a \in told : a[2] = Fact[a[1]]

\* "concurrent first-decodes of the same type race harmlessly"
\* (field_cache.go:101): all of them get the same table, before and after.
OneTablePerType == \A r1, r2 \in returned : r1[1] = r2[1] => r1[2] = r2[2]

\* Nobody waits for another goroutine's table: every call returns.
EveryCallReturns == \A g \in Goroutines : pc[g] # "idle" ~> pc[g] = "idle"

\* The steps of its own a call has yet to take, at most: three for each field.
StepsLeft(g) ==
  LET fields == 3 * (Len(Fields[of[g]]) + 1 - at[g])
  IN CASE pc[g] = "idle" -> 0
       [] pc[g] = "load" -> 3 * Len(Fields[of[g]]) + 2
       [] pc[g] = "scan" -> fields + 1
       [] pc[g] = "loadFact" -> IF building[g] THEN fields ELSE 2
       [] pc[g] = "storeFact" -> IF building[g] THEN fields - 1 ELSE 1

\* LoadOrStore (field_cache.go:111) does not try again: a call is over after so
\* many steps of its own, however often it finds what others have stored.
WaitFree ==
  [][\A g \in Goroutines :
       pc[g] # "idle" => \/ UNCHANGED <<pc[g], at[g]>>
                         \/ StepsLeft(g)' \in 0..(StepsLeft(g) - 1)]_vars

\* The caches implement one answer per question.
Abstract == INSTANCE OneAnswer WITH table <- fieldLookupCache
ImplementsOneAnswer == Abstract!Spec
=================================================================================
