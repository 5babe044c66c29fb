------------------------------- MODULE OneAnswer -------------------------------
(***************************************************************************)
(* What the decoder may rely on when it asks about a type: every question  *)
(* has one answer, whoever asks, whenever, and however many ask at once.   *)
(* The lookup table of a struct type is built by whoever needs it; the     *)
(* first one that is answered with is everybody's from then on.            *)
(***************************************************************************)
CONSTANTS
  StructTypes,  \* types that are looked up in
  Questions,    \* questions about types that are remembered by value
  Fact,         \* their answers
  Tables,       \* the tables that may be built
  NoTable

VARIABLES
  table,     \* the table of each struct type, NoTable before the first answer
  returned,  \* <<s, id>>: somebody was given table id for struct type s
  told       \* <<q, a>>: somebody was given answer a to question q

vars == <<table, returned, told>>

Init == table = [s \in StructTypes |-> NoTable] /\ returned = {} /\ told = {}

AnswerTable(s, id) ==
  /\ table[s] \in {NoTable, id}
  /\ table' = [table EXCEPT ![s] = id]
  /\ returned' = returned \cup {<<s, id>>}
  /\ UNCHANGED told

AnswerFact(q) == told' = told \cup {<<q, Fact[q]>>} /\ UNCHANGED <<table, returned>>

Next ==
  \/ \E s \in StructTypes, id \in Tables : AnswerTable(s, id)
  \/ \E q \in Questions : AnswerFact(q)

Spec == Init /\ [][Next]_vars
=================================================================================
