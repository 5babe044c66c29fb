----------------------------- MODULE GraphQLServer -----------------------------
(***************************************************************************)
(* A GraphQL server, as far as the client depends on one: it reads an      *)
(* operation, refuses one that is not valid for its schema, and answers a  *)
(* valid one with any document that fits what was asked.  External: the    *)
(* rules are GraphQL's, for the selections and types the client can write. *)
(*                                                                         *)
(* Schema gives each composite type its fields, [of, lists, null]: the     *)
(* named type, how many lists are around it, and whether null is allowed;  *)
(* Possible the object types an abstract type stands for; ScalarAnswers    *)
(* the documents of each scalar type; RootType the type of an operation.   *)
(***************************************************************************)
EXTENDS TagParser, FiniteSets

CONSTANTS Schema, Possible, ScalarAnswers, RootType, MaxListAnswer

Composite == DOMAIN Schema
TypesOf(type) == IF type \in DOMAIN Possible THEN Possible[type] ELSE {type}

-----------------------------------------------------------------------------
(* Reading: blanks and commas only separate, two names need something       *)
(* between them, and a string is one symbol.                                *)

Quote == "\""
Punctuators == {"{", "}", "(", ")", "[", "]", ":", "!", "$", "@", "...", Space, ",", Quote}
IsName(symbol) == symbol \notin Punctuators
\* Two names with nothing between them are read as another name.
Fused(text) == \E i \in 1..Len(text) - 1 : IsName(text[i]) /\ IsName(text[i + 1])

QuotesBefore(text, i) == Cardinality({j \in 1..i - 1 : text[j] = Quote})
Kept(text) == {i \in DOMAIN text : QuotesBefore(text, i) % 2 = 0 /\ text[i] \notin {Space, ","}}
Lexed(text) ==
  LET places == InOrder(Kept(text), Len(text)) IN [k \in DOMAIN places |-> text[places[k]]]

Symbol(s, i) == IF i \in DOMAIN s THEN s[i] ELSE "end of text"
NameAt(s, i) == i \in DOMAIN s /\ IsName(s[i])
\* The place where what opens at i is closed, 0 if it is not.
ClosedAt(s, i, open, close) ==
  LET number(symbol, j) == Cardinality({k \in i..j : s[k] = symbol})
  IN Least({j \in i..Len(s) : number(open, j) = number(close, j)})

AfterArguments(s, i) == IF Symbol(s, i) = "(" THEN ClosedAt(s, i, "(", ")") + 1 ELSE i
RECURSIVE AfterDirectives(_, _)
AfterDirectives(s, i) ==
  IF Symbol(s, i) = "@" THEN AfterDirectives(s, AfterArguments(s, i + 2)) ELSE i

\* A selection has a response name, and a field or the type of a fragment.
FieldSelection(name, field, sub) == [is |-> "field", name |-> name, of |-> field, sub |-> sub]
FragmentSelection(type, sub) == [is |-> "fragment", name |-> "", of |-> type, sub |-> sub]
Malformed == <<[is |-> "malformed", name |-> "", of |-> "", sub |-> <<>>]>>

RECURSIVE Selections(_, _, _)
\* The selections in the braces that open at i, and those from there on to last.
SetAt(s, i) == IF Symbol(s, i) # "{" THEN <<>>
               ELSE IF ClosedAt(s, i, "{", "}") <= i + 1 THEN Malformed
               ELSE Selections(s, i + 1, ClosedAt(s, i, "{", "}") - 1)
AfterSet(s, i) == IF Symbol(s, i) = "{" THEN ClosedAt(s, i, "{", "}") + 1 ELSE i
FieldFrom(s, name, at, i, last) ==
  <<FieldSelection(s[name], s[at], SetAt(s, i))>> \o Selections(s, AfterSet(s, i), last)
FragmentFrom(s, type, i, last) ==
  <<FragmentSelection(type, SetAt(s, i))>> \o Selections(s, AfterSet(s, i), last)
Selections(s, i, last) ==
  CASE i > last -> <<>>
    [] i <= last /\ NameAt(s, i) /\ Symbol(s, i + 1) = ":" /\ NameAt(s, i + 2) ->
         FieldFrom(s, i, i + 2, AfterDirectives(s, AfterArguments(s, i + 3)), last)
    [] i <= last /\ NameAt(s, i) /\ Symbol(s, i + 1) # ":" ->
         FieldFrom(s, i, i, AfterDirectives(s, AfterArguments(s, i + 1)), last)
    [] i <= last /\ s[i] = "..." /\ Symbol(s, i + 1) = "on" /\ NameAt(s, i + 2) ->
         FragmentFrom(s, s[i + 2], AfterDirectives(s, i + 3), last)
    [] i <= last /\ s[i] = "..." /\ Symbol(s, i + 1) \in {"{", "@"} ->
         FragmentFrom(s, "", AfterDirectives(s, i + 1), last)
    [] OTHER -> Malformed

\* An operation: its type, name, variables and directives, as written, and what
\* it selects.
Head3(s, name, arguments, set) ==
  [type |-> IF s[1] = "{" THEN "query" ELSE s[1],
   name |-> IF name < arguments THEN s[name] ELSE "",
   variables |-> SubSeq(s, arguments + 1, AfterArguments(s, arguments) - 2),
   directives |-> SubSeq(s, AfterArguments(s, arguments), set - 1),
   set |-> IF AfterSet(s, set) = Len(s) + 1 THEN SetAt(s, set) ELSE Malformed]
From(s, arguments) ==
  Head3(s, 2, arguments, IF Symbol(s, 1) = "{" THEN 1
                         ELSE AfterDirectives(s, AfterArguments(s, arguments)))
Parsed(s) == From(s, IF Symbol(s, 1) = "{" THEN 1 ELSE IF NameAt(s, 2) THEN 3 ELSE 2)
Read(text) == [Parsed(Lexed(text)) EXCEPT !.set = IF Fused(text) THEN Malformed ELSE @]

-----------------------------------------------------------------------------
(* Validity.                                                                *)

TypenameType == [of |-> "String", lists |-> 0, null |-> FALSE]
FieldsOf(type) == [__typename |-> TypenameType] @@ Schema[type]

\* CollectFields: the fields that are answered for an object of that type.
Applies(x, type) == x.of = "" \/ type \in TypesOf(x.of)
RECURSIVE Collected(_, _)
Collected(set, type) ==
  FlattenSeq([i \in DOMAIN set |->
    CASE set[i].is = "field" -> <<set[i]>>
      [] set[i].is # "field" /\ Applies(set[i], type) -> Collected(set[i].sub, type)
      [] OTHER -> <<>>])

\* One name, one field.
Agree(fields) ==
  \A i, j \in DOMAIN fields : fields[i].name = fields[j].name => fields[i].of = fields[j].of

RECURSIVE IsValid(_, _)
ValidField(x, types) ==
  /\ x.is = "field"
  /\ x.of \in DOMAIN types
  /\ IF types[x.of].of \in Composite THEN x.sub # <<>> /\ IsValid(x.sub, types[x.of].of)
                                    ELSE x.sub = <<>>
ValidFragment(x, on, type) ==
  /\ x.is = "fragment"
  /\ on \in Composite
  /\ TypesOf(on) \cap TypesOf(type) # {}
  /\ IsValid(x.sub, on)
IsValid(set, type) ==
  /\ set # <<>>
  /\ \A i \in DOMAIN set :
       \/ ValidField(set[i], FieldsOf(type))
       \/ ValidFragment(set[i], IF set[i].of = "" THEN type ELSE set[i].of, type)
  /\ \A object \in TypesOf(type) : Agree(Collected(set, object))

-----------------------------------------------------------------------------
(* Answers.                                                                 *)

Document(j, v, m) == [j |-> j, v |-> v, n |-> 0, m |-> m]
NullAnswer == Document("null", "", <<>>)

\* Fields with the same name are one member, with all they select.
MergedSub(fields, name) ==
  FlattenSeq([j \in DOMAIN fields |-> IF fields[j].name = name THEN fields[j].sub ELSE <<>>])
Merged(fields) ==
  LET first(i) == \A j \in 1..i - 1 : fields[j].name # fields[i].name
      firsts == InOrder({i \in DOMAIN fields : first(i)}, Len(fields))
  IN [k \in DOMAIN firsts |->
        [fields[firsts[k]] EXCEPT !.sub = MergedSub(fields, fields[firsts[k]].name)]]

RECURSIVE Values(_, _, _), MembersFor(_, _)
\* The documents for a value of that type, inside so many lists.
NonNull(type, lists, sub) ==
  CASE lists > 0 ->
         {Document("arr", "", docs) :
            docs \in UNION {[1..n -> Values(type, lists - 1, sub)] : n \in 0..MaxListAnswer}}
    [] lists = 0 /\ type.of \in Composite ->
         UNION {{Document("obj", "", m) : m \in MembersFor(Merged(Collected(sub, object)), object)} :
                  object \in TypesOf(type.of)}
    [] OTHER -> ScalarAnswers[type.of]
Values(type, lists, sub) ==
  NonNull(type, lists, sub) \cup (IF type.null THEN {NullAnswer} ELSE {})
ValueFor(x, object) ==
  IF x.of = "__typename" THEN {Document("str", object, <<>>)}
  ELSE Values(Schema[object][x.of], Schema[object][x.of].lists, x.sub)
MembersFor(fields, object) ==
  IF fields = <<>> THEN {<<>>}
  ELSE {<<[k |-> Head(fields).name, d |-> d]>> \o rest :
          d \in ValueFor(Head(fields), object), rest \in MembersFor(Tail(fields), object)}

\* The data of a response, for a valid operation.
DataFor(set) == Values([of |-> RootType, lists |-> 0, null |-> FALSE], 0, set)
===============================================================================
