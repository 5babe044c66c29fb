----------------------------- MODULE QueryBuilder -----------------------------
(***************************************************************************)
(* How an operation is written from a target, its options and its          *)
(* variables (query.go, query_builder*.go, query_arguments.go).  The text  *)
(* is a sequence of symbols, like the tags it is made of (TagParser); the  *)
(* symbols Unsupported and Panic stand for the writer giving up there.     *)
(***************************************************************************)
EXTENDS FieldLookup, Integers

Unsupported == "unsupported type"
Panic == "panic"
Failed(text) == Unsupported \in ToSet(text) \/ Panic \in ToSet(text)

Braces(text) == <<"{">> \o text \o <<"}">>
Join2(texts, separator) ==
  FlattenSeq([i \in DOMAIN texts |-> IF i = 1 THEN texts[1] ELSE separator \o texts[i]])

-----------------------------------------------------------------------------
(* internal/reflectutil: an element that may not be there. *)

ElemSafe(m, l) == IF l = NoLoc \/ At(m, l).to = 0 THEN NoLoc ELSE Object(At(m, l).to)
FieldSafe(l, i) == IF l = NoLoc THEN NoLoc ELSE Child(l, i)
IndexSafe(m, l, i) == IF l = NoLoc \/ i \notin DOMAIN At(m, l).c THEN NoLoc ELSE Child(l, i)

-----------------------------------------------------------------------------
(* Selections. *)

\* The name the type of a list's elements gives itself.
ElementName(type) == IF type.kind = "slice" THEN NameOfType(type.elem) ELSE <<>>

\* processStructField: the text before the field's own selections, and whether it
\* is left out.  A type's own name comes before the tag.
Skipped == [skip |-> TRUE, inline |-> FALSE, name |-> <<>>]
Asked(name) == [skip |-> name = <<"-">>, inline |-> FALSE, name |-> name]
Inlined == [skip |-> FALSE, inline |-> TRUE, name |-> <<>>]
NamedByTag(f) ==
  CASE f.tag # NoTag -> Asked(f.tag)
    [] f.tag = NoTag /\ f.anon -> Inlined
    [] f.tag = NoTag /\ ~f.anon -> Asked(<<ToLowerCamelCase(ParseMixedCaps(f.go))>>)
NamedBy(f, typeHasName, name, elementName) ==
  CASE typeHasName -> IF name = <<>> THEN Skipped ELSE Asked(name)
    [] ~typeHasName /\ elementName # <<>> -> Asked(elementName)
    [] OTHER -> NamedByTag(f)
processStructField(m, f, l) ==
  NamedBy(f, ImplementsGraphQLType(f.ty), GetGraphQLType(m, l, f.ty), ElementName(Types[f.ty]))

RECURSIVE writeQuery(_, _, _, _)

\* writeStructFields
FieldText(m, f, l, asked) ==
  asked.name \o (IF f.scalar THEN <<>> ELSE writeQuery(m, f.ty, l, asked.inline))
TextOf(m, fields, l, asked, kept) ==
  LET text(i) == FieldText(m, fields[i], FieldSafe(l, i), asked[i])
  IN Join2([k \in DOMAIN kept |-> text(kept[k])], <<",">>)
AskedText(m, fields, l, asked) ==
  TextOf(m, fields, l, asked, InOrder({i \in DOMAIN fields : ~asked[i].skip}, Len(fields)))
writeStructFields(m, fields, l) ==
  AskedText(m, fields, l,
            [i \in DOMAIN fields |-> processStructField(m, fields[i], FieldSafe(l, i))])

\* Mutant: an embedded struct has braces of its own.
InBracesAlways(inline, text) == Braces(text)
InBraces(inline, text) == IF inline THEN text ELSE Braces(text)

\* writeStructQuery: a wrapper that has a value is its wrapped field.
writeStructQuery(m, type, l, inline) ==
  IF l # NoLoc /\ type.wrapped # 0
  THEN writeQuery(m, type.fields[type.wrapped].ty, Child(l, type.wrapped), inline)
  ELSE InBraces(inline, writeStructFields(m, type.fields, l))

\* writeOrderedMapQuery: no separators; an ordered map that is not there panics.
PairText(m, key, l) == key \o writeQuery(m, At(m, l).ty, l, FALSE)
PairsText(m, array) ==
  FlattenSeq([i \in DOMAIN m[array].c |-> PairText(m, m[array].v[i], Child(Object(array), i))])
writeOrderedMapQuery(m, l) ==
  CASE l = NoLoc -> <<Panic>>
    [] l # NoLoc /\ At(m, l).to = 0 -> Braces(<<>>)
    [] OTHER -> Braces(PairsText(m, At(m, l).to))

\* writeQuery: nothing for a scalar.
WriteAs(m, type, l, inline) ==
  CASE type.kind = "ptr" -> writeQuery(m, type.elem, ElemSafe(m, l), FALSE)
    [] type.kind = "struct" -> writeStructQuery(m, type, l, inline)
    [] type.kind = "slice" -> writeQuery(m, type.elem, IndexSafe(m, l, 1), FALSE)
    [] type.kind = "omap" -> writeOrderedMapQuery(m, l)
    [] type.kind = "map" -> <<Unsupported>>
    [] OTHER -> <<>>
writeQuery(m, ty, l, inline) == WriteAs(m, Types[ty], l, inline)

query(m) == writeQuery(m, m[1].ty, Object(1), FALSE)

-----------------------------------------------------------------------------
(* Variables.  A variable has a Go type: its kind, "ptr" and "slice" with   *)
(* an elem, the name of a defined type, and the name GetGraphQLType gives.  *)

Required == <<"!">>
If(condition, text) == IF condition THEN text ELSE <<>>

\* Mutant: a pointer is as required as what it refers to.
RECURSIVE writePointerAsRequired(_, _)
writePointerAsRequired(t, value) ==
  CASE t.graphQLType # "" -> <<t.graphQLType>> \o Required
    [] t.graphQLType = "" /\ t.kind = "ptr" -> writePointerAsRequired(t.elem, value)
    [] t.graphQLType = "" /\ t.kind # "ptr" -> <<t.name>> \o Required

ScalarName(t) ==
  CASE t.kind \in {"int", "uint"} -> "Int"
    [] t.kind = "float" -> "Float"
    [] t.kind = "bool" -> "Boolean"
    [] OTHER -> IF t.name = "string" THEN "String" ELSE t.name

\* writeArgumentType: a pointer is an optional type, and nil in a map has no type.
RECURSIVE writeArgumentType(_, _)
writeArgumentType(t, value) ==
  CASE t.kind = "nil" -> <<Panic>>
    [] t.graphQLType # "" -> <<t.graphQLType>> \o If(t.kind # "ptr", Required)
    [] t.graphQLType = "" /\ t.kind = "ptr" -> writeArgumentType(t.elem, FALSE)
    [] t.graphQLType = "" /\ t.kind = "slice" ->
         <<"[">> \o writeArgumentType(t.elem, TRUE) \o <<"]">> \o If(value, Required)
    [] t.graphQLType = "" /\ t.kind \notin {"nil", "ptr", "slice"} ->
         <<ScalarName(t)>> \o If(value, Required)

\* sort.Strings
Alphabet == "abcdefghijklmnopqrstuvwxyz"
Position(c) == CHOOSE i \in 1..Len(Alphabet) : Letter(Alphabet, i) = c
Precedes(a, b) ==
  LET differ == {i \in 1..Len(a) : i > Len(b) \/ Letter(a, i) # Letter(b, i)}
      first == Least(differ)
  IN IF differ = {} THEN TRUE
     ELSE first <= Len(b) /\ Position(Letter(a, first)) < Position(Letter(b, first))

\* What arguments are written for: every entry of a map, and of a struct the fields
\* that collectStructFieldsForArguments takes, which are exported and have a name in
\* their json tag ("" where there is none).
ArgumentFields(variables) ==
  IF variables.of = "map" THEN variables.fields
  ELSE SelectSeq(variables.fields, LAMBDA f : f.exported /\ f.json \notin {"", "-"})

\* Mutant: in the order in which they are met.
queryArgumentsUnsorted(variables) ==
  LET fields == ArgumentFields(variables)
  IN FlattenSeq([i \in DOMAIN fields |->
       <<"$", fields[i].json, ":">> \o writeArgumentType(fields[i].type, TRUE)])

\* queryArguments
queryArguments(variables) ==
  LET sorted == SortSeq(ArgumentFields(variables), LAMBDA f, g : Precedes(f.json, g.json))
  IN FlattenSeq([i \in DOMAIN sorted |->
       <<"$", sorted[i].json, ":">> \o writeArgumentType(sorted[i].type, TRUE)])

-----------------------------------------------------------------------------
(* Operations. *)

\* A struct has variables, a map only when it has entries.
hasVariables(variables) ==
  variables.of = "struct" \/ (variables.of = "map" /\ variables.fields # <<>>)

\* constructOptions and OperationDirectivesString.  An option is [type, text]: the
\* last name counts, and every directive.
OptionTypes == {"operation_name", "operation_directive"}
Texts(options, type) ==
  LET of == SelectSeq(options, LAMBDA o : o.type = type) IN [i \in DOMAIN of |-> of[i].text]
operationName(names) == IF names = <<>> THEN <<>> ELSE Last(names)
operationDirectives(directives) ==
  If(directives # <<>>, <<Space>> \o Join2(directives, <<Space>>) \o <<Space>>)

\* constructOperation, given its parts.
Operation(operationType, name, directives, arguments, selections) ==
  IF arguments = <<>> /\ name = <<>> /\ directives = <<>>
  THEN If(operationType # "query", <<operationType>>) \o selections
  ELSE <<operationType, Space>> \o name \o arguments \o operationDirectives(directives) \o selections
Arguments(variables) ==
  If(hasVariables(variables), <<"(">> \o queryArguments(variables) \o <<")">>)
constructOperation(operationType, m, variables, options) ==
  IF \E i \in DOMAIN options : options[i].type \notin OptionTypes THEN <<Unsupported>>
  ELSE Operation(operationType, operationName(Texts(options, "operation_name")),
                 Texts(options, "operation_directive"), Arguments(variables), query(m))
===============================================================================
