----------------------------- MODULE MCRoundTrip -----------------------------
(***************************************************************************)
(* Model-checking instance of RoundTrip: a small schema, and for it the    *)
(* kinds of target the README shows, targets with a field named as a       *)
(* generator names it, and operations with options and variables.          *)
(***************************************************************************)
EXTENDS RoundTrip, MCShapes, TLC

-----------------------------------------------------------------------------
(* Fields, and the names a generator gives them in Go. *)

FieldNames == {"url", "ids", "ownerId", "ownerIds", "apiUrl", "urlName", "idName", "idsName",
               "idsId", "httpsId", "clientMutationId"}
GoNames == {"URL", "IDs", "OwnerID", "OwnerIDs", "APIURL", "URLName", "IDName", "IDsName",
            "IDsID", "HTTPSID", "ClientMutationID"}
Snake(words) == ToUpper(Join(Join2([i \in DOMAIN words |-> <<words[i]>>], <<"_">>)))
ASSUME FromCamelCase == GoNames = {ToMixedCaps(ParseLowerCamelCase(n)) : n \in FieldNames}
ASSUME FromSnakeCase ==
  GoNames = {ToMixedCaps(ParseScreamingSnakeCase(Snake(ParseLowerCamelCase(n)))) : n \in FieldNames}

-----------------------------------------------------------------------------
(* The schema. *)

Is(of) == [of |-> of, lists |-> 0, null |-> FALSE]
MaybeIs(of) == [of |-> of, lists |-> 0, null |-> TRUE]
ListIs(of, lists) == [of |-> of, lists |-> lists, null |-> FALSE]

MCSchema == [
  Query |-> [hero |-> MaybeIs("Character"), heroes |-> ListIs("Character", 1),
             found |-> ListIs("Result", 1), user |-> Is("User"), node |-> MaybeIs("Node"),
             nodes |-> ListIs("Node", 1), texts |-> ListIs("String", 1),
             grid |-> ListIs("Word", 2), id |-> Is("Word"), page |-> Is("Node")]
           @@ [name \in FieldNames |-> Is("Word")],
  Node |-> [id |-> Is("Word"), name |-> MaybeIs("String")],
  Character |-> [id |-> Is("Word"), name |-> Is("Word")],
  Human |-> [id |-> Is("Word"), name |-> Is("Word"), home |-> MaybeIs("Word")],
  Droid |-> [id |-> Is("Word"), name |-> Is("Word"), meta |-> Is("JSON")],
  Result |-> <<>>,
  User |-> [userName |-> Is("String"), age |-> MaybeIs("Int"), friend |-> Is("String"),
            boss |-> MaybeIs("User"), login |-> Is("Word"), posts |-> ListIs("Node", 1)]]
MCPossible == [Character |-> {"Human", "Droid"}, Result |-> {"Human", "Node"}]
MCScalarAnswers == [
  Word |-> {S}, String |-> {S, [S EXCEPT !.v = "y"]}, Int |-> {Num(0), Num(3)},
  JSON |-> {S, Null, Obj(<<>>), Arr(<<S>>)}]

-----------------------------------------------------------------------------
(* Targets. *)

Fixed == [
  String |-> Leaf("string"), Int |-> Number("int", 3), Raw |-> Leaf("raw"), OMap |-> Leaf("omap"),
  PtrInt |-> PtrTo("Int"), PtrString |-> PtrTo("String"), PtrPtrString |-> PtrTo("PtrString"),
  Strings |-> SliceOf("String"), Grid |-> SliceOf("Strings"),
  Base |-> Struct(<<Plain("ID", "String")>>),
  HumanPart |-> Struct(<<Plain("Name", "String"), Plain("Home", "PtrPtrString")>>),
  DroidPart |-> Struct(<<Plain("Name", "String"), ScalarField("meta", "Raw")>>),
  Character |-> Struct(<<Field("__typename", "String"), Embedded("Base"),
                         Fragment("Human", "HumanPart"), Fragment("Droid", "DroidPart")>>),
  PtrCharacter |-> PtrTo("Character"), Characters |-> SliceOf("Character"),

  Node |-> Struct(<<Plain("ID", "String"), Tagged(Selection("label", "name", <<>>), "PtrString")>>),
  PtrNode |-> PtrTo("Node"), Nodes |-> SliceOf("PtrNode"),
  Result |-> Struct(<<Field("__typename", "String"), Fragment("Human", "HumanPart"),
                      Fragment("Node", "Node")>>),
  Results |-> SliceOf("Result"),
  Login |-> Called(Selection("", "login", <<>>), Leaf("string")),
  Boss |-> Struct(<<Plain("UserName", "String")>>), PtrBoss |-> PtrTo("Boss"),
  User |-> Struct(<<Plain("UserName", "String"), Plain("Age", "PtrInt"),
                    Tagged(Selection("best", "friend", <<"@", "live">>), "String"),
                    Plain("Boss", "PtrBoss"), Plain("Renamed", "Login"),
                    Tagged(<<"-">>, "Base")>>),
  Texts |-> Wrapper("Strings"), Page |-> Wrapper("Base"), NodeList |-> Wrapper("Nodes"),
  OMaps |-> SliceOf("OMap"),
  HeroQuery |-> Struct(<<Plain("Hero", "PtrCharacter")>>),
  HeroesQuery |-> Struct(<<Plain("Heroes", "Characters")>>),
  FoundQuery |-> Struct(<<Plain("Found", "Results")>>),
  UserQuery |-> Struct(<<Plain("User", "User")>>),
  WrapperQuery |->
    Struct(<<Plain("Texts", "Texts"), Plain("Page", "Page"), Plain("Nodes", "NodeList")>>),
  GridQuery |-> Struct(<<Plain("Grid", "Grid"), Plain("ID", "String")>>),
  UnknownQuery |-> Struct(<<Plain("Unknown", "String")>>),
  MapQuery |-> Struct(<<Plain("ID", "Map")>>), Map |-> Leaf("map"),
  OMapsQuery |-> Struct(<<Plain("Nodes", "OMaps")>>)]

MCTypes == Fixed @@ [name \in GoNames |-> Struct(<<Plain(name, "String")>>)]

\* [][2]any{{"a: node(...)", &Node{}}, {"b: node(...)", &Node{}}}
TwoNodes == <<Ref("OMap", 2),
              Pairs(<<Selection("a", "node", <<>>), Selection("b", "node", <<>>)>>,
                    <<Ref("PtrNode", 3), Ref("PtrNode", 4)>>),
              Zero("Node"), Zero("Node")>>

\* struct{Nodes [][][2]any}{{{{"name", ""}}}}
NodeMaps == <<[Zero("OMapsQuery") EXCEPT !.c[1].c = <<Ref("OMap", 2)>>],
              Pairs(<<<<"name">>>>, <<Zero("String")>>)>>

\* The same with two scalars, which writeOrderedMapQuery does not separate.
FusedMaps ==
  [NodeMaps EXCEPT ![2] = Pairs(<<<<"id">>, <<"name">>>>, <<Zero("String"), Zero("String")>>)]

-----------------------------------------------------------------------------
(* Operations. *)

NoVariables == [of |-> "nil", fields |-> <<>>]
Query(memory) ==
  [memory |-> memory, type |-> "query", name |-> "", options |-> <<>>, variables |-> NoVariables,
   fits |-> TRUE]

OfKind(kind, name) == [kind |-> kind, name |-> name, graphQLType |-> ""]
Elem(kind, type) == [kind |-> kind, name |-> "", graphQLType |-> "", elem |-> type]
Variable(json, type, server) == [exported |-> TRUE, json |-> json, type |-> type, server |-> server]
Variables ==
  <<Variable("first", OfKind("int", "int"), "Int"),
    Variable("after", Elem("ptr", OfKind("string", "string")), "String"),
    Variable("ids", Elem("slice", Elem("slice", OfKind("string", "ID"))), "ID"),
    Variable("review", [OfKind("struct", "reviewInput") EXCEPT !.graphQLType = "ReviewInput"],
             "ReviewInput"),
    Variable("afterall", Elem("ptr", Elem("slice", OfKind("bool", "bool"))), "Boolean"),
    [Variable("", OfKind("int", "int"), "Int") EXCEPT !.exported = FALSE]>>
Option(type, symbols) == [type |-> type, text |-> symbols]
Options == <<Option("operation_name", <<"Old">>), Option("operation_directive", <<"@", "cached">>),
             Option("operation_name", <<"Find">>),
             Option("operation_directive", <<"@", "ttl", "(", "s", ":", " ", "1", ")">>)>>

Operations ==
  {[memory |-> Blank("GridQuery"), type |-> type, name |-> IF options = <<>> THEN "" ELSE "Find",
    options |-> options, fits |-> TRUE, variables |-> [of |-> of, fields |-> fields]] :
     type \in {"query", "mutation"}, options \in {<<>>, Options}, of \in {"map", "struct"},
     fields \in {SubSeq(Variables, i, j) : i \in 1..2, j \in {2, 5}}}
  \cup {[Query(Blank("GridQuery")) EXCEPT !.variables = [of |-> "struct", fields |-> Variables]]}
NilVariable ==
  [of |-> "map", fields |-> <<Variables[1], Variable("after", OfKind("nil", ""), "String")>>]

MCRequests ==
  {Query(Blank(ty)) : ty \in {"HeroQuery", "HeroesQuery", "FoundQuery", "UserQuery", "WrapperQuery"}
                             \cup GoNames}
  \cup {Query(TwoNodes), Query(NodeMaps)}
  \cup Operations
  \cup {[Query(memory) EXCEPT !.fits = FALSE] :
           memory \in {Blank("UnknownQuery"), Blank("MapQuery"), FusedMaps}}
  \cup {[Query(Blank("GridQuery")) EXCEPT !.fits = FALSE, !.options = <<Option("other", <<>>)>>],
        [Query(Blank("GridQuery")) EXCEPT !.fits = FALSE, !.variables = NilVariable]}
===============================================================================
