------------------------------- MODULE MCDecoder -------------------------------
(***************************************************************************)
(* Model-checking instance of Decoder: query targets that between them     *)
(* exercise every kind of place, and for each target every document of     *)
(* its shape over one scalar value, null, lists of up to two elements and  *)
(* members that may be absent, together with some documents that do not    *)
(* fit.  __typename, when it is asked for, is the first member.            *)
(***************************************************************************)
EXTENDS DecoderProperties, JSONText, MCShapes

ScalarTypes == <<"Int8", "Int64", "Uint8", "Uint64", "Float", "Bool", "Number", "Time", "PtrInt8",
                 "PtrPtrInt8", "PtrTime", "String">>

-----------------------------------------------------------------------------
(* Types. *)

MCTypes == [
  String |-> Leaf("string"), Raw |-> Leaf("raw"), OMap |-> Leaf("omap"),
  PtrString |-> PtrTo("String"), Strings |-> SliceOf("String"), Grid |-> SliceOf("Strings"),
  \* interface Character, by embedded struct and fragments that share a field
  Base |-> Struct(<<Field("id", "String")>>),
  Human |-> Struct(<<Field("name", "String"), Field("home", "PtrString")>>),
  Droid |-> Struct(<<Field("name", "String"), Field("meta", "Raw")>>),
  Character |-> Struct(<<Field("__typename", "String"), Embedded("Base"),
                         Fragment("Human", "Human"), Fragment("Droid", "Droid")>>),
  Characters |-> SliceOf("Character"),
  \* nested objects, pointers, and a field that is decoded raw
  Person |-> Struct(<<Field("name", "String"), Field("boss", "PtrPerson"),
                      ScalarField("meta", "Raw")>>),
  PtrPerson |-> PtrTo("Person"), People |-> SliceOf("PtrPerson"),
  \* wrappers, directly and behind a pointer
  Texts |-> Wrapper("Strings"), Text |-> Wrapper("String"), PtrText |-> PtrTo("Text"),
  Wrapped |-> Struct(<<Field("texts", "Texts"), Field("text", "PtrText")>>),
  \* lists of ordered maps
  OMaps |-> SliceOf("OMap"),
  \* an ordered map as an object with a fragment
  HumanPart |-> Struct(<<Field("home", "String")>>), PtrHumanPart |-> PtrTo("HumanPart"),
  \* an object with fragments that has another such object as a member
  Ship |-> Struct(<<Field("__typename", "String"), Field("captain", "Character"),
                    Fragment("Cruiser", "Base"), Fragment("Frigate", "Base")>>),
  \* lists of wrappers
  ListOfTexts |-> SliceOf("Texts"),
  \* a list with a list inside of its template, and a list of maps
  Post |-> Struct(<<Field("title", "String"), Field("tags", "Strings")>>),
  Posts |-> SliceOf("Post"), Map |-> Leaf("map"), Maps |-> SliceOf("Map"),
  \* __typename is asked for behind the fragments
  Named |-> Struct(<<Fragment("Human", "Human"), Fragment("Droid", "Droid"),
                     Field("__typename", "String")>>),
  \* scalars: integers narrower than ParseInt's width and as wide, and the rest
  Int8 |-> Number("int", 3), Int64 |-> Number("int", WideBits),
  Uint8 |-> Number("uint", 3), Uint64 |-> Number("uint", WideBits),
  Float |-> Leaf("float"), Bool |-> Leaf("bool"), Number |-> Leaf("number"),
  Time |-> Leaf("custom"), PtrInt8 |-> PtrTo("Int8"), PtrPtrInt8 |-> PtrTo("PtrInt8"),
  PtrTime |-> PtrTo("Time"),
  Scalars |-> Struct([i \in DOMAIN ScalarTypes |-> Field(ScalarTypes[i], ScalarTypes[i])]),
  \* tags with everything a selection may have, and no tag at all
  Account |-> Struct(<<Plain("UserName", "String"), [Plain("secret", "String") EXCEPT !.exported = FALSE],
                       Tagged(Selection("best", "friend", <<>>), "String"),
                       Tagged(Selection("", "friend", <<"@", "skip", "(", "if", ":", "$", "x", ")">>), "String"),
                       Field("renamed", "Login"), Tagged(FragmentOn("Human"), "PtrHumanPart")>>),
  Login |-> Called(Selection("", "login", <<>>), Leaf("string"))]

-----------------------------------------------------------------------------
(* Documents. *)

\* Objects with the members `first`, then for each <<name, docs>> of `rest` a
\* member with one of the docs, or none.
RECURSIVE Members(_)
Members(rest) ==
  IF rest = <<>> THEN {<<>>}
  ELSE LET more == Members(Tail(rest))
       IN more \cup {<<[k |-> Head(rest)[1], d |-> d]>> \o m : d \in Head(rest)[2], m \in more}
Objects(first, rest) == {Obj(first \o m) : m \in Members(rest)}

Lists(docs, n) == {Arr(s) : s \in UNION {[1..k -> docs] : k \in 0..n}}

HumanDocs(first) == Objects(first, <<<<"id", {S}>>, <<"name", {S, Null}>>, <<"home", {S, Null}>>>>)
DroidDocs(first) == Objects(first, <<<<"name", {S}>>, <<"meta", {S, Null, Obj(<<>>)}>>, <<"id", {S}>>>>)
CharacterDocs ==
  HumanDocs(Typename("Human")) \cup DroidDocs(Typename("Droid"))
  \cup HumanDocs(<<>>) \cup DroidDocs(<<>>)
CharactersDocs ==
  Lists({d \in HumanDocs(Typename("Human")) \cup DroidDocs(Typename("Droid")) :
           Len(d.m) = 3 /\ \A i \in DOMAIN d.m : d.m[i].d # Null}, 2)

Bosses == Objects(<<>>, <<<<"name", {S}>>, <<"boss", {Null, Obj(<<>>)}>>>>)
PersonDocs == Objects(<<>>, <<<<"meta", {Null, S, Obj(<<>>), Arr(<<S>>)}>>,
                              <<"boss", Bosses \cup {Null}>>, <<"name", {S, Null}>>>>)
PeopleDocs == Lists(Bosses \cup {Null}, 2)

GridDocs == Lists(Lists({S, Null}, 1), 2)
WrappedDocs == Objects(<<>>, <<<<"texts", Lists({S, Null}, 2)>>, <<"text", {S}>>>>)

OMapDocs == Objects(Typename("Human"),
                    <<<<"name", {S, Null}>>, <<"boss", Bosses \cup {Null}>>, <<"home", {S}>>>>)
OMapsDocs == Lists(Objects(<<>>, <<<<"name", {S}>>>>), 2)

PostsDocs ==
  Lists({Obj(title \o <<[k |-> "tags", d |-> tags]>>) :
           title \in Members(<<<<"title", {S}>>>>), tags \in Lists({S}, 2)}, 2)
MapsDocs == {Arr(<<>>), Arr(<<Obj(<<>>)>>), Arr(<<S>>)}

\* One scalar for one field: integers at the limits of every width and next to them.
Limits == UNION {{-(2^b) - 1, -(2^b), 2^b - 1, 2^b} : b \in {2, 3, WideBits - 1, WideBits}} \cup {0}
ScalarDocs == {Num(n) : n \in Limits} \cup {[Num(1) EXCEPT !.j = "frac"], S, True, Null}
ScalarsDocs ==
  {Obj(<<[k |-> name, d |-> d]>>) : name \in ToSet(ScalarTypes), d \in ScalarDocs}
  \ {Obj(<<[k |-> "Number", d |-> S]>>)}

AccountDocs ==
  Objects(<<>>, <<<<"username", {S}>>, <<"best", {S}>>, <<"friend", {S}>>, <<"login", {S}>>>>)
  \cup {Obj(<<[k |-> name, d |-> S]>>) : name \in {"userName", "secret", "renamed", "home", "id"}}

\* Documents that fit no target: an unknown member, and values of other shapes.
Misfits == {Obj(<<[k |-> "unknown", d |-> S]>>), Arr(<<Obj(<<>>), S>>), Arr(<<Arr(<<S>>), S>>), S, Null}

-----------------------------------------------------------------------------
(* Targets: the memory before decoding. *)

\* A character whose embedded id is set.
TemplateCharacter == [Zero("Character") EXCEPT !.c[2].c[1].v = <<"template">>]

WrappedTarget == <<[Zero("Wrapped") EXCEPT !.c[2].to = 2], Zero("Text")>>

\* [][2]any{{"__typename", ""}, {"name", ""}, {"boss", &Person{}},
\*          {"... on Human", &HumanPart{}}}
OMapTarget ==
  <<Ref("OMap", 2),
    Pairs(<<<<"__typename">>, <<"name">>, <<"boss">>, FragmentOn("Human")>>,
          <<Zero("String"), Zero("String"), Ref("PtrPerson", 3), Ref("PtrHumanPart", 4)>>),
    Zero("Person"), Zero("HumanPart")>>

\* [][][2]any{{{"name", ""}}}
OMapsTarget ==
  SliceWith("OMaps", <<Ref("OMap", 2)>>)
  \o <<Pairs(<<<<"name">>>>, <<Zero("String")>>)>>

\* []Post{{Tags: []string{"tag"}}}
PostsTarget ==
  SliceWith("Posts",
            <<[Zero("Post") EXCEPT
                 !.c[2] = [Ref("Strings", 2) EXCEPT !.c = <<[Zero("String") EXCEPT !.v = <<"tag">>]>>]]>>)
  \o <<Empty(ArrayType)>>

\* With a fragment behind a pointer that is set.
AccountTarget == <<[Zero("Account") EXCEPT !.c[6].to = 2], Zero("HumanPart")>>

For(memories, docs) ==
  {[memory |-> memory, doc |-> doc, toks |-> Tokens(doc)] : memory \in memories, doc \in docs}

\* Targets that are reused or shaped as the documentation shows.
MCInputs ==
  For({Blank("Character")}, CharacterDocs \cup Misfits)
  \cup For({Blank("Characters"), SliceWith("Characters", <<TemplateCharacter>>)},
           CharactersDocs \cup Misfits)
  \cup For({SliceWith("Characters", <<TemplateCharacter, TemplateCharacter>>)}, {Arr(<<>>), Null})
  \cup For({Blank("Person")}, PersonDocs \cup Misfits)
  \cup For({Blank("People")}, PeopleDocs \cup Misfits)
  \cup For({Blank("Grid")}, GridDocs \cup Misfits)
  \cup For({WrappedTarget}, WrappedDocs \cup Misfits)
  \cup For({OMapTarget}, OMapDocs)
  \cup For({OMapsTarget}, OMapsDocs)
  \cup For({PostsTarget}, PostsDocs)
  \cup For({Blank("Maps")}, MapsDocs)
  \cup For({Blank("Scalars")}, ScalarsDocs)
  \cup For({Blank("Account"), AccountTarget}, AccountDocs)

-----------------------------------------------------------------------------
(* Inputs that the runs MCDecoder*.cfg single out. *)

\* An object whose __typename is followed by a member with a __typename of its own.
NestedTypenameInputs ==
  For({Blank("Ship")},
      Objects(Typename("Cruiser"),
              <<<<"captain", {Obj(Typename("Human")), Obj(<<>>)}>>, <<"id", {S}>>>>))

\* An object whose __typename is behind a member, as the target asks for them.
LateTypenameInputs ==
  For({Blank("Named")},
      {Obj(m \o Typename("Human")) : m \in Members(<<<<"name", {S, Null}>>, <<"home", {S}>>>>)})

\* [][][2]any{{{"boss", [][2]any{{"name", ""}}}}}: a template that refers to
\* another ordered map.
NestedTemplateInputs ==
  For({SliceWith("OMaps", <<Ref("OMap", 2)>>)
       \o <<Pairs(<<<<"boss">>>>, <<Ref("OMap", 3)>>),
            Pairs(<<<<"name">>>>, <<Zero("String")>>)>>},
      Lists({Obj(<<[k |-> "boss", d |-> b]>>) : b \in Objects(<<>>, <<<<"name", {S}>>>>)}, 2))

\* []Wrapper[[]string]
WrapperListInputs == For({Blank("ListOfTexts")}, Lists(Lists({S}, 1), 2))
=================================================================================
