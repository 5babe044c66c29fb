---------------------------- MODULE DecodeReference ----------------------------
(***************************************************************************)
(* What the decoder promises (internal/decode/doc.go and its tests), by    *)
(* recursion over the target and the document, with no tokens and no       *)
(* stacks:                                                                 *)
(*   - every member of an object goes to each field that asks for it, in   *)
(*     the object's struct, its embedded structs and its fragments;        *)
(*   - among these, fragments on another type than the object's own        *)
(*     __typename give way to the places that are not;                     *)
(*   - every list element starts as a copy of the list's template;         *)
(*   - a wrapper is transparent as a field; null clears its place.         *)
(* A target is a tree (GoValues!Tree); Bad stands for a document that has  *)
(* no place to go, which the decoder must refuse.                          *)
(***************************************************************************)
EXTENDS GoTrees, Ident, ScalarMeaning

-----------------------------------------------------------------------------
(* What a declaration means to a GraphQL server: the text of a selection    *)
(* begins with the name the response will use, or with "...".               *)

Words(tag) == SelectSeq(tag, LAMBDA symbol : symbol # " ")
Untagged(tag) == tag = <<"no tag">>
IsFragmentText(tag) == Words(tag) # <<>> /\ Words(tag)[1] = "..."
Condition(tag) == IF Len(Words(tag)) < 3 THEN {} ELSE {Words(tag)[3]}

\* Does a member called `name` belong to a part that is declared so?  An untagged
\* field is asked for under its own name in another case; a type may have a name
\* of its own, in place of the tag.
Text(type, part) == IF "graphQLType" \in DOMAIN type THEN type.graphQLType ELSE part.tag
AnswersText(text, part, name) ==
  /\ part.exported
  /\ IF Untagged(text) THEN EqualFold(part.go, name)
                        ELSE Words(text) # <<>> /\ Words(text)[1] = name
Answers(part, name) == AnswersText(Text(Types[part.ty], part), part, name)

-----------------------------------------------------------------------------

Bad == [ty |-> "bad", v |-> <<>>, nil |-> TRUE, c |-> <<>>]

RECURSIVE HasBad(_)
HasBad(t) == t = Bad \/ \E i \in DOMAIN t.c : HasBad(t.c[i])

ZeroTree(ty) == Tree(<<>>, Zero(ty))

\* The typename the object itself gives, "" if it gives none.
OwnTypename(d) ==
  LET given == {i \in DOMAIN d.m : d.m[i].k = "__typename" /\ d.m[i].d.j = "str"}
  IN IF d.j # "obj" \/ given = {} THEN "" ELSE d.m[CHOOSE i \in given : TRUE].d.v

\* The places in target t that a member of an object can go to by name: where
\* they are and which fragments they are inside of.  Nothing is reached through
\* a nil pointer.
KeyPart(tag, ty) == [go |-> "", tag |-> tag, anon |-> FALSE, exported |-> TRUE, ty |-> ty]
Parts(type, t) ==
  CASE type.kind = "struct" -> type.fields
    [] type.kind = "omap" -> [i \in DOMAIN t.c |-> KeyPart(t.v[i], t.c[i].ty)]
    [] type.kind = "ptr" /\ ~t.nil -> <<KeyPart(<<"...">>, t.c[1].ty)>>
    [] OTHER -> <<>>

\* What a pointer refers to is a part that has no name of its own, as a fragment.
RECURSIVE Places(_, _, _, _)
PlacesAt(part, x, name, path, on) ==
  CASE IsFragmentText(part.tag) -> Places(x, name, path, on \cup Condition(part.tag))
    [] ~IsFragmentText(part.tag) /\ Answers(part, name) -> {[path |-> path, on |-> on]}
    [] ~IsFragmentText(part.tag) /\ ~Answers(part, name) /\ part.anon -> Places(x, name, path, on)
    [] OTHER -> {}
PlacesOf(parts, t, name, path, on) ==
  UNION {PlacesAt(parts[i], t.c[i], name, Append(path, i), on) : i \in DOMAIN parts}
Places(t, name, path, on) == PlacesOf(Parts(Types[t.ty], t), t, name, path, on)

\* Those that receive a member: not the ones in fragments on another type than
\* the object's own, if there are others.
Selected(places, typename) ==
  LET matching == {p \in places : typename = "" \/ p.on \subseteq {typename}}
  IN IF matching # {} THEN matching ELSE places
Receivers(t, name, typename) == Selected(Places(t, name, <<>>, {}), typename)

\* The place behind a wrapper, seen through pointers that are not nil.
RECURSIVE WrappedAt(_, _)
WrappedIn(type, t, path) ==
  CASE type.kind = "ptr" /\ ~t.nil -> WrappedAt(t.c[1], Append(path, 1))
    [] type.kind = "struct" /\ type.wrapped # 0 -> {Append(path, type.wrapped)}
    [] OTHER -> {}
WrappedAt(t, path) == WrappedIn(Types[t.ty], t, path)
BehindWrapper(path, wrapped) == IF wrapped = {} THEN path ELSE CHOOSE p \in wrapped : TRUE

RECURSIVE Decoded(_, _)
\* t with d at the path, and in each of the places.
StoredAt(t, path, d) == PutIn(t, path, Decoded(Within(t, path), d))
RECURSIVE StoredIn(_, _, _)
StoredInNext(t, p, places, d) ==
  StoredIn(StoredAt(t, BehindWrapper(p.path, WrappedAt(Within(t, p.path), p.path)), d),
           places \ {p}, d)
StoredIn(t, places, d) ==
  IF places = {} THEN t ELSE StoredInNext(t, CHOOSE p \in places : TRUE, places, d)

\* t with the members of an object of that type.
Member(t, receivers, d) == IF receivers = {} THEN Bad ELSE StoredIn(t, receivers, d)
RECURSIVE Filled(_, _, _)
Filled(t, members, typename) ==
  IF members = <<>> \/ HasBad(t) THEN t
  ELSE Filled(Member(t, Receivers(t, Head(members).k, typename), Head(members).d),
              Tail(members), typename)

Template(type, c) == IF c = <<>> THEN ZeroTree(type.elem) ELSE c[1]
Elements(docs, template) == [i \in DOMAIN docs |-> Decoded(template, docs[i])]
DecodedAs(type, t, d) ==
  CASE type.kind = "raw" -> [t EXCEPT !.v = <<d>>]
    [] d.j = "null" /\ type.kind # "raw" -> ZeroTree(t.ty)
    [] d.j # "null" /\ type.kind = "ptr" ->
         [t EXCEPT !.nil = FALSE, !.c = Elements(<<d>>, Template(type, t.c))]
    [] Fits(type, d) -> [t EXCEPT !.v = StoredAs(type.kind, d)]
    [] type.kind = "slice" /\ d.j = "arr" /\ Len(t.c) <= 1 ->
         [t EXCEPT !.c = Elements(d.m, Template(type, t.c))]
    [] type.kind \in {"struct", "omap"} /\ d.j = "obj" -> Filled(t, d.m, OwnTypename(d))
    [] OTHER -> Bad
Decoded(t, d) == DecodedAs(Types[t.ty], t, d)
=================================================================================
