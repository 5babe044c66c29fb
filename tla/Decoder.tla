-------------------------------- MODULE Decoder --------------------------------
(***************************************************************************)
(* The response decoder (internal/decode): one JSON value, token by token, *)
(* into a Go target that may hold fragments, embedded structs, pointers,   *)
(* template slices, ordered maps and wrappers.  One action per kind of     *)
(* token decodeLoop dispatches on.                                         *)
(*                                                                         *)
(* A document is a record: j is "str", "bool", "num" or "frac" (module     *)
(* FastUnmarshal), "null", "obj" or "arr"; v and n the content of a scalar;*)
(* m the members, [k, d] pairs for an object.  Its tokens are what the     *)
(* tokenizer of encoding/json delivers: t is the kind of token, k the name *)
(* of a key; a token that starts a value carries the document d and its    *)
(* length n in tokens, which is what the tokenizer's own Decode consumes;  *)
(* open holds the containers that are open after the token.  Cut is the    *)
(* input ending, or becoming malformed, at any point.                      *)
(***************************************************************************)
EXTENDS FastUnmarshal, FieldLookup, FiniteSets

CONSTANTS
  Inputs,      \* the decodings to run, each [memory, doc, toks]; the target is object 1
  MaxTokens,   \* bound on the tokens of a document
  MaxStacks    \* bound on the stacks that are in use together

\* The containers that are open after i tokens of a text, innermost last.
Open(text, i) == IF i = 0 THEN <<>> ELSE text[i].open

\* The tokens of one value: containers are closed in the order they are opened,
\* a key is in an object and has a value, and n counts to the end of a value.
StartsValue(tok) == tok.t \in {"scalar", "{", "["}
DelimOf(d) == IF d.j = "obj" THEN "{" ELSE "["
ClosingDelim(d) == IF d.j = "obj" THEN "}" ELSE "]"
IsStep(tok, before) ==
  CASE tok.t \in {"{", "["} -> tok.t = DelimOf(tok.d) /\ tok.open = Append(before, tok.d)
    [] tok.t \in {"}", "]"} -> /\ before # <<>> /\ tok.t = ClosingDelim(Last(before))
                              /\ tok.open = Front(before)
    [] tok.t = "key" -> before # <<>> /\ DelimOf(Last(before)) = "{" /\ tok.open = before
    [] OTHER -> tok.t = "scalar" /\ tok.open = before
IsText(text) ==
  /\ Len(text) \in 1..MaxTokens
  /\ \A i \in 1..Len(text) :
       /\ text[i].open \in Seq(Range([k \in 1..Len(text) |-> text[k].d]))
       /\ IsStep(text[i], Open(text, i - 1))
       /\ text[i].open = <<>> <=> i = Len(text)
       /\ text[i].t = "key" => StartsValue(text[i + 1])
       /\ StartsValue(text[i]) =>
            /\ text[i].n \in 1..(Len(text) - i + 1)
            /\ Open(text, i + text[i].n - 1) = Open(text, i - 1)

ASSUME InputsOK == \A i \in Inputs : IsText(i.toks)
ASSUME BoundsOK == MaxTokens \in Nat /\ MaxStacks \in Nat \ {0}

VARIABLES
  mem,              \* the memory: the target and all it refers to
  vs,               \* d.vs.entries, each [stack, fragType]; born is a history field
  parseState,       \* d.parseState
  currentTypename,  \* d.currentTypename
  currentKey,       \* d.currentKey
  result,           \* "decoding", "ok", "error", "cut" (bad input) or "panic"
  toks,             \* the input, as tokens
  pos,              \* tokens consumed
  input             \* history: the member of Inputs being decoded

decoderVars == <<mem, vs, parseState, currentTypename, currentKey, result>>
vars == <<decoderVars, toks, pos, input>>

TypenameField == "__typename"

\* Decode: one stack, with the target; it is not a fragment.
Init ==
  /\ input \in Inputs
  /\ mem = input.memory
  /\ toks = input.toks
  /\ pos = 0
  /\ vs = <<[stack |-> <<Object(1)>>, fragType |-> <<>>, born |-> 1]>>
  /\ parseState = <<>>
  /\ currentTypename = ""
  /\ currentKey = ""
  /\ result = "decoding"

-----------------------------------------------------------------------------
(* The value stacks. *)

Top(e) == e.stack[Len(e.stack)]
Tops == [i \in DOMAIN vs |-> Top(vs[i])]
\* Mutant: a stack whose target has no such field gets no placeholder.
PushFound(locs) ==
  [i \in DOMAIN vs |->
     IF locs[i] = NoLoc THEN vs[i] ELSE [vs[i] EXCEPT !.stack = Append(@, locs[i])]]

Push(locs) == [i \in DOMAIN vs |-> [vs[i] EXCEPT !.stack = Append(@, locs[i])]]
\* Mutant: a stack that becomes empty stays in the list.
PopAllKeepEmpty(es) == [i \in DOMAIN es |-> [es[i] EXCEPT !.stack = Front(@)]]

\* popAll: the stacks that are not empty after it stay, in their order.
NonEmpty(es) ==
  LET kept[n \in 0..Len(es)] ==
        CASE n = 0 -> <<>>
          [] n > 0 /\ es[n].stack = <<>> -> kept[n - 1]
          [] OTHER -> Append(kept[n - 1], es[n])
  IN kept[Len(es)]
PopAll(es) == NonEmpty([i \in DOMAIN es |-> [es[i] EXCEPT !.stack = Front(@)]])

State == IF parseState = <<>> THEN "none" ELSE Last(parseState)
Looping == result = "decoding" /\ vs # <<>>
NextTok == toks[pos + 1]
Peek == IF Looping /\ pos < Len(toks) THEN NextTok.t ELSE "nothing"

-----------------------------------------------------------------------------
(* Scalars. *)

\* decodeScalarValue, into the tops of es: the stacks are tried in order, and an
\* error leaves what was already written.
StoreInAll(m, es, d, raw) ==
  LET into(acc, e) == IF ~acc.ok \/ Top(e) = NoLoc THEN acc
                      ELSE unmarshalValue(acc.m, Top(e), d, raw)
  IN FoldLeft(into, [m |-> m, ok |-> TRUE], es)
ScalarValue(m, es, tok, raw) ==
  LET end == StoreInAll(m, es, tok.d, raw)
  IN /\ raw \/ tok.t = "scalar"
     /\ currentTypename' = IF currentKey' = TypenameField /\ ~raw /\ tok.d.j = "str"
                           THEN tok.d.v ELSE currentTypename
     /\ mem' = end.m
     /\ IF end.ok THEN vs' = PopAll(es) /\ UNCHANGED result
                  ELSE result' = "error" /\ UNCHANGED vs
     /\ UNCHANGED parseState

-----------------------------------------------------------------------------
(* Objects. *)

\* A nil pointer that is the target of an object or array gets a pointee; a nil
\* pointer inside an interface does not.
InitNil(m, l) ==
  IF Kind(m, l) = "ptr" /\ ~IsInterface(m, l) /\ At(m, l).to = 0 THEN New(m, l) ELSE m

InitNils(m, locs) == FoldLeft(InitNil, m, locs)

\* The parts of a value that are fragments or embedded structs, with the type
\* condition of a fragment.
Targets(tags, embedded) ==
  SelectSeq([i \in DOMAIN tags |-> [index |-> i, fragment |-> FromTag(tags[i])]],
            LAMBDA t : t.fragment.ok \/ embedded[t.index])
StructTargets ==
  [ty \in StructTypes |->
     Targets([i \in DOMAIN Types[ty].fields |-> Types[ty].fields[i].tag],
             [i \in DOMAIN Types[ty].fields |-> Types[ty].fields[i].anon])]
KeyTargets(keys) == Targets(keys, [i \in DOMAIN keys |-> FALSE])

\* The fragments and embedded structs of the value at l.
PartsAt(targets, l) ==
  [j \in DOMAIN targets |-> [place |-> Child(l, targets[j].index),
                             fragType |-> targets[j].fragment.typename]]
FragmentsAt(m, u) ==
  CASE Kind(m, u) = "struct" -> PartsAt(StructTargets[At(m, u).ty], u)
    [] Kind(m, u) = "omap" /\ At(m, u).to # 0 ->
         PartsAt(KeyTargets(m[At(m, u).to].v), Object(At(m, u).to))
    [] OTHER -> <<>>

\* Breadth first, from the tops of es: n rounds of the frontier's loop, each of
\* which searches the next part; what is found there comes last.
Discovered(m, es) ==
  LET frontier[n \in 0..MaxStacks] ==
        IF n = 0 THEN [i \in DOMAIN es |-> [place |-> Top(es[i]), fragType |-> es[i].fragType]]
        ELSE LET known == frontier[n - 1]
             IN IF n > Len(known) THEN known
                ELSE known \o FragmentsAt(m, UnwrapToConcreteValue(m, known[n].place))
  IN frontier[MaxStacks]

\* addStack, for what is discovered beyond the tops.
NewStack(part) ==
  [stack |-> <<part.place>>, fragType |-> part.fragType, born |-> Len(parseState) + 1]

\* decodeObjectStart.  Nothing is left to search if there are at most MaxStacks.
ObjectStart(m, es, tok) ==
  /\ tok.t = "{"
  /\ parseState' = Append(parseState, "{")
  /\ mem' = InitNils(m, [i \in DOMAIN es |-> Top(es[i])])
  /\ LET parts == Discovered(mem', es)
     IN \E n \in Len(es)..MaxStacks :
          /\ n = Len(parts)
          /\ vs' = [i \in 1..n |-> IF i <= Len(es) THEN es[i] ELSE NewStack(parts[i])]
  /\ UNCHANGED <<currentTypename, result>>

-----------------------------------------------------------------------------
(* Arrays. *)

\* Mutant: the template of an ordered map is not copied.
CopyTemplateShared(m, x) == [m |-> m, x |-> x]

\* isOrderedMap, and copyTemplate with copyOrderedMap: an ordered map gets a
\* backing array of its own, holding the same values; anything else is copied
\* as it is.  Result: the memory and the copy.
CopyTemplate(m, x) ==
  IF Types[x.ty].kind = "omap" /\ x.to # 0
  THEN [m |-> Append(m, m[x.to]), x |-> [x EXCEPT !.to = Len(m) + 1]]
  ELSE [m |-> m, x |-> x]

\* decodeArrayStart: every slice is reset to its template, a zero element if it
\* has none; more than one element is an error.
MaxTemplateSliceSize == 1
TemplateOf(v) == IF v.c = <<>> THEN Zero(Types[v.ty].elem) ELSE Head(v.c)

\* Mutant: the template stays in the caller's array.
ResetAtInPlace(m, u) ==
  CASE Kind(m, u) # "slice" -> [m |-> m, ok |-> TRUE]
    [] Kind(m, u) = "slice" /\ Len(At(m, u).c) > MaxTemplateSliceSize -> [m |-> m, ok |-> FALSE]
    [] OTHER -> [m |-> Put(m, u, [At(m, u) EXCEPT !.c = <<TemplateOf(At(m, u))>>]), ok |-> TRUE]

\* The template is in a new array, reflect.MakeSlice.
ResetAt(m, u) ==
  CASE Kind(m, u) # "slice" -> [m |-> m, ok |-> TRUE]
    [] Kind(m, u) = "slice" /\ Len(At(m, u).c) > MaxTemplateSliceSize -> [m |-> m, ok |-> FALSE]
    [] OTHER -> [m |-> Put(m, u, [At(m, u) EXCEPT !.c = <<TemplateOf(At(m, u))>>, !.to = 0]),
                 ok |-> TRUE]
ResetSlice(acc, l) ==
  LET m == InitNil(acc.m, l)
  IN IF acc.ok THEN ResetAt(m, UnwrapToConcreteValue(m, l)) ELSE acc

ResetSlices(m, es) ==
  FoldLeft(ResetSlice, [m |-> m, ok |-> TRUE], [i \in DOMAIN es |-> Top(es[i])])

ArrayStart(m, es, tok) ==
  LET end == ResetSlices(m, es)
  IN /\ tok.t = "["
     /\ mem' = end.m
     /\ IF end.ok
        THEN vs' = es /\ parseState' = Append(parseState, "[") /\ UNCHANGED result
        ELSE result' = "error" /\ UNCHANGED <<vs, parseState>>
     /\ UNCHANGED currentTypename

\* Mutant: the last element is dropped, where the template would be if it were
\* not kept at the front.
PopLastElement(m, l) ==
  LET u == UnwrapToConcreteValue(m, l)
  IN IF Kind(m, u) = "slice" THEN Put(m, u, [At(m, u) EXCEPT !.c = Front(@)]) ELSE m

\* popLeftArrayTemplates: drop the template from every slice.
PopTemplate(m, l) ==
  LET u == UnwrapToConcreteValue(m, l)
  IN IF Kind(m, u) = "slice" THEN Put(m, u, [At(m, u) EXCEPT !.c = Tail(@)]) ELSE m
popLeftArrayTemplates(m, locs) == FoldLeft(PopTemplate, m, locs)

\* decodeArrayValue for one stack: a copy of the template is appended to the
\* slice, seen through a wrapper, and its place is where the element goes.
\* v.Index(0) panics on a slice that has no template; a map as template is an error.
ListPlace(m, l) ==
  LET w == UnwrapValueField(m, l)
  IN IF w # NoLoc THEN w ELSE UnwrapToConcreteValue(m, l)
AppendCopy(acc, s, v, copy) ==
  [acc EXCEPT !.m = Put(copy.m, s, [v EXCEPT !.c = Append(@, copy.x), !.to = 0]),
              !.places = Append(@, Child(s, Len(v.c) + 1)),
              !.exists = TRUE]
IsMap(x) == Types[x.ty].kind = "map"
AppendTo(acc, s) ==
  CASE Kind(acc.m, s) # "slice" -> [acc EXCEPT !.places = Append(@, NoLoc)]
    [] Kind(acc.m, s) = "slice" /\ At(acc.m, s).c = <<>> -> [acc EXCEPT !.end = "panic"]
    [] Kind(acc.m, s) = "slice" /\ At(acc.m, s).c # <<>> /\ IsMap(At(acc.m, s).c[1]) ->
         [acc EXCEPT !.end = "error"]
    [] OTHER -> AppendCopy(acc, s, At(acc.m, s), CopyTemplate(acc.m, At(acc.m, s).c[1]))
AppendElement(acc, l) == IF acc.end # "" THEN acc ELSE AppendTo(acc, ListPlace(acc.m, l))
AppendElements(m, locs) ==
  FoldLeft(AppendElement, [m |-> m, places |-> <<>>, exists |-> FALSE, end |-> ""], locs)

-----------------------------------------------------------------------------
(* One action per kind of token in decodeLoop. *)

\* A value, for the stacks es with its place on top, from memory m.
Value(m, es, tok, raw) ==
  \/ ScalarValue(m, es, tok, raw)
  \/ ~raw /\ ObjectStart(m, es, tok)
  \/ ~raw /\ ArrayStart(m, es, tok)

\* An error abandons the decoder: of its state only the memory is still seen.
Advance(n) == pos' = IF result' = "decoding" THEN pos + n ELSE pos
Stop(how) == result' = how /\ UNCHANGED <<mem, vs, parseState, currentTypename>>

\* The value of the document itself.
RootValue ==
  /\ Looping /\ State = "none" /\ Peek \in {"scalar", "{", "["}
  /\ UNCHANGED <<toks, input, currentKey>>
  /\ Value(mem, vs, NextTok, FALSE)
  /\ Advance(1)

NoField == [loc |-> NoLoc, raw |-> FALSE, scalar |-> FALSE]

\* fieldByGraphQLName, with the field seen through a wrapper.
FoundField(l, scalar) == [loc |-> l, raw |-> Kind(mem, l) = "raw", scalar |-> scalar]
ThroughWrapper(l, inside) == IF inside # NoLoc THEN inside ELSE l
FieldAt(l, i, fields) ==
  IF i = 0 THEN NoField
  ELSE FoundField(ThroughWrapper(Child(l, i), UnwrapValueField(mem, Child(l, i))), fields[i].scalar)
FieldByGraphQLName(l, ty, key) ==
  FieldAt(l, lookup(mem, l, lookupFieldTable[ty], key), Types[ty].fields)

\* orderedMapValueByGraphQLName
ValueAt(array, i) ==
  IF i = 0 THEN NoField ELSE [NoField EXCEPT !.loc = Child(Object(array), i)]
OrderedMapValue(array, key) ==
  IF array = 0 THEN NoField ELSE ValueAt(array, orderedMapKey(mem[array].v, key))

\* findFieldsForKey for one stack.
FieldIn(u, key) ==
  CASE Kind(mem, u) = "struct" -> FieldByGraphQLName(u, At(mem, u).ty, key)
    [] Kind(mem, u) = "omap" -> OrderedMapValue(At(mem, u).to, key)
    [] OTHER -> NoField
FindField(l, key) == FieldIn(UnwrapToConcreteValue(mem, l), key)

\* Mutant: __typename does not select a fragment.
EveryFragmentMatches(e) == TRUE

\* An entry's fragment is the one the current object's __typename selects, as
\* far as the decoder knows.
FragmentMatch(e) ==
  e.fragType = <<>> \/ currentTypename = "" \/ e.fragType = <<currentTypename>>

Exists(field) == field.loc # NoLoc

\* selectAndPushFields: the fields found in fragments on other types give way if
\* a place that is not in one has the field too.
PushSelected(found) ==
  LET matchExists == \E i \in DOMAIN vs : Exists(found[i]) /\ FragmentMatch(vs[i])
  IN Push([i \in DOMAIN vs |-> IF matchExists /\ ~FragmentMatch(vs[i]) THEN NoLoc
                              ELSE found[i].loc])

\* readNextToken: a json.RawMessage or a scalar tag anywhere takes the value whole.
TakesRaw(found) == \E i \in DOMAIN found : Exists(found[i]) /\ (found[i].raw \/ found[i].scalar)

\* decodeObjectKey and the member's value, given the field each stack has for it.
MemberValue(found, value) ==
  IF \E i \in DOMAIN vs : Exists(found[i])
  THEN /\ Value(mem, PushSelected(found), value, TakesRaw(found))
       /\ Advance(1 + (IF TakesRaw(found) THEN value.n ELSE 1))
  ELSE Stop("error") /\ UNCHANGED pos

ObjectKey ==
  /\ State = "{" /\ Peek = "key"
  /\ currentKey' = NextTok.k
  /\ UNCHANGED <<toks, input>>
  /\ MemberValue([i \in DOMAIN vs |-> FindField(Top(vs[i]), NextTok.k)], toks[pos + 2])

\* decodeArrayValue and the element's value, given what appending to each stack
\* has come to.
ElementValue(end) ==
  CASE end.end = "panic" -> Stop("panic")
    [] end.end # "panic" /\ (end.end = "error" \/ ~end.exists) -> Stop("error")
    [] OTHER -> Value(end.m, Push(end.places), NextTok, FALSE)

ArrayValue ==
  /\ State = "[" /\ Peek \in {"scalar", "{", "["}
  /\ UNCHANGED <<toks, input, currentKey>>
  /\ ElementValue(AppendElements(mem, Tops))
  /\ Advance(1)

\* handleObjectEnd.
ObjectEnd ==
  /\ State = "{" /\ Peek = "}"
  /\ pos' = pos + 1
  /\ vs' = PopAll(vs)
  /\ parseState' = Front(parseState)
  /\ UNCHANGED <<mem, currentTypename, currentKey, result, toks, input>>

\* handleArrayEnd.
ArrayEnd ==
  /\ State = "[" /\ Peek = "]"
  /\ pos' = pos + 1
  /\ mem' = popLeftArrayTemplates(mem, Tops)
  /\ vs' = PopAll(vs)
  /\ parseState' = Front(parseState)
  /\ UNCHANGED <<currentTypename, currentKey, result, toks, input>>

\* The input ends or is malformed here: the decoder is abandoned.
Cut ==
  /\ Looping
  /\ Stop("cut")
  /\ UNCHANGED <<currentKey, toks, pos, input>>

\* decodeLoop is over and UnmarshalGraphQL finds nothing more to read.
Finish ==
  /\ result = "decoding" /\ vs = <<>> /\ pos = Len(toks)
  /\ result' = "ok"
  /\ UNCHANGED <<mem, vs, parseState, currentTypename, currentKey, toks, pos, input>>

Next == RootValue \/ ObjectKey \/ ArrayValue \/ ObjectEnd \/ ArrayEnd \/ Cut \/ Finish

Spec == Init /\ [][Next]_vars

-----------------------------------------------------------------------------
(* Properties. *)

\* "The decoder must not panic for any input" (fuzz_test.go:51).
NoPanic == result # "panic"

\* The containers that are open in the input, innermost last.
OpenDocs == Open(toks, pos)

\* What module DecodeStack keeps of the stacks and of the open containers.
Heights(es) == [i \in DOMAIN es |-> [height |-> Len(es[i].stack), born |-> es[i].born]]
Delimiters(docs) == [i \in DOMAIN docs |-> DelimOf(docs[i])]

\* The decoder follows the stack discipline of module DecodeStack.
Discipline == INSTANCE DecodeStack WITH
  Stacks <- 1..MaxStacks,
  Root <- 1,
  MaxTokens <- MaxTokens,
  entries <- Heights(vs),
  outcome <- IF result \in {"decoding", "ok"} THEN result ELSE "error",
  nest <- Delimiters(OpenDocs),
  whole <- pos > 0 /\ OpenDocs = <<>>,
  left <- Len(toks) - pos

FollowsDiscipline == Discipline!Safety
=================================================================================
