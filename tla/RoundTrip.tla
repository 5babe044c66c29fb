------------------------------- MODULE RoundTrip -------------------------------
(***************************************************************************)
(* A whole operation: it is written from the target and the variables      *)
(* (QueryBuilder), a server answers it (GraphQLServer), and the answer is  *)
(* decoded into the same target (Decoder).  Construction and decoding read *)
(* the same declarations in two places of the code; what one asks for the  *)
(* other must find.  The answer arrives whole: module Decoder has the      *)
(* inputs that are cut or do not fit.                                      *)
(***************************************************************************)
EXTENDS DecoderProperties, JSONText, QueryBuilder, GraphQLServer

\* The operations to run: the target and what the caller passes with it, and
\* whether all of that is declared as the schema and the client ask for.
CONSTANT Requests   \* of [memory, type, name, options, variables, fits]

VARIABLES
  request,   \* the member of Requests
  text       \* the operation that was written, <<>> before

tripVars == <<request, text>>

TripInit ==
  /\ request \in Requests
  /\ text = <<>>
  /\ mem = request.memory
  /\ input = [memory |-> request.memory, doc |-> NullAnswer, toks |-> <<>>]
  /\ toks = <<>> /\ pos = 0 /\ vs = <<>> /\ parseState = <<>>
  /\ currentTypename = "" /\ currentKey = ""
  /\ result = "constructing"

\* ConstructQuery and ConstructMutation.
Construct ==
  /\ result = "constructing"
  /\ text' = constructOperation(request.type, request.memory, request.variables, request.options)
  /\ result' = IF Failed(text') THEN "not constructed" ELSE "sent"
  /\ UNCHANGED <<request, mem, vs, parseState, currentTypename, currentKey, toks, pos, input>>

\* The server answers a valid operation; UnmarshalGraphQL gets the data.
Answer ==
  /\ result = "sent"
  /\ IsValid(Read(text).set, RootType)
  /\ \E data \in DataFor(Read(text).set) :
       /\ input' = [input EXCEPT !.doc = data, !.toks = Tokens(data)]
       /\ toks' = input'.toks
  /\ vs' = <<[stack |-> <<Object(1)>>, fragType |-> <<>>, born |-> 1]>>
  /\ result' = "decoding"
  /\ UNCHANGED <<request, text, mem, pos, parseState, currentTypename, currentKey>>

\* The server refuses it.
Reject ==
  /\ result = "sent"
  /\ ~IsValid(Read(text).set, RootType)
  /\ result' = "refused"
  /\ UNCHANGED <<request, text, mem, vs, parseState, currentTypename, currentKey, toks, pos, input>>

DecodeToken ==
  /\ RootValue \/ ObjectKey \/ ArrayValue \/ ObjectEnd \/ ArrayEnd \/ Finish
  /\ UNCHANGED tripVars

\* The call is over: in any other state there is something left to do, which the
\* absence of deadlocks shows.
Over ==
  /\ result \in {"ok", "error", "panic", "not constructed", "refused"}
  /\ UNCHANGED <<vars, tripVars>>

TripNext == Construct \/ Answer \/ Reject \/ DecodeToken \/ Over

TripSpec == TripInit /\ [][TripNext]_<<vars, tripVars>>

-----------------------------------------------------------------------------
(* Properties. *)

\* What is written for a target that is declared for the schema is an operation
\* the server takes: separators, braces, names and fragments are in their places.
OperationIsValid == result \in {"not constructed", "refused"} => ~request.fits

\* The variables an operation declares, each <<name, ":", type ...>>.
Declared(variables) ==
  LET starts == InOrder({i \in DOMAIN variables : variables[i] = "$"}, Len(variables))
  IN [k \in DOMAIN starts |->
        SubSeq(variables, starts[k] + 1,
               IF k = Len(starts) THEN Len(variables) ELSE starts[k + 1] - 1)]
RECURSIVE ListsIn(_)
ListsIn(type) ==
  IF type.kind \notin {"ptr", "slice"} THEN 0
  ELSE ListsIn(type.elem) + (IF type.kind = "slice" THEN 1 ELSE 0)
Declares(declaration, variable) ==
  /\ declaration[1] = variable.json
  /\ variable.server \in ToSet(declaration)
  /\ (Last(declaration) = "!") = (variable.type.kind # "ptr")
  /\ Cardinality({i \in DOMAIN declaration : declaration[i] = "["}) = ListsIn(variable.type)

\* Every operation that is written is sent first, and never changes afterwards: what
\* is said of its text is looked at there, once.

\* The server reads the operation that was meant: its type, name and directives,
\* and a declaration for each variable, once, of the type the server has for it,
\* which is optional exactly when the Go type is a pointer.
SaysWhatIsMeant(read) ==
  LET declared == Declared(read.variables)
      variables == ToSet(ArgumentFields(request.variables))
  IN /\ read.type = request.type
     /\ read.name = request.name
     /\ read.directives = Lexed(FlattenSeq(Texts(request.options, "operation_directive")))
     /\ Len(declared) = Cardinality(variables)
     /\ \A f \in variables : \E k \in DOMAIN declared : Declares(declared[k], f)
OperationSaysWhatIsMeant == result = "sent" => SaysWhatIsMeant(Read(text))

\* The text does not depend on the order in which the variables are met: that of a
\* map is another one every time.
SameTextInAnyOrder ==
  result = "sent" =>
    text = constructOperation(request.type, request.memory,
                              [request.variables EXCEPT !.fields = Reverse(@)], request.options)

\* Every answer to the client's own operation fits the target: the decoder does
\* not refuse it and does not panic.
EveryAnswerFits == result \notin {"error", "panic"}

\* Can document d be read from the tree t of a target, through wrappers?  Every
\* member of an object from at least one field that asked for it.
RECURSIVE Holds(_, _)
HoldsMember(t, x, typename) ==
  \E p \in Receivers(t, x.k, typename) :
    Holds(Within(t, BehindWrapper(p.path, WrappedAt(Within(t, p.path), p.path))), x.d)
HoldsList(c, docs) == Len(c) = Len(docs) /\ \A i \in DOMAIN docs : Holds(c[i], docs[i])
HoldsAs(type, t, d) ==
  CASE type.kind = "raw" -> t.v = <<d>>
    [] type.kind # "raw" /\ d.j = "null" -> t = ZeroTree(t.ty)
    [] type.kind = "ptr" /\ d.j # "null" -> ~t.nil /\ Holds(t.c[1], d)
    [] type.kind = "slice" /\ d.j = "arr" -> HoldsList(t.c, d.m)
    [] d.j = "obj" /\ type.kind \in {"struct", "omap"} ->
         \A i \in DOMAIN d.m : HoldsMember(t, d.m[i], OwnTypename(d))
    [] OTHER -> Fits(type, d) /\ t.v = StoredAs(type.kind, d)
Holds(t, d) == HoldsAs(Types[t.ty], t, d)

\* The whole answer can be read from the target afterwards: nothing that was
\* asked for is lost on the way, in a list, a fragment, an alias or a wrapper.
AnswerCanBeRead == result = "ok" => Holds(Tree(mem, mem[1]), input.doc)
===============================================================================
