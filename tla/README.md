# Verification of gqlclient

TLA+ models of `github.com/llehouerou/gqlclient`, the TLC runs that check them
and the TLAPS proofs about them. Paths below are relative to the repository;
`PROJECT.json` maps every definition to the lines it models and lists the runs,
the mutants (one plausible bug for every property, which the run must catch),
the hazards, the findings and the theorems.

    tlc -config MCDecoder.cfg MCDecoder        # a run
    tlapm ClientRequestProofs.tla              # a proof

## The system

The library turns a Go struct into a GraphQL query, sends it over HTTP, and
decodes the response into the same struct.

| component | source | state | operations |
|---|---|---|---|
| response decoder | `internal/decode/{graphql,value_stack,decode_object,decode_array}.go` | one stack of places per simultaneous target, open containers, current key and typename; the caller's target | one handler per kind of token |
| field lookup | `internal/decode/{field_cache,field_lookup}.go` | a table per struct type, in a `sync.Map` | `lookup`, build on first use |
| scalar fast path | `internal/decode/fast_unmarshal.go` | a cache per type | `fastUnmarshal`, `unmarshalValue` |
| reflection helpers | `internal/reflectutil` | a cache per type | unwrapping pointers, interfaces, wrappers |
| request pipeline | `client.go`, `request.go`, `response.go` | per call: request, response, body, decompressor, envelope, errors | `Query`, `Mutate`, `...Raw`, `...WithResponse`, `ExecuteQuery...` |
| error model | `errors.go` | error values: code, cause, debug information | `newError`, `decorate`, `Is`, `Unwrap` |
| client configuration | `client.go`, `request.go` | URL, http.Client, header map, modifier, debug | `NewClient`, `With*`, `BuildRequest` |
| query builder | `query*.go`, `option.go` | none | `ConstructQuery`, `ConstructMutation`, `queryArguments` |
| tag parser, fragments, identifiers | `internal/tagparser`, `internal/fragments`, `ident` | none | pure functions on strings |
| type caches | `field_cache.go`, `fast_unmarshal.go`, `reflectutil/unwrap.go` | four `sync.Map`s | load, build, publish |

**Interactions.** A call runs query builder, pipeline and decoder in sequence in
the caller's goroutine. Goroutines share the `Client` (never written after it is
made), the `http.Client` and its connections, and the type caches. The server,
`net/http`, `compress/gzip` and `encoding/json` are external. The query builder
and the decoder do not call each other, but both interpret the struct's tags and
must agree.

**What is hard.** The decoder's position in the input exists only as the height
of several stacks that must move together; fragments are selected by a piece of
state that outlives the object it belongs to; list elements are copied from
templates that may hold references. The pipeline has ten ways to fail between
`Do` and `Close`, and one leaked body starves the other callers. Clients promise
to be immutable and are made of maps and slices. `PROJECT.json` lists all of
this as hazards, each at its line.

**What makes each part correct.** Decoder: reads exactly one value and stores
every member in exactly the places its name and the object's type select.
Pipeline: every call returns, gives back its connection, and says what happened.
Errors: the code tells the stage that failed, no server error is lost, the cause
is kept. Configuration: a client is a value. Query builder: the response to the
query it writes can be decoded. Caches: one answer per type.

## Modules

| module | models | runs | proofs |
|---|---|---|---|
| `OneValue` | what `UnmarshalGraphQL` promises about its input (abstract) | | |
| `DecodeStack` | the stack discipline of the decoder, values dropped | `decode_stack` | `DecodeStackProofs` |
| `GoValues` | Go memory as the decoder sees it through `reflect`; `reflectutil` unwrapping | | |
| `Ident` | `ident`: names taken apart and put together, letter by letter | in `round_trip` | |
| `TagParser` | struct tags and ordered-map keys: alias, name, fragment | in `decoder`, `round_trip` | `TagParserProofs` |
| `FieldLookup` | lookup tables, `lookup`, names computed by `GetGraphQLType` | in `decoder`, `round_trip` | |
| `Scalars` | a scalar into a value that is no pointer: the fast path and the path behind it | in `decoder` | `ScalarsProofs` |
| `FastUnmarshal` | the same with pointers and memory | in `decoder` | |
| `ScalarMeaning` | what a scalar means for a type (reference) | in `decoder` | `ScalarsProofs` |
| `Decoder` | the decoder with its values | `decoder` and four violations | `DecoderProofs` |
| `JSONText` | the tokens of a document (external) | in `decoder`, `round_trip` | |
| `GoTrees` | what a program can see of a Go value and what it shares | in `decoder` | |
| `DecodeReference` | what the decoder stores, by recursion over target and document | in `decoder` | |
| `DecoderProperties` | the decoder against its reference, and what elements share | `decoder` | |
| `OneAnswer` | what the decoder may rely on when it asks about a type (abstract) | | |
| `TypeCaches` | the four caches under concurrent first use | `type_caches` | `TypeCachesProofs` |
| `QueryBuilder` | selections, variables, operations as text | in `round_trip` | |
| `GraphQLServer` | a server that reads, validates and answers operations (external) | in `round_trip` | |
| `RoundTrip` | an operation from its target and back into it | `round_trip` | |
| `CallPromise` | what a caller of the client may rely on (abstract) | | |
| `ClientRequest` | the request pipeline and the error model, concurrent calls | `request` and two violations | `ClientRequestProofs` |
| `ClientValues` | a client is a value (abstract) | | |
| `ClientConfig` | clients over Go maps and slices, `BuildRequest` | `client_config` | `ClientConfigProofs` |
| `MC...` | the instances TLC checks | | |

`DecodeStack` implements `OneValue`; `Decoder` implements `DecodeStack`
(`FollowsDiscipline`), which is proved for every set of types, every target and
every document, so that what is proved of the one holds of the other;
`ClientRequest` implements `CallPromise`; `ClientConfig` implements
`ClientValues`; `TypeCaches` implements `OneAnswer`. `RoundTrip` composes
`QueryBuilder`, `GraphQLServer` and `Decoder`. `Decoder` and all it rests on
(`GoValues`, `TagParser`, `FieldLookup`, `FastUnmarshal`, `Ident`) recur by
recursive functions and folds, so that they can be proved about. RECURSIVE
operators are kept to `JSONText`, `GoTrees`, `DecodeReference`,
`DecoderProperties`, `QueryBuilder`, `GraphQLServer`, `RoundTrip` and the instances, which are
model-checked only.

### DecodeStack

`entries` is `vs.entries` with each stack reduced to its height; `born`, a history
field, is the depth at which it was added. `parseState` is the decoder's
own; `nest`, `whole` and `left` belong to the tokenizer, which delivers the
tokens of a text that may be cut short, malformed or too long. One action is one
iteration of `decodeLoop`: `Scalar` is `decodeScalarValue` with the push before
it, `OpenObject` is `decodeObjectStart` with any set of fragments discovered,
and so on; `CheckRest` is what `UnmarshalGraphQL` does after the loop.

`Lockstep` is the loop invariant written at `graphql.go:109`. `StopsAtValueEnd`
says that the loop's condition means what it should. `FragmentLifetime` is an
action property: the stack of a fragment is dropped by the very step that closes
its object. `ReadsOneValue` is the refinement.

Fairness: `WF_vars(Next)`, since the loop is sequential code that does not wait.
Bounds: 9 tokens and two fragment stacks; nesting to depth 9, two fragments in
one object, a fragment in a nested object, and an error or the end of the input
at every point occur. The proofs have no bounds.

### Decoder

A value is a record with its type, content, children and a reference; a memory
is a sequence of objects, and a place is an object and a path (`GoValues`). The
actions follow the two switches of `decodeLoop`: `RootValue`, `ObjectKey` and
`ArrayValue` prepare the places (`findFieldsForKey`, `selectAndPushFields`,
`decodeArrayValue`) and end in `Value`, which is `decodeScalarValue`,
`decodeObjectStart` or `decodeArrayStart`; `ObjectEnd` and `ArrayEnd` are the end
handlers; `Cut` is the tokenizer failing at any point; `Finish` is the end of
`UnmarshalGraphQL`.

Which field a member goes to is `FieldLookup`: a table per type, made of the
fields' tags (`TagParser`), Go names and scalar tags as they are declared, and
searched as `lookup` does. A tag is a sequence of symbols, with blanks, quotes,
colons and parentheses among them, so that where an alias or a directive ends is
computed as the code computes it. Names are folded letter by letter (`Ident`).
`Scalars` has the cases of `fastUnmarshal`, what it declines, and
`encoding/json` behind it; `FastUnmarshal` adds the pointers on the way to the
value and stores it.

The input is a sequence of tokens. `IsText` says what the tokenizer of
`encoding/json` guarantees about them: containers are closed in the order in
which they are opened, a key is in an object and has a value, and the value is
over with the last token; each token carries the containers that are open after
it. TLC evaluates it for every document of its runs (`InputsOK`), whose tokens
`JSONText` makes. `Discovered` is the frontier of `decodeObjectStart`, one part
per round; `MaxStacks` bounds the rounds and with it the stacks in use at once
(10 in the runs, which none reaches), `MaxTokens` the document (60, likewise).

`FollowsDiscipline` is the refinement of `DecodeStack`: a stack is its height,
the tokenizer's `nest` is the delimiters of the containers that are open in the
document. `AgreesWithReference` compares the outcome with `DecodeReference`, which knows
neither tokens nor stacks nor memory: equal trees when the document is accepted,
and refusal exactly when some value has no place. `ElementsAreSeparate` is
about memory: two elements of a list share none. `OnlyOwnFragment` is an action
property about every single member that is stored.

A place is an object and a path into it. The elements of a slice are in the slice
itself, together with the array they are in as far as it is the caller's: a copy
of a template shares that array (`copyTemplate` leaves plain slices alone) until
`decodeArrayStart` makes a new one, as does an append, the caller's arrays being
taken to have no room left. `ElementsAreSeparate` compares these arrays as well.

The run takes targets shaped as the documentation and tests show: an interface
with an embedded struct and two fragments that share a field, alone and in
lists, with and without a template, and with two templates; a template that holds
a list of its own; a list of maps, which is refused; nested pointers;
fields taken raw; lists of lists; wrappers, directly and behind a pointer;
ordered maps with fragments, and lists of ordered maps; tags with aliases,
arguments that contain every delimiter, directives, no tag, unexported fields
and types with a name of their own; and every scalar kind, with the integers at
and next to the limits of two widths, signed and unsigned (`WideBits`, 6, stands
for the 64 bits of `ParseInt`; the narrow types have 3). Each is given every
document of its shape over one scalar value and null, with members absent or
present and lists of up to two elements, and documents that do not fit. Two
elements are what it takes to see a shared template; three members what it takes
for `__typename`, a selected member and a shared one. Documents give
`__typename` first and, in the passing run, in one object at a time;
`stale_typename` and `late_typename` are about the others.

Not in these inputs, so not claimed: lists given for ordered maps, objects given
for plain lists that have a template, ordered maps that hold ordered maps or
lists, lists of raw messages with object elements, duplicate keys, pointers to
pointers to objects, fragments behind nil pointers, fields of interface type.

### TypeCaches

One process per goroutine, one action per call on a `sync.Map`: `Load`, `Store`
and `LoadOrStore` are atomic, what is between them is not. `tables` is the memory
of the tables, those under construction included, so that a table that is
published early, or written after it was published, can be seen. The three
caches that hold values (`jsonUnmarshalerCache`, `wrappedFieldIndexCache`,
`implementsGraphQLTypeCache`) have the same code over different questions and
are one map from questions to answers; building a table asks one of these
questions for each exported field, as `buildFieldLookupTable` does.

`AnswersAreRight` says of every table and answer that anyone was ever given that
it is right and complete, and stays so. `OneTablePerType` and the refinement of
`OneAnswer` say that all callers get the same one. `EveryCallReturns` is
liveness: the loser of a race goes on with the winner's table. Fairness is weak,
per goroutine: a call is sequential code that never waits. `WaitFree` says more
and needs no fairness: each step of a goroutine brings its call closer to its
end, so that a call takes at most 3n + 2 steps of its own for a type of n fields,
whatever the others do. That is what `LoadOrStore` gives and a compare-and-swap
that is tried again would not.

Bounds: two goroutines with two calls each, two struct types of two fields, two
questions of which one is asked by both types, one field unexported and one a
fragment. Two goroutines are a race; the second call finds what the first left.

### RoundTrip

`QueryBuilder` writes an operation as the code does, piece by piece into a
sequence of symbols: selections by the functions `writeQuery` dispatches to,
declarations of variables by `queryArguments` and `writeArgumentType`, and
`constructOperation` around them. `GraphQLServer` reads that text back with rules
of its own (GraphQL's: blanks and commas separate, two names in a row are one),
validates it against a schema, and answers with any document that fits what was
asked: every alternative of a union, null where the schema allows it, lists of
up to `MaxListAnswer` elements. `RoundTrip` sends a target through both and
`Decoder`.

`OperationIsValid` says that the text is valid for the schema the target was
written for. `OperationSaysWhatIsMeant` reads the operation back and compares its
type, name, directives and variables with what the caller gave: each variable
declared once, optional exactly if its Go type is a pointer. `SameTextInAnyOrder`
is about maps of variables, which Go iterates in random order.
`EveryAnswerFits` and `AnswerCanBeRead` are what the two halves of the library
owe each other: whatever a server may answer to the text the client wrote, the
decoder finds a place for every member, and all of it can be read from the target
afterwards.

The targets are the shapes of the README and the tests: an interface with an
embedded struct and fragments, alone and in a list; a union; nested objects with
pointers, aliases, directives, a skipped field and a type with a name of its own;
wrappers around lists and objects; lists of lists; ordered maps with aliased
selections, and a list with an ordered map as template. Eleven more have one
untagged field each, named as a generator names it: the module assumes, and TLC
evaluates, that `ParseLowerCamelCase` and `ParseScreamingSnakeCase` followed by
`ToMixedCaps` make exactly these Go names, so the property covers `ident` both
ways. Operations come with zero to six variables of every kind, as a map or a struct,
and with no or repeated options. Five requests are declared wrongly on purpose
and must be refused, and nothing is claimed of them otherwise.

There is no fairness and no liveness here: the run checks that no state before
the end of a call is a deadlock, and every step makes the text or the input
shorter.

### ClientRequest

One process per goroutine. `pc` is the place between two steps that another
goroutine, the http.Client or the server can come between or that can fail by
itself; `open` is which of `resp.Body` and its decompressor are not closed. A
reply says what reading it will yield: the stream before the end of the
envelope, and what comes after, which only debug mode reads. `Send` needs a free
connection; a connection is in use from `Send` until the body is closed. (The
real one is also freed when the body has been read to its end; assuming it only
at `Close` is the pessimistic choice.) `FailWith` is an early return of
`request`: its error, and all closes.

`ErrorMatchesReply` relates the final error to the server's reply, three to seven
steps earlier: its code, the number, order and place of the server's errors, and
no error if there is none. `TargetHoldsData` does the same for the caller's
struct: it holds the data of the reply, null included and next to errors of the
server as well, or one of the codes says that the data does not fit. In that case
it may be partly filled or still untouched: the decoder may fail anywhere. `CallsReturn` is liveness: `Conns` is 1 for two callers, so one body left
open on any path blocks the other for ever. `CausesRecoverable` and
`CorruptGzipIsTransportError` are what the documentation says and the code does
not do (see below).

Fairness: weak for the steps of a call, which is sequential code, and for
`Answer`/`Unanswered`: a server answers or the connection fails. Strong for
`Send`, because `http.Transport` queues the requests that wait for a connection:
a connection that becomes free again and again is given to each in the end.
None for `GiveUp`: a context need not end.

Bounds: two calls, one connection, the 18 replies of `MCReplies`, with no or two
errors. Calls meet only in the connections, so two calls on one connection show
every interference; each goroutine calls again and again. The proofs are for any
finite set of calls, any number of connections and any set of replies.

Simplifications: server errors that use the library's own codes, and content
that follows a complete envelope without a read error (which the code ignores),
are left out. Building a request is one step here; `ClientConfig` has its parts.

### ClientConfig

`heap` holds the `http.Header` maps and the arrays behind their slices, so that
aliasing can be seen: `cloneHeader` allocates, `MergeHeaders` is
`append(headers[k][:0], vs...)`, which writes over an array if the values fit.
Callers own maps too and may write to them at any time (`EditArg`). `BuildRequest`
copies one key per step, in any order, while all of this goes on. `With*` are
single steps: each writes only what it has allocated itself, and reads only a
client, which `ClientsNeverChange` shows to be constant.

The refinement `BehavesAsValues` maps each client to its content and a finished
request to its headers: the request has the headers of the client as it was
derived, although it was copied piece by piece. Two spellings of one header
(`WithHeaders` does not make keys canonical) may both be in a client; which of
them wins is left open, as it is in the code. The refinement lets a request be
that of any client; `RequestsHaveTheirHeaders` says which one's it is.

Bounds: three clients (a chain, or two derived from one), one header in two
spellings and `Content-Type`, one caller's header with up to two values, one
request at a time.

## Disagreements the runs show

Six runs expect a violation; each shows the code disagreeing with a sentence of
the repository.

- `stale_typename`: the typename that selects fragments is not restored when a
  nested object ends (`graphql.go:168`, against `doc.go:34`).
- `late_typename`: members that arrive before their object's `__typename` stay in
  the fragments of every type (`decode_object.go:98`, against `doc.go:34`).
- `shared_template`: an ordered map inside an ordered-map template is shared by
  all elements (`decode_array.go:130`, against its own line 102).
- `wrapper_list_panic`: a list of wrappers around lists panics
  (`decode_array.go:31`, against `fuzz_test.go:51`).
- `corrupt_gzip`: corruption behind the gzip header is a JSON decode error
  (`response.go:70`, against `CHANGELOG.md:64` and `GLOSSARY.md:12`).
- `lost_cause`: the cause of an envelope that is not JSON cannot be recovered
  (`request.go:159`, against `README.md:691`).

## Proofs

TLC has checked every statement below, and each inductive invariant, on the
instances above before it was proved.

**`DecodeStackProofs`** (any set of stacks, any length of input). The properties
are not inductive: the heights say nothing about the input unless the decoder's
`parseState` is the tokenizer's `nest`, and popping needs to know that no
fragment is older than its object. The inductive invariant adds both, and that
the root is there until the value is complete. From it: `TypeCorrect`,
`StacksInLockstep`, `LoopEndsWithValue`, `Verdicts`; with one more lemma per kind
of step, `FragmentsLiveWithTheirObject` and the refinement `ImplementsOneValue`.

**`DecoderProofs`** (any types, targets and documents, any bound on tokens and
stacks; assumptions `InputsOK`, that a document's tokens are those of one JSON
value, and `BoundsOK`). The theorem is the refinement, `ImplementsDecodeStack`: the
decoder with everything it does to memory, with fields found or not, fragments
discovered, values taken raw, templates copied and errors anywhere, takes only
steps of the stack discipline. The inductive invariant `LoopInv` (`LoopInvariant`)
ties three records of one nesting together: `parseState` is the delimiters of
the containers open in the document, the height of each stack counts the
containers since its birth, and the stacks are there until the last token. Each
needs the others: the handler of a token is chosen by `parseState`; `popAll`
drops the right stacks only if the heights agree with it. A fourth part, that
the stacks are in order of birth, is what makes the refinement mapping right:
those that `popAll` drops are the last ones, so the others keep their indices,
which are their identities in `DecodeStack`. `Ready` and `Decodes` say once, for a
value at top level, behind a key and in a list, what a handler starts from, and
`ValueStep` what it does from there; a lemma per action leads there. Nothing is
assumed of types and memory, since the proof needs only that every stack gets
exactly one place per value, valid or not.

The lemmas of `DecodeStackProofs` are then instantiated, and give for the decoder
what they give for heights: `DecoderAcceptsOnlyAll` (a nil error only for a
document read to its end), `DecoderFragments` (a fragment's stack lives exactly as
long as its object) and `DecoderReadsOneValue` (the decoder implements
`OneValue`). `DecoderStacksInStep` and `DecoderKnowsItsPlace` state the loop invariant
and the loop's condition in the decoder's own terms. What is *stored* is not the
subject of these theorems; that is `AgreesWithReference`.

**`ClientRequestProofs`** (any calls, connections, replies; assumptions
`CallsOK`, `ConnsOK`, `RepliesOK`). The properties speak of calls that have
returned, what makes them true happened stages before. The inductive invariant is
one statement per call, `CallOK`: what a call has at each stage. A step of one
call leaves the others' `CallOK` alone. From it: `TypeCorrect`, `BodiesClosed`,
`ResponseOrError`, `ErrorsMatchReplies`, `TargetsHoldData`; `ImplementsCallPromise`
also needs that the connections in use are exactly the connected calls.

**`TypeCachesProofs`** (any goroutines, calls, struct types, fields, questions;
assumptions `FieldsOK`, `FactOK`, `MaxCallsOK`). That a table is complete when it
is returned says nothing about why it stays complete, or what it was before. The
inductive invariant says, per goroutine, that the table of its present call has
the fields before the one it is at (`Partial`) and which question it waits for
(`AsksForField`); and, per struct type, that a published table is complete and
that nobody may write to it any more (`PublishedOK`), since the goroutine that
made it has returned. `OthersKeep` and `PublishedStays` say once what a step of
one goroutine leaves alone. From it: `CachesAreTyped`, `AnswersStayRight`,
`TablesAreShared` and the refinement `CachesImplementOneAnswer`. `CallsAreWaitFree`
uses the same invariant for how far into the fields a goroutine is: its own
steps decrease `StepsLeft`, the others' leave it alone.

**`ClientConfigProofs`** (any clients, callers, goroutines, headers, values and
modifiers; assumptions `CanonicalOK`, `ContentTypeOK`, `ContentsOK`,
`ModifiersOK`, `NoModifierOK`, `BoundsOK`). That no two owners share a map is not
inductive: `WithHeader` and `EditArg` write to arrays, so it must be known that no
two maps share an array either, and that there is no third reference to the map a
client is about to receive. The inductive invariant has three parts: `HeapOK`, on
the memory (the array behind key k of map m is the one allocated for <<m, k>>,
and is as long as its slice needs); `Separate`, on who owns what; and `BuildOK`,
on a request under way (the keys already copied are those of its client, with
their last values). The lemmas about the memory say once what an allocation, a
merge, a write to a map and a write to an array leave alone. From it: `TypesOK`,
`NothingIsShared`, `NoClientChanges` (as an action property), the refinement
`ClientsAreValues` and `RequestsAreTheirClients`.

**`ScalarsProofs`** (every literal, every width of a type and of the parser,
`WideBits`; no assumptions). `ScalarsAreStoredAsMeant`: for every
type that is no pointer and every scalar token, the fast path and `encoding/json`
together store what `ScalarMeaning` says and refuse what it refuses. The two
lemmas say that `encoding/json` alone does so, and that the fast path agrees
wherever it does not decline. The one exception is in the statement: a string for
a `json.Number`, which the fast path takes and `encoding/json` would check. TLC
checks the same with pointers, at two widths (`AgreesWithReference`).

**`TagParserProofs`** (tags of any length over any symbols).
`ArgumentsDoNotMatter`: an alias and name without parentheses and at-signs, and
not a fragment, are read the same whatever arguments and directives follow: with
colons, quotes, nested or unbalanced parentheses, at-signs in them. So the field
that is asked for and the one that is looked up do not depend on the arguments.
`AliasIsResponseName` and `NameIsResponseName` say which one it is: a tag with an
alias goes with the member of the response that is called like the alias, up to
blanks, and with no other, not even one called like the field; one without an
alias goes with the member that is called like the field.
The depth of parentheses is a recursive function and the places are least
elements of sets; both are reached through the well-foundedness of the natural
numbers, with no induction scheme.

**Model-checked only**: liveness (`Terminates`, `CallsReturn`,
`EveryCallReturns`), since TLAPS has no `ENABLED`; what the decoder stores
(`AgreesWithReference`, with a reference that recurs over target and document),
what list elements share and whether every place exists (`ElementsAreSeparate`
and `TypeOK` of `DecoderProperties`, which follow references through values and
memory), and everything about `QueryBuilder` and `RoundTrip`, whose texts are
written and read by recursion: induction over data is out of reach of the prover.
`OnlyOwnFragment` is not recursive, but it is false for documents with a
`__typename` in a nested object (see `stale_typename`) or behind other
members (`late_typename`), and for targets whose
fragments share memory, so there is no theorem to be had for all inputs. Of
`TypeOK`, the part that is about stacks and nesting is in `LoopInv`.

## Seen while modelling, and not in a run

The runs that are expected to pass keep away from the following, which the code
does. Nothing is claimed about it:

- A wrapper is spliced into a query only if there is a value: behind a nil
  pointer or in an empty list it is written as an ordinary struct
  (`query_builder_structs.go:155`), although `types/constants.go:17` calls it
  transparent. The decoder looks through it in either case.
- `writeOrderedMapQuery` writes no separators: two scalar keys in a row become
  one name. `MCRoundTrip` has this as a target that does not fit.
- Of a header that was given several values through `WithHeaders` only the last
  is sent (`request.go:53` sets where it could add), although `client.go:249`
  says that every request includes the given headers. `SetEach` models it, and
  `BehavesAsValues` takes the last value for what a client means.
- A nil value in a map of variables has no type to declare it by:
  `ConstructQuery` panics (`query_arguments.go:56`). `MCRoundTrip` has it as a
  request that does not fit.
- A list inside a template whose field no response answers (tagged `graphql:"-"`,
  say) is shared by all elements: `decode_array.go:114` copies no plain slice.
- The name of a list's element type is asked for in place of the field's tag
  (`query_builder_structs.go:50`), but looked up only by the field's own type.
- An embedded pointer to a struct is written as braces without a name; an
  embedded struct with a tag is asked for by name and searched as embedded too.
- Fields that are not exported are asked for and never matched; fragments
  behind nil pointers are asked for, and their members refused.
- An ordered map behind a nil pointer, or in an empty list, panics in
  `ConstructQuery`, and a type that contains itself by pointer never ends.
- A struct held by an ordered map as it is, not behind a pointer, is asked for
  like any other; reflection cannot store into it when its answer is read, and
  no line checks. The tests and the README give pointers, and so do the runs.
- A directive on a fragment becomes a part of its type condition
  (`tagparser.go:47-53`).
- An untagged field, matched without regard to case, hides a later tagged one.
- An empty object or list is accepted by any place, such as a string.
- The fast path rounds to `float32` and stores a string into a `json.Number`
  without a check; null bypasses a type's `UnmarshalJSON`.
- Three initialisms in a row ("httpApiUrl"), an initialism before "ids", and
  brands ("github" becomes GitHub, and gitHub again) do not survive the way
  through `ToMixedCaps` and back.

## Not modelled, and the plan

Planned: more targets in `MCDecoder`, of fields of interface type (with
`writeInterfaceQuery`) and of members that two fragments declare differently.

Left out: rendering of error messages and paths (`errors.go`, formatting of
values that nothing reads back); debug information beyond what is attached to
which error; the panics about variables of an unsupported type, which the
documentation calls programming errors; `ToID`, a conversion of the caller's own
values; `doc.go` files and type declarations; the wire format of HTTP.
