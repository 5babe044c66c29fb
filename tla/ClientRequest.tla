----------------------------- MODULE ClientRequest -----------------------------
(***************************************************************************)
(* The request pipeline of the client (client.go, request.go, response.go, *)
(* errors.go), for any number of goroutines that share one http.Client:    *)
(* construct the query, build the request, send it, decompress, check the  *)
(* status, buffer the body in debug mode, decode the envelope, and turn    *)
(* all of it into a response and an error.                                 *)
(*                                                                         *)
(* The http.Client and the server are external.  The http.Client has Conns *)
(* connections; it holds one from the moment a request is sent until the   *)
(* body of the response is closed, and requests wait for a free one.       *)
(*                                                                         *)
(* A reply is a record:                                                    *)
(*   status, encoding   of the response header                             *)
(*   stream  what reading the body yields: the bytes of a JSON envelope    *)
(*           ("value"), of something else ("malformed"), or a read error   *)
(*           before the envelope is complete: the gzip header is wrong, the*)
(*           compressed data is corrupt, the connection is lost or the     *)
(*           context cancelled                                             *)
(*   tail    what reading on after the envelope yields: the end, or an     *)
(*           error                                                         *)
(*   data    the envelope's data: absent, null, of the caller's shape, not *)
(*   errors  the number of errors in the envelope                          *)
(***************************************************************************)
EXTENDS Naturals, Sequences, FiniteSets

CONSTANTS
  Calls,    \* goroutines that call the client
  Conns,    \* connections of the http.Client (external)
  Replies   \* replies of the server (external)

Encodings == {"identity", "gzip"}
Reply == [status : {"200", "other"}, encoding : Encodings,
          stream : {"value", "malformed", "bad gzip header", "corrupt gzip", "lost"},
          tail : {"end", "corrupt gzip", "lost"},
          data : {"absent", "null", "fits", "misfits"},
          errors : Nat]

ASSUME CallsOK == IsFiniteSet(Calls)
ASSUME ConnsOK == Conns \in Nat \ {0}
ASSUME RepliesOK == Replies \subseteq Reply

VARIABLES
  pc,      \* of each call: what it does next
  mode,    \* of each call: [raw, debug], a ...Raw method; debug mode of the client
  reply,   \* of each call: the server's reply, NoReply while there is none
  open,    \* of each call: which of resp.Body and its decompressor are not closed
  env,     \* of each call: the decoded envelope, or NoEnvelope for nil
  errs,    \* of each call: the errors request returned; at the end, the call's error
  target   \* of each call: the caller's struct

vars == <<pc, mode, reply, open, env, errs, target>>

Modes == [raw : BOOLEAN, debug : BOOLEAN]
NoReply == [status |-> "none"]
NoEnvelope == [data |-> "nil", errors |-> <<>>]

\* Errors: the code, what debug mode attached, and whether the failure behind a
\* local error can be recovered from it (Error.underlying, errors.As).
LocalCodes == {"request_error", "json_encode_error", "json_decode_error",
               "graphql_encode_error", "graphql_decode_error"}
Attachments == SUBSET {"request", "response"}
Error == [code : LocalCodes \cup {"server"}, info : Attachments, cause : BOOLEAN]

TransportCodes == LocalCodes \ {"graphql_decode_error"}

NoMode == [raw |-> FALSE, debug |-> FALSE]

Init ==
  /\ pc = [c \in Calls |-> "idle"]
  /\ mode = [c \in Calls |-> NoMode]
  /\ reply = [c \in Calls |-> NoReply]
  /\ open = [c \in Calls |-> {}]
  /\ env = [c \in Calls |-> NoEnvelope]
  /\ errs = [c \in Calls |-> <<>>]
  /\ target = [c \in Calls |-> "untouched"]

-----------------------------------------------------------------------------
(* errors.go *)

\* Mutant: an error without a code.
newErrorUncoded(code) == [code |-> "", info |-> {}, cause |-> TRUE]

\* newError keeps the error it is given as the cause.
newError(code) == [code |-> code, info |-> {}, cause |-> TRUE]

\* decorate: what ctx holds is attached, in debug mode only.
decorate(c, e, ctx) == IF mode[c].debug THEN [e EXCEPT !.info = @ \cup ctx] ELSE e

ServerError == [code |-> "server", info |-> {}, cause |-> FALSE]

\* The server's errors, the first of them decorated (request).
EnvelopeErrors(c) ==
  [i \in 1..reply[c].errors |->
     IF i = 1 THEN decorate(c, ServerError, {"request", "response"}) ELSE ServerError]

-----------------------------------------------------------------------------
(* Steps of a call. *)

Goto(c, stage) == pc' = [pc EXCEPT ![c] = stage]

\* request returns the single error e and no envelope; its deferred and explicit
\* closes have run.
FailWith(c, e) ==
  /\ Goto(c, "processing")
  /\ errs' = [errs EXCEPT ![c] = <<e>>]
  /\ open' = [open EXCEPT ![c] = {}]
  /\ UNCHANGED <<mode, reply, env, target>>

\* Query, Mutate and their variants derive the query; Execute... bring their own.
Call(c) ==
  /\ pc[c] = "idle"
  /\ \E next \in {"constructing", "building"} : Goto(c, next)
  /\ \E m \in Modes : mode' = [mode EXCEPT ![c] = m]
  /\ UNCHANGED <<reply, open, env, errs, target>>

\* constructQueryAndExecute
Construct(c) ==
  /\ pc[c] = "constructing"
  /\ \/ /\ Goto(c, "building")
        /\ UNCHANGED <<mode, reply, open, env, errs, target>>
     \/ FailWith(c, newError("graphql_encode_error"))

\* BuildRequest: variables that cannot be encoded, or a bad URL.  There is no
\* request yet that decorate could attach.
Build(c) ==
  /\ pc[c] = "building"
  /\ \/ /\ Goto(c, "sending")
        /\ UNCHANGED <<mode, reply, open, env, errs, target>>
     \/ FailWith(c, decorate(c, newError("json_encode_error"), {}))

RequestError(c) == decorate(c, newError("request_error"), {"request"})

\* The connections in use: a request is on the wire, or a body is not closed.
InUse == {c \in Calls : pc[c] = "waiting" \/ "body" \in open[c]}

\* executeRequest, httpClient.Do: the request is sent on a free connection ...
Send(c) ==
  /\ pc[c] = "sending"
  /\ Goto(c, "waiting")
  /\ Cardinality(InUse) < Conns
  /\ UNCHANGED <<mode, reply, open, env, errs, target>>

\* ... and answered ...
Answer(c) ==
  /\ pc[c] = "waiting"
  /\ Goto(c, "unzipping")
  /\ \E r \in Replies : reply' = [reply EXCEPT ![c] = r]
  /\ open' = [open EXCEPT ![c] = {"body"}]
  /\ UNCHANGED <<mode, env, errs, target>>

\* ... or not: the connection fails or the context ends ...
Unanswered(c) == pc[c] = "waiting" /\ FailWith(c, RequestError(c))

\* ... which it may also do before there is a connection at all.
GiveUp(c) == pc[c] = "sending" /\ FailWith(c, RequestError(c))

\* handleGzipResponse: gzip.NewReader reads the gzip header.
BadGzipHeader(r) == r.encoding = "gzip" /\ r.stream = "bad gzip header"
Unzip(c) ==
  /\ pc[c] = "unzipping"
  /\ IF BadGzipHeader(reply[c])
     THEN FailWith(c, RequestError(c))
     ELSE /\ Goto(c, "checking")
          /\ open' = [open EXCEPT ![c] = @ \cup {"reader"}]
          /\ UNCHANGED <<mode, reply, env, errs, target>>

\* Mutant: a response with another status is returned without closing its body.
CheckStatusLeaking(c) ==
  /\ pc[c] = "checking"
  /\ IF reply[c].status # "200"
     THEN /\ Goto(c, "processing")
          /\ errs' = [errs EXCEPT ![c] = <<RequestError(c)>>]
          /\ UNCHANGED <<mode, reply, open, env, target>>
     ELSE /\ Goto(c, IF mode[c].debug THEN "buffering" ELSE "decoding")
          /\ UNCHANGED <<mode, reply, open, env, errs, target>>

\* executeRequest, the status check; in debug mode request then buffers the body.
CheckStatus(c) ==
  /\ pc[c] = "checking"
  /\ IF reply[c].status # "200"
     THEN FailWith(c, RequestError(c))
     ELSE /\ Goto(c, IF mode[c].debug THEN "buffering" ELSE "decoding")
          /\ UNCHANGED <<mode, reply, open, env, errs, target>>

\* copyResponseForDebug: io.ReadAll reports what goes wrong anywhere in the body.
ReadAllFails(r) == r.stream \in {"corrupt gzip", "lost"} \/ r.tail # "end"
Buffer(c) ==
  /\ pc[c] = "buffering"
  /\ IF ReadAllFails(reply[c])
     THEN FailWith(c, newError("json_decode_error"))
     ELSE /\ Goto(c, "decoding")
          /\ UNCHANGED <<mode, reply, open, env, errs, target>>

\* What request makes of an error of DecodeResponse: a new error with the same
\* message, fmt.Errorf("%s", decErrs[0].Message).
DecodeFailure(c) ==
  decorate(c, [newError("json_decode_error") EXCEPT !.cause = FALSE], {"request", "response"})

\* Mutant: the deferred Close of the body is missing.
DecodeLeaking(c) ==
  /\ pc[c] = "decoding"
  /\ IF reply[c].stream # "value"
     THEN FailWith(c, DecodeFailure(c))
     ELSE /\ Goto(c, "processing")
          /\ env' = [env EXCEPT ![c] = [data |-> reply[c].data, errors |-> EnvelopeErrors(c)]]
          /\ open' = [open EXCEPT ![c] = @ \ {"reader"}]
          /\ UNCHANGED <<mode, reply, errs, target>>

\* Mutant: an error comes with what was decoded of the envelope.
DecodeReturningBoth(c) ==
  /\ pc[c] = "decoding"
  /\ Goto(c, "processing")
  /\ env' = [env EXCEPT ![c] = [data |-> reply[c].data, errors |-> EnvelopeErrors(c)]]
  /\ errs' = [errs EXCEPT ![c] = IF reply[c].stream # "value" THEN <<DecodeFailure(c)>> ELSE @]
  /\ open' = [open EXCEPT ![c] = {}]
  /\ UNCHANGED <<mode, reply, target>>

\* DecodeResponse reads up to the end of the envelope and no further; request
\* decorates, and closes both readers as it returns.
Decode(c) ==
  /\ pc[c] = "decoding"
  /\ IF reply[c].stream # "value"
     THEN FailWith(c, DecodeFailure(c))
     ELSE /\ Goto(c, "processing")
          /\ env' = [env EXCEPT ![c] = [data |-> reply[c].data, errors |-> EnvelopeErrors(c)]]
          /\ open' = [open EXCEPT ![c] = {}]
          /\ UNCHANGED <<mode, reply, errs, target>>

DecodeError(c) == decorate(c, newError("graphql_decode_error"), {"response"})

\* Mutant: a decode failure replaces the server's errors.
UnmarshalErrorOnly(c) ==
  IF env[c].data = "misfits" THEN <<DecodeError(c)>> ELSE env[c].errors

\* processResponse: the server's errors, and one more if the data has another shape.
UnmarshalErrors(c) ==
  IF env[c].data = "misfits" THEN Append(env[c].errors, DecodeError(c)) ELSE env[c].errors

\* Mutant: the data is decoded only if the server reported no error.
UnmarshalledUnlessErrors(c) ==
  CASE env[c].errors # <<>> \/ env[c].data = "absent" -> {"untouched"}
    [] env[c].errors = <<>> /\ env[c].data = "null" -> {"cleared"}
    [] env[c].errors = <<>> /\ env[c].data = "fits" -> {"filled"}
    [] OTHER -> {"untouched", "partly filled"}

\* What UnmarshalGraphQL may make of the caller's struct: null is a value like any
\* other, and data that does not fit is noticed before or after something is stored.
Unmarshalled(c) ==
  CASE env[c].data = "absent" -> {"untouched"}
    [] env[c].data = "null" -> {"cleared"}
    [] env[c].data = "fits" -> {"filled"}
    [] OTHER -> {"untouched", "partly filled"}

\* processResponse: the errors of request are returned as they are.
ProcessResponse(c) ==
  /\ pc[c] = "processing" /\ ~mode[c].raw
  /\ Goto(c, "returned")
  /\ IF errs[c] # <<>>
     THEN UNCHANGED <<errs, target>>
     ELSE /\ errs' = [errs EXCEPT ![c] = UnmarshalErrors(c)]
          /\ \E outcome \in Unmarshalled(c) : target' = [target EXCEPT ![c] = outcome]
  /\ UNCHANGED <<mode, reply, open, env>>

\* executeForRawJSON and ExecuteQueryRaw: the data is returned as it is, with the
\* server's errors.
ReturnRaw(c) ==
  /\ pc[c] = "processing" /\ mode[c].raw
  /\ Goto(c, "returned")
  /\ errs' = [errs EXCEPT ![c] = IF @ # <<>> THEN @ ELSE env[c].errors]
  /\ UNCHANGED <<mode, reply, open, env, target>>

\* The goroutine makes another call, with another struct.
Again(c) ==
  /\ pc[c] = "returned"
  /\ Goto(c, "idle")
  /\ reply' = [reply EXCEPT ![c] = NoReply]
  /\ env' = [env EXCEPT ![c] = NoEnvelope]
  /\ errs' = [errs EXCEPT ![c] = <<>>]
  /\ target' = [target EXCEPT ![c] = "untouched"]
  /\ mode' = [mode EXCEPT ![c] = NoMode]
  /\ UNCHANGED open

\* What a call does without waiting for a connection.
Step(c) ==
  \/ Construct(c) \/ Build(c) \/ Answer(c) \/ Unanswered(c) \/ Unzip(c)
  \/ CheckStatus(c) \/ Buffer(c) \/ Decode(c) \/ ProcessResponse(c) \/ ReturnRaw(c)

Next == \E c \in Calls : Call(c) \/ Send(c) \/ GiveUp(c) \/ Step(c) \/ Again(c)

Safety == Init /\ [][Next]_vars

\* A call is sequential code, and a server answers or the connection to it fails;
\* the http.Client serves requests that wait for a connection in order.  Nothing
\* makes a caller give up: context.Background() never ends.
Spec == Safety /\ \A c \in Calls : WF_vars(Step(c)) /\ SF_vars(Send(c))

-----------------------------------------------------------------------------
(* Properties. *)

Stages == {"idle", "constructing", "building", "sending", "waiting", "unzipping",
           "checking", "buffering", "decoding", "processing", "returned"}
Envelope == [data : {"nil", "absent", "null", "fits", "misfits"}, errors : Seq(Error)]

\* Types.
TypeOK ==
  /\ pc \in [Calls -> Stages]
  /\ mode \in [Calls -> Modes]
  /\ reply \in [Calls -> Reply \cup {NoReply}]
  /\ open \in [Calls -> SUBSET {"body", "reader"}]
  /\ env \in [Calls -> Envelope]
  /\ errs \in [Calls -> Seq(Error)]
  /\ target \in [Calls -> {"untouched", "cleared", "filled", "partly filled"}]

\* On every path, error paths included, resp.Body and the decompressor are closed
\* when request returns: only a call that is reading has anything open.
Reading == {"unzipping", "checking", "buffering", "decoding"}
NothingLeftOpen == \A c \in Calls : pc[c] \notin Reading => open[c] = {}

Returned(c) == pc[c] = "returned"
Codes(c) == {errs[c][i].code : i \in DOMAIN errs[c]}

\* "On a transport-level failure the returned *Response is nil" (client.go:134):
\* then, and only then, and the error is not nil; so the ...Raw methods, which
\* dereference the response when there is no transport error, may do so.
ResponseUnlessTransportError ==
  \A c \in Calls :
    pc[c] \in {"processing", "returned"} =>
      /\ env[c] = NoEnvelope <=> Codes(c) \cap TransportCodes # {}
      /\ env[c] = NoEnvelope => Len(errs[c]) = 1

\* The error of a call says what the server's reply was: ErrRequest if there was
\* no usable response, ErrJSONDecode if its body was not an envelope (in debug
\* mode: or could not be read to its end), and otherwise every error of the
\* server, in place, with ErrGraphQLDecode behind them if the data was not what
\* the caller asked for, and no error if there is nothing to report.
Usable(c) == reply[c] # NoReply /\ ~BadGzipHeader(reply[c]) /\ reply[c].status = "200"
Decoded(c) == reply[c].stream = "value" /\ (mode[c].debug => reply[c].tail = "end")
Misfit(c) == reply[c].data = "misfits" /\ ~mode[c].raw
ErrorMatchesReply ==
  \A c \in Calls :
    Returned(c) =>
      CASE ~Usable(c) ->
             /\ reply[c] # NoReply => Codes(c) = {"request_error"}
             /\ Codes(c) \subseteq {"request_error", "json_encode_error", "graphql_encode_error"}
        [] Usable(c) /\ ~Decoded(c) -> Codes(c) = {"json_decode_error"}
        [] OTHER ->
             /\ Len(errs[c]) = reply[c].errors + (IF Misfit(c) THEN 1 ELSE 0)
             /\ \A i \in 1..reply[c].errors : errs[c][i].code = "server"
             /\ Misfit(c) => errs[c][reply[c].errors + 1].code = "graphql_decode_error"

\* The caller's struct holds the data of the reply, next to errors of the server as
\* well, unless the call's error says that the data does not fit; without data, in
\* the raw methods and after a failed call it is as it was.
Delivered(c) == Usable(c) /\ Decoded(c) /\ ~mode[c].raw /\ reply[c].data # "absent"
TargetHoldsData ==
  \A c \in Calls :
    Returned(c) =>
      CASE ~Delivered(c) -> target[c] = "untouched"
        [] Delivered(c) /\ ~Misfit(c) ->
             target[c] = IF reply[c].data = "null" THEN "cleared" ELSE "filled"
        [] Delivered(c) /\ Misfit(c) ->
             target[c] \notin {"cleared", "filled"} /\ "graphql_decode_error" \in Codes(c)

\* No call waits forever: for its own reply, or for a connection that another
\* call did not give back.
CallsReturn == \A c \in Calls : pc[c] # "idle" ~> pc[c] = "returned"

\* "A corrupt or invalid gzip response stream now classifies as ErrRequest"
\* (CHANGELOG.md:64), wherever in the stream the corruption is.
CorruptGzipIsTransportError ==
  \A c \in Calls :
    Returned(c) /\ reply[c] # NoReply /\ reply[c].status = "200"
      /\ reply[c].stream \in {"bad gzip header", "corrupt gzip"}
    => Codes(c) = {"request_error"}

\* "For locally generated errors, errors.As against any underlying type also
\* works - for example, recovering the *json.SyntaxError behind an
\* ErrJSONDecode" (README.md:691).
CausesRecoverable ==
  \A c \in Calls :
    Returned(c) => \A i \in DOMAIN errs[c] : errs[c][i].code # "server" => errs[c][i].cause

\* The pipeline keeps the promise of module CallPromise.
Stage(c) ==
  IF pc[c] = "waiting" \/ "body" \in open[c] THEN "connected"
  ELSE CASE pc[c] = "idle" -> "idle"
         [] pc[c] = "processing" -> "settling"
         [] pc[c] = "returned" -> "returned"
         [] OTHER -> "pending"
Told(c) ==
  IF pc[c] # "returned" THEN "none"
  ELSE IF env[c] = NoEnvelope THEN "no response" ELSE "response"

Promise == INSTANCE CallPromise WITH
  stage <- [c \in Calls |-> Stage(c)], answer <- [c \in Calls |-> Told(c)]

KeepsPromise == Promise!Spec
=================================================================================
