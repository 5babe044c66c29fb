-------------------------- MODULE ClientRequestProofs --------------------------
(***************************************************************************)
(* Proofs about the request pipeline, for any number of calls, connections *)
(* and replies.  Calls meet only in InUse, so the inductive invariant is   *)
(* one statement per call, CallOK: what the call has at each stage.  It is *)
(* needed because the properties speak of a call that has returned, while  *)
(* what makes them true (the body is open from the answer to the return of *)
(* request, nothing is written before Process, the stage implies what the  *)
(* reply must have been) happened stages before.                           *)
(***************************************************************************)
EXTENDS ClientRequest, TLAPS

\* The last step of a call.
Process(c) == ProcessResponse(c) \/ ReturnRaw(c)

Fresh(c) == env[c] = NoEnvelope /\ errs[c] = <<>> /\ target[c] = "untouched"

\* The code is the one the reply, or its absence, calls for.
Blame(c, code) ==
  /\ code \in TransportCodes
  /\ ~Usable(c) => /\ reply[c] # NoReply => code = "request_error"
                   /\ code \in {"request_error", "json_encode_error", "graphql_encode_error"}
  /\ Usable(c) => ~Decoded(c) /\ code = "json_decode_error"

Failed(c) ==
  /\ env[c] = NoEnvelope /\ target[c] = "untouched"
  /\ \E e \in Error : errs[c] = <<e>> /\ Blame(c, e.code)

Enveloped(c) ==
  /\ Usable(c) /\ Decoded(c) /\ reply[c] \in Reply
  /\ env[c] = [data |-> reply[c].data, errors |-> EnvelopeErrors(c)]

Early == {"idle", "constructing", "building", "sending", "waiting"}
Late == {"processing", "returned"}

CallOK(c) ==
  /\ pc[c] \in Early => Fresh(c) /\ reply[c] = NoReply /\ open[c] = {}
  /\ pc[c] \in Reading => Fresh(c) /\ reply[c] \in Reply /\ "body" \in open[c]
  /\ pc[c] \in Reading \ {"unzipping"} => ~BadGzipHeader(reply[c])
  /\ pc[c] \in {"buffering", "decoding"} => reply[c].status = "200"
  /\ pc[c] = "buffering" => mode[c].debug
  /\ pc[c] = "decoding" /\ mode[c].debug => ~ReadAllFails(reply[c])
  /\ pc[c] \in Late => open[c] = {} /\ (Failed(c) \/ Enveloped(c))
  /\ pc[c] = "processing" /\ Enveloped(c) => errs[c] = <<>> /\ target[c] = "untouched"
  /\ pc[c] = "returned" /\ Enveloped(c) =>
       IF mode[c].raw
       THEN errs[c] = env[c].errors /\ target[c] = "untouched"
       ELSE errs[c] = UnmarshalErrors(c) /\ target[c] \in Unmarshalled(c)

Inv == TypeOK /\ \A c \in Calls : CallOK(c)

-----------------------------------------------------------------------------
(* Facts about errors. *)

USE DEF Modes

LEMMA NewErrorType ==
  ASSUME NEW code \in LocalCodes
  PROVE  newError(code) \in Error /\ newError(code).code = code
BY DEF newError, Error, Attachments

\* decorate adds information and nothing else.
LEMMA DecorateKeeps ==
  ASSUME NEW c, NEW e \in Error, NEW ctx \in Attachments
  PROVE  decorate(c, e, ctx) \in Error /\ decorate(c, e, ctx).code = e.code
BY DEF decorate, Error, Attachments

LEMMA LocalErrors ==
  ASSUME NEW c
  PROVE  /\ RequestError(c) \in Error /\ RequestError(c).code = "request_error"
         /\ DecodeFailure(c) \in Error /\ DecodeFailure(c).code = "json_decode_error"
         /\ DecodeError(c) \in Error /\ DecodeError(c).code = "graphql_decode_error"
         /\ decorate(c, newError("json_encode_error"), {}) \in Error
         /\ decorate(c, newError("json_encode_error"), {}).code = "json_encode_error"
<1>1. {} \in Attachments /\ {"request"} \in Attachments /\ {"response"} \in Attachments
      /\ {"request", "response"} \in Attachments
  BY DEF Attachments
<1>2. {"request_error", "json_decode_error", "graphql_decode_error", "json_encode_error"}
      \subseteq LocalCodes
  BY DEF LocalCodes
<1>3. RequestError(c) \in Error /\ RequestError(c).code = "request_error"
  <2>1. newError("request_error") \in Error /\ newError("request_error").code = "request_error"
    BY <1>2, NewErrorType
  <2> QED BY <2>1, <1>1, DecorateKeeps DEF RequestError
<1>4. DecodeFailure(c) \in Error /\ DecodeFailure(c).code = "json_decode_error"
  <2> DEFINE e == [newError("json_decode_error") EXCEPT !.cause = FALSE]
  <2>1. e \in Error /\ e.code = "json_decode_error"
    BY <1>2 DEF newError, Error, Attachments
  <2> HIDE DEF e
  <2>2. decorate(c, e, {"request", "response"}) \in Error
        /\ decorate(c, e, {"request", "response"}).code = "json_decode_error"
    BY <2>1, <1>1, DecorateKeeps
  <2> QED BY <2>2 DEF DecodeFailure, e
<1>5. DecodeError(c) \in Error /\ DecodeError(c).code = "graphql_decode_error"
  <2>1. newError("graphql_decode_error") \in Error
        /\ newError("graphql_decode_error").code = "graphql_decode_error"
    BY <1>2, NewErrorType
  <2> QED BY <2>1, <1>1, DecorateKeeps DEF DecodeError
<1>6. /\ decorate(c, newError("json_encode_error"), {}) \in Error
      /\ decorate(c, newError("json_encode_error"), {}).code = "json_encode_error"
  <2>1. newError("json_encode_error") \in Error
        /\ newError("json_encode_error").code = "json_encode_error"
    BY <1>2, NewErrorType
  <2> QED BY <2>1, <1>1, DecorateKeeps
<1> QED BY <1>3, <1>4, <1>5, <1>6

LEMMA EnvelopeErrorsType ==
  ASSUME NEW c \in Calls, reply[c] \in Reply
  PROVE  /\ EnvelopeErrors(c) \in Seq(Error)
         /\ Len(EnvelopeErrors(c)) = reply[c].errors
         /\ \A i \in 1..reply[c].errors : EnvelopeErrors(c)[i].code = "server"
<1>1. ServerError \in Error /\ ServerError.code = "server"
  BY DEF ServerError, Error, Attachments
<1>2. {"request", "response"} \in Attachments
  BY DEF Attachments
<1>3. LET e == decorate(c, ServerError, {"request", "response"})
      IN e \in Error /\ e.code = "server"
  BY <1>1, <1>2, DecorateKeeps
<1>4. reply[c].errors \in Nat
  BY DEF Reply
<1> QED BY <1>1, <1>3, <1>4 DEF EnvelopeErrors

LEMMA ReplyIsReply ==
  ASSUME NEW r \in Reply
  PROVE  r # NoReply
<1>1. r.status \in {"200", "other"} /\ NoReply.status = "none"
  BY DEF Reply, NoReply
<1> QED BY <1>1

-----------------------------------------------------------------------------
(* Steps. *)

\* A call that a step does not concern is as it was.
Same(c) ==
  /\ pc'[c] = pc[c] /\ mode'[c] = mode[c] /\ reply'[c] = reply[c]
  /\ open'[c] = open[c] /\ env'[c] = env[c] /\ errs'[c] = errs[c]
  /\ target'[c] = target[c]

LEMMA SameOK ==
  ASSUME NEW c \in Calls, Same(c), CallOK(c)
  PROVE  CallOK(c)'
BY DEF Same, CallOK, Fresh, Failed, Blame, Enveloped, Usable, Decoded, EnvelopeErrors,
       UnmarshalErrors, Unmarshalled, DecodeError, decorate

LEMMA InitInv == Init => Inv
<1> SUFFICES ASSUME Init PROVE Inv
  OBVIOUS
<1>1. TypeOK
  BY DEF Init, TypeOK, Stages, NoMode, Envelope, NoEnvelope
<1>2. \A c \in Calls : CallOK(c)
  BY DEF Init, CallOK, Fresh, Early, Reading, Late
<1> QED BY <1>1, <1>2 DEF Inv

LEMMA StepOthers ==
  ASSUME TypeOK, NEW c \in Calls,
         Call(c) \/ Send(c) \/ GiveUp(c) \/ Step(c) \/ Again(c),
         NEW d \in Calls \ {c}
  PROVE  Same(d)
<1>1. CASE Call(c)        BY <1>1 DEF TypeOK, Same, Call, Goto
<1>2. CASE Send(c)        BY <1>2 DEF TypeOK, Same, Send, Goto
<1>3. CASE GiveUp(c)      BY <1>3 DEF TypeOK, Same, GiveUp, FailWith, Goto
<1>4. CASE Again(c)       BY <1>4 DEF TypeOK, Same, Again, Goto
<1>5. CASE Construct(c)   BY <1>5 DEF TypeOK, Same, Construct, FailWith, Goto
<1>6. CASE Build(c)       BY <1>6 DEF TypeOK, Same, Build, FailWith, Goto
<1>7. CASE Answer(c)      BY <1>7 DEF TypeOK, Same, Answer, Goto
<1>8. CASE Unanswered(c)  BY <1>8 DEF TypeOK, Same, Unanswered, FailWith, Goto
<1>9. CASE Unzip(c)       BY <1>9 DEF TypeOK, Same, Unzip, FailWith, Goto
<1>10. CASE CheckStatus(c) BY <1>10 DEF TypeOK, Same, CheckStatus, FailWith, Goto
<1>11. CASE Buffer(c)     BY <1>11 DEF TypeOK, Same, Buffer, FailWith, Goto
<1>12. CASE Decode(c)     BY <1>12 DEF TypeOK, Same, Decode, FailWith, Goto
<1>13. CASE Process(c)    BY <1>13 DEF TypeOK, Same, Process, ProcessResponse, ReturnRaw, Goto
<1> QED BY <1>1, <1>2, <1>3, <1>4, <1>5, <1>6, <1>7, <1>8, <1>9, <1>10, <1>11,
           <1>12, <1>13 DEF Step, Process

\* request returning an error that fits the reply.
LEMMA FailWithInv ==
  ASSUME TypeOK, NEW c \in Calls, Fresh(c), NEW e \in Error, Blame(c, e.code),
         FailWith(c, e)
  PROVE  TypeOK' /\ CallOK(c)'
<1>1. TypeOK'
  <2>1. <<e>> \in Seq(Error) /\ {} \in SUBSET {"body", "reader"} /\ "processing" \in Stages
    BY DEF Stages
  <2> QED BY <2>1 DEF TypeOK, FailWith, Goto
<1>2. /\ pc'[c] = "processing" /\ errs'[c] = <<e>> /\ open'[c] = {}
      /\ mode' = mode /\ reply' = reply /\ env' = env /\ target' = target
  BY DEF TypeOK, FailWith, Goto
<1>3. Blame(c, e.code)'
  BY <1>2 DEF Blame, Usable, Decoded
<1>4. Failed(c)'
  BY <1>2, <1>3 DEF Failed, Fresh
<1>5. ~Enveloped(c)'
  BY <1>2, <1>3 DEF Enveloped, Blame
<1> QED BY <1>1, <1>2, <1>4, <1>5 DEF CallOK, Early, Reading, Late

LEMMA StepCallOK ==
  ASSUME Inv, NEW c \in Calls,
         Call(c) \/ Send(c) \/ GiveUp(c) \/ Step(c) \/ Again(c)
  PROVE  TypeOK' /\ CallOK(c)'
<1> USE DEF Inv
<1>1. CASE Call(c)
  <2>1. TypeOK'
    <3>1. PICK next \in {"constructing", "building"}, m \in Modes :
            pc' = [pc EXCEPT ![c] = next] /\ mode' = [mode EXCEPT ![c] = m]
      BY <1>1 DEF Call, Goto
    <3> QED BY <1>1, <3>1 DEF TypeOK, Call, Stages
  <2>2. pc'[c] \in {"constructing", "building"} /\ CallOK(c) /\ pc[c] = "idle"
    BY <1>1 DEF Call, Goto, TypeOK
  <2> QED BY <2>1, <2>2, <1>1 DEF Call, CallOK, Fresh, Early, Reading, Late
<1>2. CASE Send(c)
  <2>1. TypeOK'
    BY <1>2 DEF TypeOK, Send, Goto, Stages
  <2>2. pc'[c] = "waiting" /\ CallOK(c) /\ pc[c] = "sending"
    BY <1>2 DEF Send, Goto, TypeOK
  <2> QED BY <2>1, <2>2, <1>2 DEF Send, CallOK, Fresh, Early, Reading, Late
<1>3. CASE GiveUp(c)
  <2>1. Fresh(c) /\ Blame(c, "request_error") /\ FailWith(c, RequestError(c))
    BY <1>3 DEF GiveUp, CallOK, Early, Blame, Usable, TransportCodes, LocalCodes
  <2> QED BY <2>1, LocalErrors, FailWithInv
<1>4. CASE Again(c)
  <2>1. TypeOK'
    <3>1. NoMode \in Modes /\ NoEnvelope \in Envelope /\ <<>> \in Seq(Error) /\ "idle" \in Stages
      BY DEF NoMode, Envelope, NoEnvelope, Stages
    <3> QED BY <1>4, <3>1 DEF TypeOK, Again, Goto
  <2>2. pc'[c] = "idle" /\ CallOK(c) /\ pc[c] = "returned" /\ reply'[c] = NoReply
        /\ env'[c] = NoEnvelope /\ errs'[c] = <<>> /\ target'[c] = "untouched"
        /\ open' = open
    BY <1>4 DEF Again, Goto, TypeOK
  <2> QED BY <2>1, <2>2 DEF CallOK, Fresh, Early, Reading, Late
<1>5. CASE Construct(c)
  <2>1. CASE FailWith(c, newError("graphql_encode_error"))
    <3>1. newError("graphql_encode_error") \in Error
          /\ newError("graphql_encode_error").code = "graphql_encode_error"
      BY NewErrorType DEF LocalCodes
    <3>2. Fresh(c) /\ Blame(c, "graphql_encode_error")
      BY <1>5 DEF Construct, CallOK, Early, Blame, Usable, TransportCodes, LocalCodes
    <3> QED BY <2>1, <3>1, <3>2, FailWithInv
  <2>2. CASE Goto(c, "building") /\ UNCHANGED <<mode, reply, open, env, errs, target>>
    <3>1. TypeOK'
      BY <2>2 DEF TypeOK, Goto, Stages
    <3>2. pc'[c] = "building" /\ CallOK(c) /\ pc[c] = "constructing"
      BY <1>5, <2>2 DEF Construct, Goto, TypeOK
    <3> QED BY <3>1, <3>2, <2>2 DEF CallOK, Fresh, Early, Reading, Late
  <2> QED BY <1>5, <2>1, <2>2 DEF Construct
<1>6. CASE Build(c)
  <2>1. CASE FailWith(c, decorate(c, newError("json_encode_error"), {}))
    <3>1. Fresh(c) /\ Blame(c, "json_encode_error")
      BY <1>6 DEF Build, CallOK, Early, Blame, Usable, TransportCodes, LocalCodes
    <3> QED BY <2>1, <3>1, LocalErrors, FailWithInv
  <2>2. CASE Goto(c, "sending") /\ UNCHANGED <<mode, reply, open, env, errs, target>>
    <3>1. TypeOK'
      BY <2>2 DEF TypeOK, Goto, Stages
    <3>2. pc'[c] = "sending" /\ CallOK(c) /\ pc[c] = "building"
      BY <1>6, <2>2 DEF Build, Goto, TypeOK
    <3> QED BY <3>1, <3>2, <2>2 DEF CallOK, Fresh, Early, Reading, Late
  <2> QED BY <1>6, <2>1, <2>2 DEF Build
<1>7. CASE Answer(c)
  <2>1. TypeOK'
    <3>1. PICK r \in Replies : reply' = [reply EXCEPT ![c] = r]
      BY <1>7 DEF Answer
    <3>2. open' \in [Calls -> SUBSET {"body", "reader"}]
      <4>1. {"body"} \in SUBSET {"body", "reader"}
        OBVIOUS
      <4>2. open' = [open EXCEPT ![c] = {"body"}] /\ open \in [Calls -> SUBSET {"body", "reader"}]
        BY <1>7 DEF Answer, TypeOK
      <4> QED BY <4>1, <4>2
    <3>3. reply' \in [Calls -> Reply \cup {NoReply}] /\ pc' \in [Calls -> Stages]
      BY <1>7, <3>1, RepliesOK DEF TypeOK, Answer, Goto, Stages
    <3> QED BY <1>7, <3>2, <3>3 DEF TypeOK, Answer
  <2>2. pc'[c] = "unzipping" /\ CallOK(c) /\ pc[c] = "waiting" /\ open'[c] = {"body"}
        /\ reply'[c] \in Reply /\ env' = env /\ errs' = errs /\ target' = target
    BY <1>7, RepliesOK DEF Answer, Goto, TypeOK
  <2> QED BY <2>1, <2>2 DEF CallOK, Fresh, Early, Reading, Late
<1>8. CASE Unanswered(c)
  <2>1. Fresh(c) /\ Blame(c, "request_error") /\ FailWith(c, RequestError(c))
    BY <1>8 DEF Unanswered, CallOK, Early, Blame, Usable, TransportCodes, LocalCodes
  <2> QED BY <2>1, LocalErrors, FailWithInv
<1>9. CASE Unzip(c)
  <2>1. CASE BadGzipHeader(reply[c])
    <3>1. Fresh(c) /\ Blame(c, "request_error") /\ FailWith(c, RequestError(c))
      BY <1>9, <2>1 DEF Unzip, CallOK, Reading, Blame, Usable, TransportCodes, LocalCodes
    <3> QED BY <3>1, LocalErrors, FailWithInv
  <2>2. CASE ~BadGzipHeader(reply[c])
    <3>1. TypeOK'
      <4>1. open[c] \cup {"reader"} \in SUBSET {"body", "reader"}
        BY DEF TypeOK
      <4>2. /\ open' = [open EXCEPT ![c] = open[c] \cup {"reader"}]
            /\ open \in [Calls -> SUBSET {"body", "reader"}]
        BY <1>9, <2>2 DEF Unzip, TypeOK
      <4>3. open' \in [Calls -> SUBSET {"body", "reader"}]
        BY <4>1, <4>2
      <4> QED BY <1>9, <2>2, <4>3 DEF Unzip, TypeOK, Goto, Stages
    <3>2. pc'[c] = "checking" /\ CallOK(c) /\ pc[c] = "unzipping"
          /\ open'[c] = open[c] \cup {"reader"}
      BY <1>9, <2>2 DEF Unzip, Goto, TypeOK
    <3> QED BY <3>1, <3>2, <2>2, <1>9 DEF Unzip, CallOK, Fresh, Early, Reading, Late, BadGzipHeader
  <2> QED BY <2>1, <2>2
<1>10. CASE CheckStatus(c)
  <2>1. CASE reply[c].status # "200"
    <3>1. Fresh(c) /\ Blame(c, "request_error") /\ FailWith(c, RequestError(c))
      BY <1>10, <2>1 DEF CheckStatus, CallOK, Reading, Blame, Usable, TransportCodes, LocalCodes
    <3> QED BY <3>1, LocalErrors, FailWithInv
  <2>2. CASE reply[c].status = "200"
    <3>1. TypeOK'
      BY <1>10, <2>2 DEF CheckStatus, TypeOK, Goto, Stages
    <3>2. pc'[c] = (IF mode[c].debug THEN "buffering" ELSE "decoding")
          /\ CallOK(c) /\ pc[c] = "checking"
          /\ UNCHANGED <<mode, reply, open, env, errs, target>>
      BY <1>10, <2>2 DEF CheckStatus, Goto, TypeOK
    <3> QED BY <3>1, <3>2, <2>2 DEF CallOK, Fresh, Early, Reading, Late, BadGzipHeader
  <2> QED BY <2>1, <2>2
<1>11. CASE Buffer(c)
  <2>1. CASE ReadAllFails(reply[c])
    <3>1. newError("json_decode_error") \in Error
          /\ newError("json_decode_error").code = "json_decode_error"
      BY NewErrorType DEF LocalCodes
    <3>2. /\ Fresh(c) /\ reply[c] \in Reply /\ mode[c].debug
          /\ ~BadGzipHeader(reply[c]) /\ reply[c].status = "200"
      BY <1>11 DEF Buffer, CallOK, Reading
    <3>3. Usable(c) /\ ~Decoded(c)
      BY <2>1, <3>2, ReplyIsReply DEF Usable, Decoded, ReadAllFails
    <3>4. Blame(c, "json_decode_error") /\ FailWith(c, newError("json_decode_error"))
      BY <1>11, <2>1, <3>3 DEF Buffer, Blame, TransportCodes, LocalCodes
    <3> QED BY <3>1, <3>2, <3>4, FailWithInv
  <2>2. CASE ~ReadAllFails(reply[c])
    <3>1. TypeOK'
      BY <1>11, <2>2 DEF Buffer, TypeOK, Goto, Stages
    <3>2. pc'[c] = "decoding" /\ CallOK(c) /\ pc[c] = "buffering"
          /\ UNCHANGED <<mode, reply, open, env, errs, target>>
      BY <1>11, <2>2 DEF Buffer, Goto, TypeOK
    <3> QED BY <3>1, <3>2, <2>2 DEF CallOK, Fresh, Early, Reading, Late, BadGzipHeader, ReadAllFails
  <2> QED BY <2>1, <2>2
<1>12. CASE Decode(c)
  <2> CallOK(c) /\ pc[c] = "decoding"
    BY <1>12 DEF Decode
  <2>1. /\ Fresh(c) /\ reply[c] \in Reply /\ Usable(c)
        /\ mode[c].debug => ~ReadAllFails(reply[c])
    BY ReplyIsReply DEF CallOK, Reading, Usable
  <2>2. CASE reply[c].stream # "value"
    <3>1. Blame(c, "json_decode_error") /\ FailWith(c, DecodeFailure(c))
      BY <1>12, <2>1, <2>2 DEF Decode, Blame, Decoded, TransportCodes, LocalCodes
    <3> QED BY <2>1, <3>1, LocalErrors, FailWithInv
  <2>3. CASE reply[c].stream = "value"
    <3>1. /\ pc' = [pc EXCEPT ![c] = "processing"]
          /\ env' = [env EXCEPT ![c] = [data |-> reply[c].data, errors |-> EnvelopeErrors(c)]]
          /\ open' = [open EXCEPT ![c] = {}]
          /\ UNCHANGED <<mode, reply, errs, target>>
      BY <1>12, <2>3 DEF Decode, Goto
    <3>2. [data |-> reply[c].data, errors |-> EnvelopeErrors(c)] \in Envelope
      BY <2>1, EnvelopeErrorsType DEF Envelope, Reply
    <3>3. TypeOK'
      BY <3>1, <3>2 DEF TypeOK, Stages
    <3>4. pc'[c] = "processing" /\ open'[c] = {}
          /\ env'[c] = [data |-> reply[c].data, errors |-> EnvelopeErrors(c)]
      BY <3>1 DEF TypeOK
    <3>5. Enveloped(c)'
      BY <2>1, <2>3, <3>1, <3>4
      DEF Enveloped, Usable, Decoded, ReadAllFails, EnvelopeErrors, decorate
    <3> QED BY <2>1, <3>1, <3>3, <3>4, <3>5 DEF CallOK, Fresh, Early, Reading, Late
  <2> QED BY <2>2, <2>3
<1>13. CASE Process(c)
  <2> CallOK(c) /\ pc[c] = "processing"
    BY <1>13 DEF Process, ProcessResponse, ReturnRaw
  <2>1. pc'[c] = "returned" /\ open' = open /\ env' = env /\ reply' = reply /\ mode' = mode
    BY <1>13 DEF Process, ProcessResponse, ReturnRaw, Goto, TypeOK
  <2>2. CASE Failed(c)
    <3>1. errs[c] # <<>>
      BY <2>2 DEF Failed
    <3>2. errs' = errs /\ target' = target
      BY <1>13, <3>1 DEF TypeOK, Process, ProcessResponse, ReturnRaw
    <3>3. TypeOK'
      BY <1>13, <3>2 DEF Process, ProcessResponse, ReturnRaw, TypeOK, Goto, Stages
    <3>4. Failed(c)' /\ ~Enveloped(c)'
      BY <2>1, <2>2, <3>2 DEF Failed, Blame, Usable, Decoded, Enveloped
    <3> QED BY <2>1, <3>3, <3>4 DEF CallOK, Early, Reading, Late
  <2>3. CASE Enveloped(c)
    <3>1. errs[c] = <<>> /\ target[c] = "untouched" /\ env[c].errors \in Seq(Error)
      BY <2>3 DEF CallOK, TypeOK, Envelope
    <3>2. Enveloped(c)'
      BY <2>1, <2>3 DEF Enveloped, Usable, Decoded, EnvelopeErrors, decorate
    <3>3. CASE mode[c].raw
      <4>1. errs' = [errs EXCEPT ![c] = env[c].errors] /\ target' = target
        BY <1>13, <3>1, <3>3 DEF Process, ProcessResponse, ReturnRaw
      <4>2. TypeOK'
        BY <1>13, <3>1, <4>1 DEF Process, ProcessResponse, ReturnRaw, TypeOK, Goto, Stages
      <4>3. errs'[c] = env[c].errors /\ target'[c] = "untouched"
        BY <3>1, <4>1 DEF TypeOK
      <4> QED BY <2>1, <3>2, <3>3, <4>2, <4>3 DEF CallOK, Early, Reading, Late
    <3>4. CASE ~mode[c].raw
      <4>1. /\ errs' = [errs EXCEPT ![c] = UnmarshalErrors(c)]
            /\ \E outcome \in Unmarshalled(c) : target' = [target EXCEPT ![c] = outcome]
        BY <1>13, <3>1, <3>4 DEF Process, ProcessResponse, ReturnRaw
      <4>2. UnmarshalErrors(c) \in Seq(Error)
        BY <3>1, LocalErrors DEF UnmarshalErrors
      <4>3. Unmarshalled(c) \subseteq {"untouched", "cleared", "filled", "partly filled"}
        BY DEF Unmarshalled
      <4>4. TypeOK'
        BY <1>13, <4>1, <4>2, <4>3 DEF Process, ProcessResponse, ReturnRaw, TypeOK, Goto, Stages
      <4>5. errs'[c] = UnmarshalErrors(c) /\ target'[c] \in Unmarshalled(c)
        BY <4>1 DEF TypeOK
      <4>6. UnmarshalErrors(c)' = UnmarshalErrors(c) /\ Unmarshalled(c)' = Unmarshalled(c)
        BY <2>1 DEF UnmarshalErrors, Unmarshalled, DecodeError, decorate
      <4> QED BY <2>1, <3>2, <3>4, <4>4, <4>5, <4>6 DEF CallOK, Early, Reading, Late
    <3> QED BY <3>3, <3>4
  <2> QED BY <2>2, <2>3 DEF CallOK, Late
<1> QED BY <1>1, <1>2, <1>3, <1>4, <1>5, <1>6, <1>7, <1>8, <1>9, <1>10, <1>11,
           <1>12, <1>13 DEF Step, Process

THEOREM NextInv == Inv /\ [Next]_vars => Inv'
<1> SUFFICES ASSUME Inv, [Next]_vars PROVE Inv'
  OBVIOUS
<1>1. CASE Next
  <2>1. PICK c \in Calls : Call(c) \/ Send(c) \/ GiveUp(c) \/ Step(c) \/ Again(c)
    BY <1>1 DEF Next
  <2>2. TypeOK' /\ CallOK(c)'
    BY <2>1, StepCallOK
  <2>3. \A d \in Calls \ {c} : CallOK(d)'
    BY <2>1, StepOthers, SameOK DEF Inv
  <2> QED BY <2>2, <2>3 DEF Inv
<1>2. CASE UNCHANGED vars
  <2>1. TypeOK'
    BY <1>2 DEF Inv, TypeOK, vars
  <2>2. \A c \in Calls : CallOK(c)'
    BY <1>2, SameOK DEF Inv, Same, vars
  <2> QED BY <2>1, <2>2 DEF Inv
<1> QED BY <1>1, <1>2

THEOREM Invariance == Safety => []Inv
<1>1. Init => Inv
  BY InitInv
<1>2. Inv /\ [Next]_vars => Inv'
  BY NextInv
<1> QED BY <1>1, <1>2, PTL DEF Safety

-----------------------------------------------------------------------------
(* The properties of module ClientRequest. *)

\* Types, for any number of calls and replies.
THEOREM TypeCorrect == Safety => []TypeOK
<1>1. Inv => TypeOK
  BY DEF Inv
<1> QED BY <1>1, Invariance, PTL

\* Every path out of request closes what it opened (request.go:82-97, 135-136).
THEOREM BodiesClosed == Safety => []NothingLeftOpen
<1>1. Inv => NothingLeftOpen
  <2> SUFFICES ASSUME Inv, NEW c \in Calls, pc[c] \notin Reading PROVE open[c] = {}
    BY DEF NothingLeftOpen
  <2>1. pc[c] \in Early \/ pc[c] \in Late
    BY DEF Inv, TypeOK, Stages, Early, Late, Reading
  <2> QED BY <2>1 DEF Inv, CallOK
<1> QED BY <1>1, Invariance, PTL

\* The codes of a call that failed.
LEMMA FailedCodes ==
  ASSUME NEW c \in Calls, Failed(c)
  PROVE  \E code : Codes(c) = {code} /\ Len(errs[c]) = 1 /\ Blame(c, code)
<1>1. PICK e \in Error : errs[c] = <<e>> /\ Blame(c, e.code)
  BY DEF Failed
<1>2. DOMAIN errs[c] = {1} /\ errs[c][1] = e /\ Len(errs[c]) = 1
  BY <1>1
<1> QED BY <1>1, <1>2 DEF Codes

LEMMA EnvelopedData ==
  ASSUME NEW c \in Calls, Enveloped(c)
  PROVE  env[c].data \in {"absent", "null", "fits", "misfits"}
<1>1. reply[c].data \in {"absent", "null", "fits", "misfits"}
  BY DEF Enveloped, Reply
<1>2. env[c].data = reply[c].data
  BY DEF Enveloped
<1> QED BY <1>1, <1>2

\* The errors of a call that got an envelope, once it has returned.
LEMMA EnvelopedCodes ==
  ASSUME Inv, NEW c \in Calls, pc[c] = "returned", Enveloped(c)
  PROVE  /\ Len(errs[c]) = reply[c].errors + (IF Misfit(c) THEN 1 ELSE 0)
         /\ DOMAIN errs[c] = 1..Len(errs[c])
         /\ reply[c].errors \in Nat
         /\ \A i \in 1..reply[c].errors : errs[c][i].code = "server"
         /\ Misfit(c) => errs[c][reply[c].errors + 1].code = "graphql_decode_error"
<1> DEFINE ee == EnvelopeErrors(c)
           n == reply[c].errors
<1>1. /\ ee \in Seq(Error) /\ Len(ee) = n /\ n \in Nat
      /\ \A i \in 1..n : ee[i].code = "server"
  BY EnvelopeErrorsType DEF Enveloped, Reply
<1>2. /\ env[c].errors = ee /\ env[c].data = reply[c].data
      /\ IF mode[c].raw THEN errs[c] = env[c].errors ELSE errs[c] = UnmarshalErrors(c)
  BY DEF Inv, CallOK, Enveloped
<1>3. errs[c] = IF Misfit(c) THEN Append(ee, DecodeError(c)) ELSE ee
  BY <1>2 DEF Misfit, UnmarshalErrors
<1>4. DecodeError(c).code = "graphql_decode_error" /\ DecodeError(c) \in Error
  BY LocalErrors
<1> HIDE DEF ee
<1> QED BY <1>1, <1>3, <1>4

\* "On a transport-level failure the returned *Response is nil", only then, and
\* with exactly one error: the response is never nil without one.
THEOREM ResponseOrError == Safety => []ResponseUnlessTransportError
<1>1. Inv => ResponseUnlessTransportError
  <2> SUFFICES ASSUME Inv, NEW c \in Calls, pc[c] \in {"processing", "returned"}
               PROVE  /\ env[c] = NoEnvelope <=> Codes(c) \cap TransportCodes # {}
                      /\ env[c] = NoEnvelope => Len(errs[c]) = 1
    BY DEF ResponseUnlessTransportError
  <2>1. CASE Failed(c)
    <3>1. env[c] = NoEnvelope
      BY <2>1 DEF Failed
    <3> QED BY <2>1, <3>1, FailedCodes DEF Blame
  <2>2. CASE Enveloped(c)
    <3>1. env[c] # NoEnvelope
      <4>1. env[c].data # "nil"
        BY <2>2, EnvelopedData
      <4>2. NoEnvelope.data = "nil"
        BY DEF NoEnvelope
      <4> QED BY <4>1, <4>2
    <3>2. Codes(c) \cap TransportCodes = {}
      <4>1. CASE pc[c] = "processing"
        BY <2>2, <4>1 DEF Inv, CallOK, Codes
      <4>2. CASE pc[c] = "returned"
        <5>1. \A i \in DOMAIN errs[c] : errs[c][i].code \in {"server", "graphql_decode_error"}
          <6> DEFINE n == reply[c].errors
          <6>1. /\ n \in Nat /\ DOMAIN errs[c] = 1..Len(errs[c])
                /\ Len(errs[c]) = n + (IF Misfit(c) THEN 1 ELSE 0)
                /\ \A i \in 1..n : errs[c][i].code = "server"
                /\ Misfit(c) => errs[c][n + 1].code = "graphql_decode_error"
            BY <2>2, <4>2, EnvelopedCodes
          <6> QED BY <6>1
        <5> QED BY <5>1 DEF Codes, TransportCodes, LocalCodes
      <4> QED BY <4>1, <4>2
    <3> QED BY <3>1, <3>2
  <2> QED BY <2>1, <2>2 DEF Inv, CallOK, Late
<1> QED BY <1>1, Invariance, PTL

\* The error a caller gets is the one its reply calls for, and nothing the server
\* reported is lost.
THEOREM ErrorsMatchReplies == Safety => []ErrorMatchesReply
<1>1. Inv => ErrorMatchesReply
  <2> SUFFICES ASSUME Inv, NEW c \in Calls, Returned(c)
               PROVE  CASE ~Usable(c) ->
                            /\ reply[c] # NoReply => Codes(c) = {"request_error"}
                            /\ Codes(c) \subseteq {"request_error", "json_encode_error", "graphql_encode_error"}
                        [] Usable(c) /\ ~Decoded(c) -> Codes(c) = {"json_decode_error"}
                        [] OTHER ->
                            /\ Len(errs[c]) = reply[c].errors + (IF Misfit(c) THEN 1 ELSE 0)
                            /\ \A i \in 1..reply[c].errors : errs[c][i].code = "server"
                            /\ Misfit(c) => errs[c][reply[c].errors + 1].code = "graphql_decode_error"
    BY DEF ErrorMatchesReply
  <2>1. CASE Failed(c)
    <3>1. PICK code : Codes(c) = {code} /\ Blame(c, code)
      BY <2>1, FailedCodes
    <3>2. ~(Usable(c) /\ Decoded(c))
      BY <3>1 DEF Blame
    <3> QED BY <3>1, <3>2 DEF Blame
  <2>2. CASE Enveloped(c)
    <3>1. Usable(c) /\ Decoded(c)
      BY <2>2 DEF Enveloped
    <3> QED BY <2>2, <3>1, EnvelopedCodes DEF Returned
  <2> QED BY <2>1, <2>2 DEF Inv, CallOK, Late, Returned
<1> QED BY <1>1, Invariance, PTL

\* The caller's struct holds the data of the reply or the error says why not, and
\* nothing else writes to it.
THEOREM TargetsHoldData == Safety => []TargetHoldsData
<1>1. Inv => TargetHoldsData
  <2> SUFFICES ASSUME Inv, NEW c \in Calls, Returned(c)
               PROVE  CASE ~Delivered(c) -> target[c] = "untouched"
                        [] Delivered(c) /\ ~Misfit(c) ->
                             target[c] = IF reply[c].data = "null" THEN "cleared" ELSE "filled"
                        [] Delivered(c) /\ Misfit(c) ->
                             /\ target[c] \notin {"cleared", "filled"}
                             /\ "graphql_decode_error" \in Codes(c)
    BY DEF TargetHoldsData
  <2>1. CASE Failed(c)
    <3>1. ~(Usable(c) /\ Decoded(c))
      BY <2>1, FailedCodes DEF Blame
    <3> QED BY <2>1, <3>1 DEF Failed, Delivered
  <2>2. CASE Enveloped(c)
    <3>1. /\ Usable(c) /\ Decoded(c)
          /\ env[c].data = reply[c].data /\ reply[c].data \in {"absent", "null", "fits", "misfits"}
      <4>1. Usable(c) /\ Decoded(c) /\ env[c] = [data |-> reply[c].data, errors |-> EnvelopeErrors(c)]
        BY <2>2 DEF Enveloped
      <4>2. env[c].data = reply[c].data
        BY <4>1
      <4>3. env[c].data \in {"absent", "null", "fits", "misfits"}
        BY <2>2, EnvelopedData
      <4> QED BY <4>1, <4>2, <4>3
    <3>2. IF mode[c].raw THEN target[c] = "untouched" ELSE target[c] \in Unmarshalled(c)
      BY <2>2 DEF Inv, CallOK, Returned
    <3>3. CASE ~Delivered(c)
      BY <3>1, <3>2, <3>3 DEF Delivered, Unmarshalled
    <3>4. CASE Delivered(c) /\ ~Misfit(c)
      BY <3>1, <3>2, <3>4 DEF Delivered, Misfit, Unmarshalled
    <3>5. CASE Delivered(c) /\ Misfit(c)
      <4>1. target[c] \notin {"cleared", "filled"}
        BY <3>1, <3>2, <3>5 DEF Misfit, Unmarshalled
      <4>2. "graphql_decode_error" \in Codes(c)
        <5> DEFINE n == reply[c].errors
        <5>1. /\ n \in Nat /\ DOMAIN errs[c] = 1..Len(errs[c])
              /\ Len(errs[c]) = n + 1 /\ errs[c][n + 1].code = "graphql_decode_error"
          BY <2>2, <3>5, EnvelopedCodes DEF Returned
        <5>2. n + 1 \in DOMAIN errs[c]
          BY <5>1
        <5> HIDE DEF n
        <5> QED BY <5>1, <5>2 DEF Codes
      <4> QED BY <3>5, <4>1, <4>2
    <3> QED BY <3>3, <3>4, <3>5
  <2> QED BY <2>1, <2>2 DEF Inv, CallOK, Late, Returned
<1> QED BY <1>1, Invariance, PTL

-----------------------------------------------------------------------------
(* The pipeline keeps the promise of CallPromise: every step of a call is a *)
(* step of the promise, or none of its business.                            *)

Pending == {"constructing", "building", "sending"}
Holding == {"waiting"} \cup Reading

\* The stage of a call, where the invariant holds.
StageAt(where) ==
  IF where = "idle" THEN "idle"
  ELSE IF where \in Pending THEN "pending"
  ELSE IF where \in Holding THEN "connected"
  ELSE IF where = "processing" THEN "settling"
  ELSE "returned"

LEMMA StageOf ==
  ASSUME NEW c \in Calls, pc[c] \in Stages, CallOK(c)
  PROVE  Stage(c) = StageAt(pc[c])
BY DEF Stage, StageAt, Stages, CallOK, Early, Reading, Late, Pending, Holding

\* How the stage of a call changes.
Moves(c) ==
  \/ pc[c] = "idle" /\ pc'[c] \in Pending
  \/ pc[c] \in Pending /\ pc'[c] \in Pending
  \/ pc[c] \in Pending /\ pc'[c] = "waiting" /\ Cardinality(InUse) < Conns
  \/ pc[c] \in Holding /\ pc'[c] \in Holding
  \/ pc[c] \in Pending \cup Holding /\ pc'[c] = "processing"
  \/ pc[c] = "processing" /\ pc'[c] = "returned"
  \/ pc[c] = "returned" /\ pc'[c] = "idle"

LEMMA StepMoves ==
  ASSUME TypeOK, NEW c \in Calls,
         Call(c) \/ Send(c) \/ GiveUp(c) \/ Step(c) \/ Again(c)
  PROVE  Moves(c)
<1> USE DEF TypeOK, Moves, Pending, Holding, Reading, Goto
<1>1. CASE Call(c)        BY <1>1 DEF Call
<1>2. CASE Send(c)        BY <1>2 DEF Send
<1>3. CASE GiveUp(c)      BY <1>3 DEF GiveUp, FailWith
<1>4. CASE Again(c)       BY <1>4 DEF Again
<1>5. CASE Construct(c)   BY <1>5 DEF Construct, FailWith
<1>6. CASE Build(c)       BY <1>6 DEF Build, FailWith
<1>7. CASE Answer(c)      BY <1>7 DEF Answer
<1>8. CASE Unanswered(c)  BY <1>8 DEF Unanswered, FailWith
<1>9. CASE Unzip(c)       BY <1>9 DEF Unzip, FailWith
<1>10. CASE CheckStatus(c) BY <1>10 DEF CheckStatus, FailWith
<1>11. CASE Buffer(c)     BY <1>11 DEF Buffer, FailWith
<1>12. CASE Decode(c)     BY <1>12 DEF Decode, FailWith
<1>13. CASE Process(c)    BY <1>13 DEF Process, ProcessResponse, ReturnRaw
<1> QED BY <1>1, <1>2, <1>3, <1>4, <1>5, <1>6, <1>7, <1>8, <1>9, <1>10, <1>11,
           <1>12, <1>13 DEF Step, Process

stageBar == [c \in Calls |-> Stage(c)]
answerBar == [c \in Calls |-> Told(c)]

LEMMA ConnectedIsInUse == {c \in Calls : stageBar[c] = "connected"} = InUse
<1>1. ASSUME NEW c \in Calls
      PROVE  stageBar[c] = "connected" <=> pc[c] = "waiting" \/ "body" \in open[c]
  BY DEF stageBar, Stage
<1> QED BY <1>1 DEF InUse

LEMMA PromiseStep ==
  ASSUME Inv, Inv', Next
  PROVE  Promise!Next \/ UNCHANGED <<stageBar, answerBar>>
<1>1. PICK c \in Calls : Call(c) \/ Send(c) \/ GiveUp(c) \/ Step(c) \/ Again(c)
  BY DEF Next
<1>2. Moves(c)
  BY <1>1, StepMoves DEF Inv
<1>3. \A d \in Calls \ {c} : Same(d)
  BY <1>1, StepOthers DEF Inv
<1>4. \A d \in Calls \ {c} : Stage(d)' = Stage(d) /\ Told(d)' = Told(d)
  BY <1>3 DEF Stage, Told, Same
<1>5. Stage(c) = StageAt(pc[c])
  BY StageOf DEF Inv, TypeOK
<1>6. Stage(c)' = StageAt(pc'[c])
  <2>1. pc'[c] \in Stages /\ CallOK(c)'
    BY DEF Inv, TypeOK
  <2> QED BY <2>1 DEF Stage, StageAt, Stages, CallOK, Early, Reading, Late, Pending, Holding
<1>7. /\ pc[c] # "returned" => Told(c) = "none"
      /\ pc'[c] # "returned" => Told(c)' = "none"
      /\ pc'[c] = "returned" => Told(c)' \in {"no response", "response"}
  BY DEF Told
<1>8. \A d \in Calls : stageBar[d] = Stage(d) /\ answerBar[d] = Told(d)
  BY DEF stageBar, answerBar
<1>9. /\ stageBar' = [stageBar EXCEPT ![c] = Stage(c)']
      /\ answerBar' = [answerBar EXCEPT ![c] = Told(c)']
  BY <1>4 DEF stageBar, answerBar
<1>10. ASSUME Told(c)' = Told(c) PROVE answerBar' = answerBar
  BY <1>9, <1>8, <1>10 DEF answerBar
<1>11. ASSUME NEW from, NEW to, Stage(c) = from, Stage(c)' = to
       PROVE  stageBar[c] = from /\ stageBar' = [stageBar EXCEPT ![c] = to]
  BY <1>8, <1>9, <1>11
<1> USE DEF StageAt, Pending, Holding, Reading
<1>12. CASE pc[c] = "idle" /\ pc'[c] \in Pending
  <2>1. Stage(c) = "idle" /\ Stage(c)' = "pending" /\ Told(c)' = Told(c)
    BY <1>5, <1>6, <1>7, <1>12
  <2>2. Promise!Begin(c)
    BY <2>1, <1>10, <1>11 DEF Promise!Begin, Promise!Goes, stageBar, answerBar
  <2> QED BY <2>2 DEF Promise!Next
<1>13. CASE \/ pc[c] \in Pending /\ pc'[c] \in Pending
            \/ pc[c] \in Holding /\ pc'[c] \in Holding
  <2>1. Stage(c)' = Stage(c) /\ Told(c)' = Told(c)
    BY <1>5, <1>6, <1>7, <1>13
  <2>2. stageBar' = stageBar
    BY <2>1, <1>8, <1>9 DEF stageBar
  <2> QED BY <2>1, <2>2, <1>10
<1>14. CASE pc[c] \in Pending /\ pc'[c] = "waiting" /\ Cardinality(InUse) < Conns
  <2>1. Stage(c) = "pending" /\ Stage(c)' = "connected" /\ Told(c)' = Told(c)
    BY <1>5, <1>6, <1>7, <1>14
  <2>2. Promise!Cardinality(Promise!Connected) < Conns
    <3>1. Promise!Connected = InUse
      BY ConnectedIsInUse DEF Promise!Connected, stageBar
    <3>2. \A S : Promise!Cardinality(S) = Cardinality(S)
      BY DEF Promise!Cardinality, Cardinality
    <3> QED BY <1>14, <3>1, <3>2
  <2>3. Promise!Goes(c, "pending", "connected") /\ answerBar' = answerBar
    BY <2>1, <1>10, <1>11 DEF Promise!Goes, stageBar
  <2>4. Promise!Connect(c)
    BY <2>2, <2>3 DEF Promise!Connect, answerBar
  <2> QED BY <2>4 DEF Promise!Next
<1>15. CASE pc[c] \in Pending \cup Holding /\ pc'[c] = "processing"
  <2>1. Stage(c) \in {"pending", "connected"} /\ Stage(c)' = "settling" /\ Told(c)' = Told(c)
    BY <1>5, <1>6, <1>7, <1>15
  <2>2. Promise!Disconnect(c)
    BY <2>1, <1>10, <1>11 DEF Promise!Disconnect, Promise!Goes, stageBar, answerBar
  <2> QED BY <2>2 DEF Promise!Next
<1>16. CASE pc[c] = "processing" /\ pc'[c] = "returned"
  <2>1. /\ Stage(c) = "settling" /\ Stage(c)' = "returned"
        /\ Told(c)' \in {"no response", "response"}
    BY <1>5, <1>6, <1>7, <1>16
  <2>2. Promise!Return(c)
    BY <2>1, <1>9, <1>11 DEF Promise!Return, Promise!Goes, stageBar, answerBar
  <2> QED BY <2>2 DEF Promise!Next
<1>17. CASE pc[c] = "returned" /\ pc'[c] = "idle"
  <2>1. Stage(c) = "returned" /\ Stage(c)' = "idle" /\ Told(c)' = "none"
    BY <1>5, <1>6, <1>7, <1>17
  <2>2. Promise!Again(c)
    BY <2>1, <1>9, <1>11 DEF Promise!Again, Promise!Goes, stageBar, answerBar
  <2> QED BY <2>2 DEF Promise!Next
<1> QED BY <1>2, <1>12, <1>13, <1>14, <1>15, <1>16, <1>17 DEF Moves

\* The pipeline implements CallPromise: a call that returns holds no connection,
\* no more than Conns calls hold one, and the caller is told one thing.
THEOREM ImplementsCallPromise == Safety => KeepsPromise
<1>1. Init => Promise!Init
  BY DEF Init, Promise!Init, Stage, Told
<1>2. Inv /\ Inv' /\ [Next]_vars => [Promise!Next]_<<stageBar, answerBar>>
  <2> SUFFICES ASSUME Inv, Inv', [Next]_vars
               PROVE  Promise!Next \/ UNCHANGED <<stageBar, answerBar>>
    OBVIOUS
  <2>1. CASE UNCHANGED vars
    BY <2>1 DEF vars, stageBar, answerBar, Stage, Told
  <2> QED BY <2>1, PromiseStep
<1>3. Inv /\ Inv' /\ [Next]_vars => [Promise!Next]_Promise!promiseVars
  BY <1>2 DEF Promise!promiseVars, stageBar, answerBar
<1> QED BY <1>1, <1>3, Invariance, PTL DEF Safety, KeepsPromise, Promise!Spec
=================================================================================
