------------------------------ MODULE CallPromise ------------------------------
(***************************************************************************)
(* What a caller of the client may rely on, whatever happens on the wire:  *)
(* a call that returns has given its connection back, and tells its caller *)
(* either that there is no response, and why, or what the response was.    *)
(* The connections of the http.Client are what concurrent calls compete    *)
(* for.                                                                    *)
(***************************************************************************)
EXTENDS Naturals, FiniteSets

CONSTANTS Calls, Conns

VARIABLES
  stage,  \* of each call: "idle", "pending", "connected", "settling" or "returned"
  answer  \* of each call that returned: "no response", "response", "none" before

promiseVars == <<stage, answer>>

Connected == {c \in Calls : stage[c] = "connected"}

Init ==
  /\ stage = [c \in Calls |-> "idle"]
  /\ answer = [c \in Calls |-> "none"]

Goes(c, from, to) == stage[c] = from /\ stage' = [stage EXCEPT ![c] = to]

Begin(c) == Goes(c, "idle", "pending") /\ UNCHANGED answer

Connect(c) ==
  /\ Goes(c, "pending", "connected")
  /\ Cardinality(Connected) < Conns
  /\ UNCHANGED answer

\* The connection is given back, or the call never gets one.
Disconnect(c) ==
  /\ \E from \in {"pending", "connected"} : Goes(c, from, "settling")
  /\ UNCHANGED answer

Return(c) ==
  /\ Goes(c, "settling", "returned")
  /\ \E a \in {"no response", "response"} : answer' = [answer EXCEPT ![c] = a]

\* The goroutine that made the call makes another one.
Again(c) == Goes(c, "returned", "idle") /\ answer' = [answer EXCEPT ![c] = "none"]

Next == \E c \in Calls :
  Begin(c) \/ Connect(c) \/ Disconnect(c) \/ Return(c) \/ Again(c)

Spec == Init /\ [][Next]_promiseVars
=================================================================================
