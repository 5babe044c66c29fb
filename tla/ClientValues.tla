------------------------------ MODULE ClientValues ------------------------------
(***************************************************************************)
(* What "immutable pattern" (client.go:16-30) promises: a client is a      *)
(* value.  Deriving a client from another makes a new value and changes    *)
(* none; what a caller does afterwards to the http.Header it passed in     *)
(* changes none; and every request carries the headers of the client it    *)
(* was built from, whoever else uses or derives from the client meanwhile. *)
(***************************************************************************)
EXTENDS Naturals, Sequences

CONSTANTS
  Goroutines,
  Keys,         \* spellings of header names
  Canonical,    \* the canonical spelling of each (textproto.CanonicalMIMEHeaderKey)
  ContentType,  \* "Content-Type"
  JSONType,     \* "application/json"
  NoValue,      \* for a header that is absent
  Values,       \* values of headers
  Contents,     \* what callers put into the http.Header values they pass
  Modifiers,    \* request modifiers, each the headers it sets; NoModifier is nil
  NoModifier,
  HTTPClients,  \* http.Clients
  MaxClients, MaxArgs   \* bounds on NewClient and With*, and on http.Header values

Names == {Canonical[k] : k \in Keys}
NoRequest == <<>>
Last(s) == s[Len(s)]

VARIABLES
  confs,   \* the clients made so far
  args,    \* the http.Header values callers own
  sent     \* of each goroutine: the headers of the request it built, or NoRequest

valuesVars == <<confs, args, sent>>

Init == confs = <<>> /\ args = <<>> /\ sent = [g \in Goroutines |-> NoRequest]

\* http.Header.Set, and the merge of WithHeaders.
Put(headers, k, values) ==
  [x \in DOMAIN headers \cup {k} |-> IF x = k THEN values ELSE headers[x]]
Merge(headers, given) ==
  [x \in DOMAIN headers \cup DOMAIN given |-> IF x \in DOMAIN given THEN given[x] ELSE headers[x]]

Make(conf) == confs' = Append(confs, conf) /\ UNCHANGED <<args, sent>>

New(hc) == Make([headers |-> <<>>, modifier |-> NoModifier, debug |-> FALSE, httpClient |-> hc])

Derive(conf) ==
  \/ \E k \in Keys, v \in Values :
       Make([conf EXCEPT !.headers = Put(@, Canonical[k], <<v>>)])
  \/ Make(conf)   \* WithHeaders(nil)
  \/ \E i \in DOMAIN args : Make([conf EXCEPT !.headers = Merge(@, args[i])])
  \/ \E m \in Modifiers : Make([conf EXCEPT !.modifier = m])
  \/ \E hc \in HTTPClients : Make([conf EXCEPT !.httpClient = hc])
  \/ \E d \in BOOLEAN : Make([conf EXCEPT !.debug = d])

\* The request r has the client's headers: the last value of each, of one of the
\* spellings if there are several, unless the modifier sets another.
HasHeadersOf(r, conf) ==
  \A n \in Names :
    LET spellings == {k \in DOMAIN conf.headers : Canonical[k] = n /\ conf.headers[k] # <<>>}
    IN IF n \in DOMAIN conf.modifier THEN r[n] = conf.modifier[n]
       ELSE IF spellings # {} THEN \E k \in spellings : r[n] = Last(conf.headers[k])
       ELSE r[n] = IF n = ContentType THEN JSONType ELSE NoValue

Deliver(g) ==
  /\ sent[g] = NoRequest
  /\ \E r \in [Names -> Values \cup {JSONType, NoValue}], i \in DOMAIN confs :
       HasHeadersOf(r, confs[i]) /\ sent' = [sent EXCEPT ![g] = r]
  /\ UNCHANGED <<confs, args>>

Forget(g) ==
  sent[g] # NoRequest /\ sent' = [sent EXCEPT ![g] = NoRequest] /\ UNCHANGED <<confs, args>>

\* A caller makes an http.Header, or overwrites a value in one.
MakeArg(content) == args' = Append(args, content) /\ UNCHANGED <<confs, sent>>
EditArg(i, k, n, v) ==
  /\ k \in DOMAIN args[i] /\ n \in DOMAIN args[i][k]
  /\ args' = [args EXCEPT ![i][k][n] = v]
  /\ UNCHANGED <<confs, sent>>

Next ==
  \/ \E hc \in HTTPClients : New(hc)
  \/ \E i \in DOMAIN confs : Derive(confs[i])
  \/ \E g \in Goroutines : Deliver(g) \/ Forget(g)
  \/ \E content \in Contents : MakeArg(content)
  \/ \E i \in DOMAIN args, k \in Keys, v \in Values :
       k \in DOMAIN args[i] /\ \E n \in DOMAIN args[i][k] : EditArg(i, k, n, v)

Spec == Init /\ [][Next]_valuesVars
=================================================================================
