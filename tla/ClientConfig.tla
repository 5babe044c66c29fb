------------------------------ MODULE ClientConfig ------------------------------
(***************************************************************************)
(* The configuration of clients (client.go) and the requests built from it *)
(* (BuildRequest, request.go), at the level where it could go wrong: Go    *)
(* maps and slices are references.                                         *)
(*                                                                         *)
(* heap.maps is the http.Header maps that were made; map 0 is nil.  A map  *)
(* takes a key to a slice [array, len].  heap.arrays is the arrays behind  *)
(* the slices; the array that is allocated for key k of map m is named     *)
(* <<m, k>>.  A map is filled by the operation that makes it, so an array  *)
(* that is allocated twice for one key replaces garbage.                   *)
(*                                                                         *)
(* Clients are shared: while a goroutine builds a request, header by       *)
(* header, others derive clients from the one it reads, and callers write  *)
(* to the http.Header values they passed in.                               *)
(***************************************************************************)
EXTENDS Naturals, Sequences

CONSTANTS
  Goroutines, Keys, Canonical, ContentType, JSONType, NoValue, Values, Contents,
  Modifiers, NoModifier, HTTPClients, MaxClients, MaxArgs   \* as in ClientValues

IsHeader(content) == DOMAIN content \subseteq Keys /\ content \in [DOMAIN content -> Seq(Values)]
Names == {Canonical[k] : k \in Keys}
IsModifier(f) == DOMAIN f \subseteq Names /\ \A n \in DOMAIN f : f[n] \in Values

ASSUME CanonicalOK == Canonical \in [Keys -> Keys] /\ \A n \in Names : Canonical[n] = n
ASSUME ContentTypeOK == ContentType \in Names
ASSUME ContentsOK == \A content \in Contents : IsHeader(content)
ASSUME ModifiersOK == \A f \in Modifiers \cup {NoModifier} : IsModifier(f)
ASSUME NoModifierOK == DOMAIN NoModifier = {}
ASSUME BoundsOK == MaxClients \in Nat /\ MaxArgs \in Nat

VARIABLES
  heap,     \* [arrays, maps]
  clients,  \* the clients made so far
  args,     \* the http.Header values callers own: indices of heap.maps
  builds    \* of each goroutine: the BuildRequest it is in

vars == <<heap, clients, args, builds>>

NoBuild == [stage |-> "none", client |-> 0, todo |-> {}, headers |-> <<>>]

Init ==
  /\ heap = [arrays |-> <<>>, maps |-> <<>>]
  /\ clients = <<>>
  /\ args = <<>>
  /\ builds = [g \in Goroutines |-> NoBuild]

-----------------------------------------------------------------------------
(* Maps and slices. *)

Read(arrays, slice) == SubSeq(arrays[slice.array], 1, slice.len)

\* What the map m holds.
Held(h, m) ==
  [k \in IF m = 0 THEN {} ELSE DOMAIN h.maps[m] |-> Read(h.arrays, h.maps[m][k])]

\* The heap with one more map, of the given content, in arrays of its own.
Allocate(h, content) ==
  LET m == Len(h.maps) + 1
      own == {<<m, k>> : k \in DOMAIN content}
  IN [arrays |-> [a \in DOMAIN h.arrays \cup own |->
                    IF a \in own THEN content[a[2]] ELSE h.arrays[a]],
      maps |-> Append(h.maps, [k \in DOMAIN content |->
                                 [array |-> <<m, k>>, len |-> Len(content[k])]])]

\* Mutant: the copy of the map shares the arrays of the original.
cloneHeaderShallow(h, m) ==
  IF m = 0 THEN [heap |-> h, map |-> 0]
  ELSE [heap |-> [h EXCEPT !.maps = Append(@, @[m])], map |-> Len(h.maps) + 1]

\* cloneHeader, as clone uses it: the heap and the copy.
cloneHeader(h, m) ==
  IF m = 0 THEN [heap |-> h, map |-> 0]
  ELSE [heap |-> Allocate(h, Held(h, m)), map |-> Len(h.maps) + 1]

\* A nil map is replaced by an empty one before it is written to.
EnsureMap(x) ==
  IF x.map # 0 THEN x
  ELSE [heap |-> Allocate(x.heap, <<>>), map |-> Len(x.heap.maps) + 1]

\* http.Header.Set: a new slice with one value, under the canonical key.
SetHeader(h, m, key, v) ==
  LET k == Canonical[key]
  IN [arrays |-> [a \in DOMAIN h.arrays \cup {<<m, k>>} |->
                    IF a = <<m, k>> THEN <<v>> ELSE h.arrays[a]],
      maps |-> [h.maps EXCEPT ![m] = [x \in DOMAIN @ \cup {k} |->
                    IF x = k THEN [array |-> <<m, k>>, len |-> 1] ELSE @[x]]]]

\* Mutant: the client's map gets the caller's slices.
MergeHeadersAliasing(h, m, given) ==
  [h EXCEPT !.maps[m] = [k \in DOMAIN @ \cup DOMAIN h.maps[given] |->
     IF k \in DOMAIN h.maps[given] THEN h.maps[given][k] ELSE @[k]]]

\* Mutant: values beyond the capacity of the array are not stored.
MergeHeadersInPlace(h, m, given) ==
  LET arrayOf(k) == IF k \in DOMAIN h.maps[m] THEN h.maps[m][k].array ELSE <<m, k>>
      new == {k \in DOMAIN h.maps[given] : k \notin DOMAIN h.maps[m]}
  IN [arrays |-> [a \in DOMAIN h.arrays \cup {<<m, k>> : k \in new} |->
                    IF a[1] = m /\ a[2] \in new THEN Held(h, given)[a[2]] ELSE h.arrays[a]],
      maps |-> [h.maps EXCEPT ![m] = [k \in DOMAIN @ \cup new |->
                    [array |-> arrayOf(k),
                     len |-> IF k \in DOMAIN h.maps[given] THEN h.maps[given][k].len ELSE @[k].len]]]]

\* The loop of WithHeaders, append(headers[k][:0], vs...): the values are written
\* over the array that is there if they fit, into a new one if they do not.
MergeHeaders(h, m, given) ==
  LET vs == Held(h, given)
      fits(k) == /\ k \in DOMAIN h.maps[m]
                 /\ Len(vs[k]) <= Len(h.arrays[h.maps[m][k].array])
      dest(k) == IF fits(k) THEN h.maps[m][k].array ELSE <<m, k>>
      over(a, s) == [i \in DOMAIN a |-> IF i \in DOMAIN s THEN s[i] ELSE a[i]]
      written == {dest(k) : k \in DOMAIN vs}
  IN [arrays |-> [a \in DOMAIN h.arrays \cup written |->
                    IF a \notin written THEN h.arrays[a]
                    ELSE IF fits(a[2]) THEN over(h.arrays[a], vs[a[2]]) ELSE vs[a[2]]],
      maps |-> [h.maps EXCEPT ![m] = [k \in DOMAIN @ \cup DOMAIN vs |->
                    IF k \in DOMAIN vs THEN [array |-> dest(k), len |-> Len(vs[k])] ELSE @[k]]]]

-----------------------------------------------------------------------------
(* Making clients. *)

\* The client made joins the others, in the heap h.
Made(client, h) ==
  /\ Len(clients) < MaxClients
  /\ clients' = Append(clients, client)
  /\ heap' = h
  /\ UNCHANGED <<args, builds>>

NewClient ==
  \E hc \in HTTPClients :
    Made([headers |-> 0, modifier |-> NoModifier, debug |-> FALSE, httpClient |-> hc], heap)

\* clone: what the derived client starts from.
clone(c) == cloneHeader(heap, clients[c].headers)
Derived(c) == [clients[c] EXCEPT !.headers = clone(c).map]

WithRequestModifier(c) ==
  \E f \in Modifiers : Made([Derived(c) EXCEPT !.modifier = f], clone(c).heap)

WithHTTPClient(c) ==
  \E hc \in HTTPClients : Made([Derived(c) EXCEPT !.httpClient = hc], clone(c).heap)

WithDebug(c) ==
  \E d \in BOOLEAN : Made([Derived(c) EXCEPT !.debug = d], clone(c).heap)

\* WithHeader, and WithUserAgent.
WithHeader(c) ==
  \E key \in Keys, v \in Values :
    LET x == EnsureMap(clone(c))
    IN Made([Derived(c) EXCEPT !.headers = x.map], SetHeader(x.heap, x.map, key, v))

WithHeaders(c) ==
  \/ Made(Derived(c), clone(c).heap)   \* of nil
  \/ \E i \in DOMAIN args :
       LET x == EnsureMap(clone(c))
       IN Made([Derived(c) EXCEPT !.headers = x.map], MergeHeaders(x.heap, x.map, args[i]))

\* The callers' own http.Header values.
MakeArg ==
  /\ Len(args) < MaxArgs
  /\ \E content \in Contents : heap' = Allocate(heap, content)
  /\ args' = Append(args, Len(heap.maps) + 1)
  /\ UNCHANGED <<clients, builds>>

EditArg ==
  /\ \E i \in DOMAIN args, v \in Values : \E k \in DOMAIN heap.maps[args[i]] :
       LET slice == heap.maps[args[i]][k]
       IN \E n \in 1..slice.len : heap' = [heap EXCEPT !.arrays[slice.array][n] = v]
  /\ UNCHANGED <<clients, args, builds>>

-----------------------------------------------------------------------------
(* BuildRequest. *)

SetBuild(g, b) == builds' = [builds EXCEPT ![g] = b] /\ UNCHANGED <<heap, clients, args>>

\* The request is made, with its Content-Type.
StartBuild(g) ==
  /\ builds[g].stage = "none"
  /\ \E c \in DOMAIN clients :
       SetBuild(g, [stage |-> "copying", client |-> c,
                    todo |-> DOMAIN Held(heap, clients[c].headers),
                    headers |-> [n \in Names |-> IF n = ContentType THEN JSONType ELSE NoValue]])

\* Mutant: the first value of a header is sent.
SetFirst(headers, k, vs) == IF vs = <<>> THEN headers ELSE [headers EXCEPT ![Canonical[k]] = vs[1]]

\* request.Header.Set(k, v) for each v: the last one stays.
SetEach(headers, k, vs) == IF vs = <<>> THEN headers ELSE [headers EXCEPT ![Canonical[k]] = vs[Len(vs)]]

\* One round of `for k, vs := range c.headers`, in the order the map yields.
CopyHeader(g) ==
  /\ builds[g].stage = "copying"
  /\ \E k \in builds[g].todo :
       SetBuild(g, [builds[g] EXCEPT
         !.todo = @ \ {k},
         !.headers = SetEach(@, k, Held(heap, clients[builds[g].client].headers)[k])])

\* The request modifier overrides what it sets.
Modify(g) ==
  /\ builds[g].stage = "copying" /\ builds[g].todo = {}
  /\ LET f == clients[builds[g].client].modifier
     IN SetBuild(g, [builds[g] EXCEPT
          !.stage = "built",
          !.headers = [n \in Names |-> IF n \in DOMAIN f THEN f[n] ELSE @[n]]])

\* The goroutine is done with the request.
Forget(g) == builds[g].stage = "built" /\ SetBuild(g, NoBuild)

Next ==
  \/ NewClient
  \/ \E c \in DOMAIN clients :
       \/ WithRequestModifier(c) \/ WithHTTPClient(c) \/ WithDebug(c)
       \/ WithHeader(c) \/ WithHeaders(c)
  \/ MakeArg \/ EditArg
  \/ \E g \in Goroutines : StartBuild(g) \/ CopyHeader(g) \/ Modify(g) \/ Forget(g)

Spec == Init /\ [][Next]_vars

-----------------------------------------------------------------------------
(* Properties. *)

Slice == [array : (Nat \ {0}) \X Keys, len : Nat]
Client == [headers : Nat, modifier : Modifiers \cup {NoModifier}, debug : BOOLEAN,
           httpClient : HTTPClients]
RequestHeaders == [Names -> Values \cup {JSONType, NoValue}]
Build == [stage : {"copying", "built"}, client : Nat, todo : SUBSET Keys,
          headers : RequestHeaders]

\* Types; every slice lies within its array, every client's map exists, and a
\* BuildRequest reads a client that exists and the keys its map has.
ClientsTypeOK ==
  /\ DOMAIN heap.arrays \subseteq (Nat \ {0}) \X Keys
  /\ \A a \in DOMAIN heap.arrays : heap.arrays[a] \in Seq(Values)
  /\ \A m \in DOMAIN heap.maps : \A k \in DOMAIN heap.maps[m] :
       LET slice == heap.maps[m][k]
       IN k \in Keys /\ slice \in Slice /\ slice.array \in DOMAIN heap.arrays /\ slice.len <= Len(heap.arrays[slice.array])
  /\ clients \in Seq(Client)
  /\ \A c \in DOMAIN clients : clients[c].headers \in 0..Len(heap.maps)
  /\ args \in Seq(DOMAIN heap.maps)
  /\ \A g \in Goroutines :
       \/ builds[g] = NoBuild
       \/ /\ builds[g] \in Build
          /\ builds[g].client \in DOMAIN clients
          /\ builds[g].todo \subseteq DOMAIN Held(heap, clients[builds[g].client].headers)

\* No two owners, clients or callers, share a map, and no two maps share an
\* array: nobody can write to what another one reads.
Owners == [kind : {"client"}, i : DOMAIN clients] \cup [kind : {"arg"}, i : DOMAIN args]
MapOf(owner) == IF owner.kind = "client" THEN clients[owner.i].headers ELSE args[owner.i]
NothingShared ==
  /\ \A o, p \in Owners : o # p /\ MapOf(o) = MapOf(p) => MapOf(o) = 0
  /\ \A m, n \in DOMAIN heap.maps : \A k \in DOMAIN heap.maps[m], l \in DOMAIN heap.maps[n] :
       heap.maps[m][k].array = heap.maps[n][l].array => m = n /\ k = l

\* "With* methods ... return a new Client instance rather than modifying the
\* receiver" (client.go:18): once made, a client's configuration never changes,
\* whatever is derived from it and whatever callers do to headers they passed in.
Conf(c) == [clients[c] EXCEPT !.headers = Held(heap, @)]
ClientsNeverChange == [][\A c \in DOMAIN clients : Conf(c)' = Conf(c)]_vars

\* Clients built from references behave as the values of module ClientValues.
Abstract == INSTANCE ClientValues WITH
  confs <- [c \in DOMAIN clients |-> Conf(c)],
  args <- [i \in DOMAIN args |-> Held(heap, args[i])],
  sent <- [g \in Goroutines |-> IF builds[g].stage = "built" THEN builds[g].headers ELSE <<>>]

BehavesAsValues == Abstract!Spec

\* A request, as long as its goroutine has it, has the headers of the client it was
\* built from and no other's (request.go:51): copied one by one, while clients are
\* derived from that one and callers write to the headers it was given.
RequestsHaveTheirHeaders ==
  \A g \in Goroutines :
    builds[g].stage = "built" =>
      Abstract!HasHeadersOf(builds[g].headers, Conf(builds[g].client))
=================================================================================
