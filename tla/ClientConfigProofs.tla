-------------------------- MODULE ClientConfigProofs --------------------------
(***************************************************************************)
(* Proofs about the configuration of clients, for any number of clients,   *)
(* callers and goroutines, and any headers.  No operation lets two maps    *)
(* share an array: the array behind key k of map m is always the one that  *)
(* was allocated for it, <<m, k>> (HeapOK), so whoever writes to a map     *)
(* changes what it holds and nothing else.  Since every owner has a map of *)
(* its own (Separate), what a client holds never changes; and a request    *)
(* that is being built has the headers of its client that were copied so   *)
(* far, a finished one all of them (BuildOK).                              *)
(***************************************************************************)
EXTENDS ClientConfig, SequenceTheorems, TLAPS

Maps == UNION {[ks -> Slice] : ks \in SUBSET Keys}

\* A slice of map m at key k lies in the array that was allocated for it.
OwnSlice(h, m, k) ==
  LET slice == h.maps[m][k]
  IN /\ slice.array = <<m, k>>
     /\ <<m, k>> \in DOMAIN h.arrays
     /\ slice.len <= Len(h.arrays[<<m, k>>])

HeapOK(h) ==
  /\ h = [arrays |-> h.arrays, maps |-> h.maps]
  /\ DOMAIN h.arrays \subseteq (Nat \ {0}) \X Keys
  /\ h.arrays \in [DOMAIN h.arrays -> Seq(Values)]
  /\ h.maps \in Seq(Maps)
  /\ \A m \in DOMAIN h.maps : \A k \in DOMAIN h.maps[m] : OwnSlice(h, m, k)

\* Every owner has a map, and it is no other owner's.
Separate ==
  /\ \A c \in DOMAIN clients : clients[c].headers \in 0..Len(heap.maps)
  /\ \A i \in DOMAIN args : args[i] \in 1..Len(heap.maps)
  /\ \A c, d \in DOMAIN clients :
       c # d /\ clients[c].headers = clients[d].headers => clients[c].headers = 0
  /\ \A i, j \in DOMAIN args : args[i] = args[j] => i = j
  /\ \A c \in DOMAIN clients, i \in DOMAIN args : clients[c].headers # args[i]

\* The request headers r after the given ones were copied under the keys in done.
Carries(r, headers, done) ==
  \A n \in Names :
    LET spellings == {k \in done : Canonical[k] = n /\ headers[k] # <<>>}
    IN IF spellings # {} THEN \E k \in spellings : r[n] = headers[k][Len(headers[k])]
       ELSE r[n] = IF n = ContentType THEN JSONType ELSE NoValue

BuildOK(b) ==
  LET headers == Conf(b.client).headers
  IN b # NoBuild =>
       /\ b \in Build /\ b.client \in DOMAIN clients
       /\ b.todo \subseteq DOMAIN headers
       /\ b.stage = "copying" => Carries(b.headers, headers, DOMAIN headers \ b.todo)
       /\ b.stage = "built" => Abstract!HasHeadersOf(b.headers, Conf(b.client))

Inv ==
  /\ HeapOK(heap)
  /\ clients \in Seq(Client) /\ args \in Seq(Nat)
  /\ Separate
  /\ builds \in [Goroutines -> Build \cup {NoBuild}]
  /\ \A g \in Goroutines : BuildOK(builds[g])

-----------------------------------------------------------------------------
(* Maps, and what they hold. *)

LEMMA MapType ==
  ASSUME NEW f \in Maps
  PROVE  DOMAIN f \subseteq Keys /\ f \in [DOMAIN f -> Slice]
BY DEF Maps

LEMMA IsMap ==
  ASSUME NEW f, NEW ks \in SUBSET Keys, f \in [ks -> Slice]
  PROVE  f \in Maps
BY DEF Maps

LEMMA IsAppended ==
  ASSUME NEW n \in Nat, NEW old, old = [i \in 1..n |-> old[i]],
         NEW new, new = [i \in 1..(n + 1) |-> new[i]], \A i \in 1..n : new[i] = old[i]
  PROVE  new = Append(old, new[n + 1])
<1> DEFINE S == {new[i] : i \in 1..(n + 1)}
           x == new[n + 1]
<1>1. x \in S /\ old \in Seq(S) /\ new \in Seq(S) /\ Len(old) = n /\ Len(new) = n + 1
  <2>1. /\ n + 1 \in 1..(n + 1) /\ n + 1 \in Nat
        /\ \A i \in 1..(n + 1) : new[i] \in S
    OBVIOUS
  <2> HIDE DEF S
  <2>2. x \in S /\ \A i \in 1..n : old[i] \in S
    <3>1. ASSUME NEW i \in 1..n
          PROVE  old[i] \in S
      <4>1. i \in 1..(n + 1) /\ new[i] = old[i]
        OBVIOUS
      <4> QED BY <2>1, <4>1
    <3> QED BY <2>1, <3>1
  <2>3. old \in [1..n -> S] /\ new \in [1..(n + 1) -> S]
    BY <2>1, <2>2
  <2> QED BY <2>1, <2>2, <2>3
<1> HIDE DEF S
<1>2. /\ Append(old, x) \in Seq(S) /\ Len(Append(old, x)) = n + 1
      /\ \A i \in 1..n : Append(old, x)[i] = old[i]
      /\ Append(old, x)[n + 1] = x
  BY <1>1, AppendProperties
<1>3. ASSUME NEW i \in 1..(n + 1)
      PROVE  new[i] = Append(old, x)[i]
  <2>1. i \in 1..n \/ i = n + 1
    OBVIOUS
  <2> QED BY <1>2, <2>1
<1> QED BY <1>1, <1>2, <1>3, SeqEqual

LEMMA Prefix ==
  ASSUME NEW S, NEW s \in Seq(S), NEW n \in 0..Len(s)
  PROVE  /\ SubSeq(s, 1, n) \in Seq(S) /\ Len(SubSeq(s, 1, n)) = n
         /\ \A i \in 1..n : SubSeq(s, 1, n)[i] = s[i]
<1>1. Len(s) \in Nat /\ \A i \in 1..n : s[i] \in S
  BY LenProperties, ElementOfSeq
<1> QED BY <1>1, SubSeqProperties

\* The maps of a heap, and their slices.
LEMMA HeapMaps ==
  ASSUME NEW h, HeapOK(h), NEW m \in DOMAIN h.maps
  PROVE  /\ Len(h.maps) \in Nat /\ m \in 1..Len(h.maps) /\ h.maps[m] \in Maps
         /\ DOMAIN h.maps[m] \subseteq Keys
         /\ \A k \in DOMAIN h.maps[m] :
              /\ h.maps[m][k] = [array |-> <<m, k>>, len |-> h.maps[m][k].len]
              /\ <<m, k>> \in DOMAIN h.arrays /\ h.arrays[<<m, k>>] \in Seq(Values)
              /\ h.maps[m][k].len \in 0..Len(h.arrays[<<m, k>>])
<1>1. Len(h.maps) \in Nat /\ m \in 1..Len(h.maps) /\ h.maps[m] \in Maps
  BY LenProperties, ElementOfSeq DEF HeapOK
<1>2. DOMAIN h.maps[m] \subseteq Keys /\ h.maps[m] \in [DOMAIN h.maps[m] -> Slice]
  BY <1>1, MapType
<1>3. ASSUME NEW k \in DOMAIN h.maps[m]
      PROVE  /\ h.maps[m][k] = [array |-> <<m, k>>, len |-> h.maps[m][k].len]
             /\ <<m, k>> \in DOMAIN h.arrays /\ h.arrays[<<m, k>>] \in Seq(Values)
             /\ h.maps[m][k].len \in 0..Len(h.arrays[<<m, k>>])
  <2>1. h.maps[m][k] \in Slice /\ OwnSlice(h, m, k)
    BY <1>2, <1>3 DEF HeapOK
  <2>2. h.maps[m][k] = [array |-> h.maps[m][k].array, len |-> h.maps[m][k].len]
    BY <2>1 DEF Slice
  <2>3. h.arrays[<<m, k>>] \in Seq(Values) /\ Len(h.arrays[<<m, k>>]) \in Nat
    BY <2>1, LenProperties DEF HeapOK, OwnSlice
  <2>4. h.maps[m][k].len \in Nat
    BY <2>1 DEF Slice
  <2> QED BY <2>1, <2>2, <2>3, <2>4 DEF OwnSlice
<1> QED BY <1>1, <1>2, <1>3

LEMMA NilHoldsNothing == \A h : Held(h, 0) = [k \in {} |-> <<>>]
BY DEF Held

LEMMA HeldIs ==
  ASSUME NEW h, HeapOK(h), NEW m \in DOMAIN h.maps
  PROVE  Held(h, m) = [k \in DOMAIN h.maps[m] |->
                         SubSeq(h.arrays[<<m, k>>], 1, h.maps[m][k].len)]
<1>1. m # 0
  BY HeapMaps
<1>2. \A k \in DOMAIN h.maps[m] : h.maps[m][k].array = <<m, k>>
  BY DEF HeapOK, OwnSlice
<1> QED BY <1>1, <1>2 DEF Held, Read

\* A map holds a header.
LEMMA HeldType ==
  ASSUME NEW h, HeapOK(h), NEW m \in 0..Len(h.maps)
  PROVE  IsHeader(Held(h, m))
<1>1. CASE m = 0
  BY <1>1, NilHoldsNothing DEF IsHeader
<1>2. CASE m \in DOMAIN h.maps
  <2>1. \A k \in DOMAIN h.maps[m] :
          SubSeq(h.arrays[<<m, k>>], 1, h.maps[m][k].len) \in Seq(Values)
    BY <1>2, HeapMaps, Prefix
  <2> DEFINE held == [k \in DOMAIN h.maps[m] |->
                        SubSeq(h.arrays[<<m, k>>], 1, h.maps[m][k].len)]
  <2>2. held \in [DOMAIN h.maps[m] -> Seq(Values)] /\ DOMAIN held = DOMAIN h.maps[m]
    BY <2>1
  <2>3. Held(h, m) = held
    BY <1>2, HeldIs
  <2> HIDE DEF held
  <2>4. DOMAIN h.maps[m] \subseteq Keys
    BY <1>2, HeapMaps
  <2> QED BY <2>2, <2>3, <2>4 DEF IsHeader
<1> QED BY <1>1, <1>2, LenProperties DEF HeapOK

\* It holds the same in two heaps that agree on it and its arrays.
LEMMA HeldStays ==
  ASSUME NEW h, NEW h2, HeapOK(h), HeapOK(h2),
         NEW m \in DOMAIN h.maps, m \in DOMAIN h2.maps, h2.maps[m] = h.maps[m],
         \A k \in DOMAIN h.maps[m] : h2.arrays[<<m, k>>] = h.arrays[<<m, k>>]
  PROVE  Held(h2, m) = Held(h, m)
<1>1. Held(h2, m) = [k \in DOMAIN h2.maps[m] |->
                       SubSeq(h2.arrays[<<m, k>>], 1, h2.maps[m][k].len)]
  BY HeldIs
<1>2. @ = [k \in DOMAIN h.maps[m] |-> SubSeq(h.arrays[<<m, k>>], 1, h.maps[m][k].len)]
  OBVIOUS
<1>3. @ = Held(h, m)
  BY HeldIs
<1> QED BY <1>1, <1>2, <1>3

-----------------------------------------------------------------------------
(* The operations on one map. *)

\* All maps but m hold what they held.
OthersHold(h, h2, m) ==
  \A n \in DOMAIN h.maps \ {m} : n \in DOMAIN h2.maps /\ Held(h2, n) = Held(h, n)

\* A heap in which map m, new or old, and some of its arrays were written.
LEMMA MapWritten ==
  ASSUME NEW h, HeapOK(h), NEW m \in Nat \ {0},
         NEW maps \in Seq(Maps), DOMAIN maps = DOMAIN h.maps \cup {m},
         \A n \in DOMAIN h.maps \ {m} : maps[n] = h.maps[n],
         NEW written \in SUBSET {<<m, k>> : k \in Keys},
         NEW arrays \in [DOMAIN h.arrays \cup written -> Seq(Values)],
         \A a \in DOMAIN h.arrays \ written : arrays[a] = h.arrays[a],
         \A k \in DOMAIN maps[m] : OwnSlice([arrays |-> arrays, maps |-> maps], m, k)
  PROVE  /\ HeapOK([arrays |-> arrays, maps |-> maps])
         /\ OthersHold(h, [arrays |-> arrays, maps |-> maps], m)
<1> DEFINE h2 == [arrays |-> arrays, maps |-> maps]
<1>1. h2.arrays = arrays /\ h2.maps = maps
  OBVIOUS
<1>2. DOMAIN arrays = DOMAIN h.arrays \cup written
  OBVIOUS
<1>3. DOMAIN arrays \subseteq (Nat \ {0}) \X Keys
  BY <1>2 DEF HeapOK
<1>4. ASSUME NEW n \in DOMAIN h.maps \ {m}, NEW k \in DOMAIN h.maps[n]
      PROVE  <<n, k>> \in DOMAIN arrays /\ arrays[<<n, k>>] = h.arrays[<<n, k>>]
  <2>1. <<n, k>> \in DOMAIN h.arrays
    BY <1>4, HeapMaps
  <2>2. <<n, k>> \notin written
    BY <1>4
  <2> QED BY <1>2, <2>1, <2>2
<1>5. ASSUME NEW n \in DOMAIN maps, NEW k \in DOMAIN maps[n]
      PROVE  OwnSlice(h2, n, k)
  <2>1. CASE n = m
    BY <1>5, <2>1
  <2>2. CASE n # m
    <3>1. n \in DOMAIN h.maps \ {m} /\ maps[n] = h.maps[n]
      BY <1>5, <2>2
    <3>2. OwnSlice(h, n, k)
      BY <1>5, <3>1 DEF HeapOK
    <3> QED BY <1>1, <1>4, <1>5, <3>1, <3>2 DEF OwnSlice
  <2> QED BY <2>1, <2>2
<1> HIDE DEF h2
<1>6. HeapOK(h2)
  BY <1>1, <1>2, <1>3, <1>5 DEF HeapOK, h2
<1>7. ASSUME NEW n \in DOMAIN h.maps \ {m}
      PROVE  n \in DOMAIN h2.maps /\ Held(h2, n) = Held(h, n)
  BY <1>1, <1>4, <1>6, <1>7, HeldStays
<1> QED BY <1>6, <1>7 DEF OthersHold, h2

\* A new map holds what it was allocated for.
LEMMA AllocateHolds ==
  ASSUME NEW h, HeapOK(h), NEW content, IsHeader(content)
  PROVE  LET m == Len(h.maps) + 1
             h2 == Allocate(h, content)
         IN /\ HeapOK(h2) /\ OthersHold(h, h2, m)
            /\ Len(h2.maps) = m /\ Held(h2, m) = content
<1> DEFINE m == Len(h.maps) + 1
           own == {<<m, k>> : k \in DOMAIN content}
           arrays == [a \in DOMAIN h.arrays \cup own |->
                        IF a \in own THEN content[a[2]] ELSE h.arrays[a]]
           map == [k \in DOMAIN content |-> [array |-> <<m, k>>, len |-> Len(content[k])]]
           maps == Append(h.maps, map)
<1>1. DOMAIN content \subseteq Keys /\ content \in [DOMAIN content -> Seq(Values)]
  BY DEF IsHeader
<1>2. h.maps \in Seq(Maps) /\ Len(h.maps) \in Nat /\ DOMAIN h.maps = 1..Len(h.maps)
  BY LenProperties DEF HeapOK
<1>3. m \in Nat \ {0}
  BY <1>2
<1>4. \A k \in DOMAIN content : Len(content[k]) \in Nat
  BY <1>1, LenProperties
<1>5. map \in [DOMAIN content -> Slice]
  BY <1>1, <1>3, <1>4 DEF Slice
<1>6. map \in Maps
  BY <1>1, <1>5, IsMap
<1>7. /\ maps \in Seq(Maps) /\ Len(maps) = m /\ maps[m] = map
      /\ DOMAIN maps = DOMAIN h.maps \cup {m}
      /\ \A n \in DOMAIN h.maps \ {m} : maps[n] = h.maps[n]
  <2> HIDE DEF map
  <2>1. /\ maps \in Seq(Maps) /\ Len(maps) = Len(h.maps) + 1
        /\ \A i \in 1..Len(h.maps) : maps[i] = h.maps[i]
        /\ maps[Len(h.maps) + 1] = map
    BY <1>2, <1>6, AppendProperties
  <2>2. DOMAIN maps = 1..m
    BY <2>1, LenProperties
  <2> QED BY <1>2, <2>1, <2>2
<1>8. own \in SUBSET {<<m, k>> : k \in Keys}
  BY <1>1
<1>9. arrays \in [DOMAIN h.arrays \cup own -> Seq(Values)]
  BY <1>1 DEF HeapOK
<1>10. \A a \in DOMAIN h.arrays \ own : arrays[a] = h.arrays[a]
  OBVIOUS
<1>11. \A k \in DOMAIN content : <<m, k>> \in own /\ arrays[<<m, k>>] = content[k]
  OBVIOUS
<1>12. \A k \in DOMAIN map : /\ map[k].array = <<m, k>> /\ map[k].len = Len(content[k])
                             /\ <<m, k>> \in DOMAIN arrays
                             /\ arrays[<<m, k>>] = content[k]
  BY <1>11
<1>13. Allocate(h, content) = [arrays |-> arrays, maps |-> maps]
  BY DEF Allocate
<1>14. DOMAIN map = DOMAIN content
  OBVIOUS
<1> HIDE DEF m, own, arrays, map, maps
<1>15. \A k \in DOMAIN maps[m] : OwnSlice([arrays |-> arrays, maps |-> maps], m, k)
  BY <1>4, <1>7, <1>12, <1>14 DEF OwnSlice
<1>16. HeapOK(Allocate(h, content)) /\ OthersHold(h, Allocate(h, content), m)
  <2>1. /\ HeapOK([arrays |-> arrays, maps |-> maps])
        /\ OthersHold(h, [arrays |-> arrays, maps |-> maps], m)
    BY <1>3, <1>7, <1>8, <1>9, <1>10, <1>15, MapWritten
  <2> QED BY <1>13, <2>1
<1>17. Held(Allocate(h, content), m) = content
  <2>1. Allocate(h, content).maps = maps /\ Allocate(h, content).arrays = arrays
    BY <1>13
  <2>2. Held(Allocate(h, content), m) =
          [k \in DOMAIN maps[m] |-> SubSeq(arrays[<<m, k>>], 1, maps[m][k].len)]
    BY <1>7, <1>16, <2>1, HeldIs
  <2>3. @ = [k \in DOMAIN content |-> SubSeq(content[k], 1, Len(content[k]))]
    BY <1>7, <1>12, <1>14
  <2>4. @ = [k \in DOMAIN content |-> content[k]]
    BY <1>1, SubSeqFull
  <2> QED BY <1>1, <2>2, <2>3, <2>4
<1> QED BY <1>7, <1>13, <1>16, <1>17 DEF m

\* Writing a map that is there.
LEMMA MapReplaced ==
  ASSUME NEW h, HeapOK(h), NEW m \in DOMAIN h.maps, NEW map \in Maps
  PROVE  LET maps == [h.maps EXCEPT ![m] = map]
         IN /\ maps \in Seq(Maps) /\ Len(maps) = Len(h.maps) /\ maps[m] = map
            /\ DOMAIN maps = DOMAIN h.maps \cup {m} /\ m \in Nat \ {0}
            /\ \A n \in DOMAIN h.maps \ {m} : maps[n] = h.maps[n]
<1>1. h.maps \in Seq(Maps) /\ m \in 1..Len(h.maps) /\ Len(h.maps) \in Nat
  BY HeapMaps DEF HeapOK
<1> QED BY <1>1, ExceptSeq

\* http.Header.Set replaces what is under the canonical key.
LEMMA SetHolds ==
  ASSUME NEW h, HeapOK(h), NEW m \in DOMAIN h.maps, NEW key \in Keys, NEW v \in Values
  PROVE  LET h2 == SetHeader(h, m, key, v)
         IN /\ HeapOK(h2) /\ OthersHold(h, h2, m) /\ Len(h2.maps) = Len(h.maps)
            /\ Held(h2, m) = Abstract!Put(Held(h, m), Canonical[key], <<v>>)
<1> DEFINE c == Canonical[key]
           own == {<<m, c>>}
           arrays == [a \in DOMAIN h.arrays \cup own |->
                        IF a = <<m, c>> THEN <<v>> ELSE h.arrays[a]]
           map == [x \in DOMAIN h.maps[m] \cup {c} |->
                     IF x = c THEN [array |-> <<m, c>>, len |-> 1] ELSE h.maps[m][x]]
           maps == [h.maps EXCEPT ![m] = map]
<1>1. c \in Keys /\ m \in Nat \ {0} /\ DOMAIN h.maps[m] \subseteq Keys /\ h.maps[m] \in Maps
  BY HeapMaps, CanonicalOK
<1>2. map \in [DOMAIN h.maps[m] \cup {c} -> Slice]
  BY <1>1, MapType DEF Slice
<1>3. map \in Maps
  BY <1>1, <1>2, IsMap
<1>4. <<v>> \in Seq(Values) /\ Len(<<v>>) = 1 /\ SubSeq(<<v>>, 1, 1) = <<v>>
  <2>1. <<v>> \in Seq(Values)
    OBVIOUS
  <2>2. Len(<<v>>) = 1
    OBVIOUS
  <2>3. SubSeq(<<v>>, 1, Len(<<v>>)) = <<v>>
    BY <2>1, SubSeqFull
  <2> QED BY <2>1, <2>2, <2>3
<1>5. own \in SUBSET {<<m, k>> : k \in Keys}
  BY <1>1
<1>6. arrays \in [DOMAIN h.arrays \cup own -> Seq(Values)]
  BY <1>4 DEF HeapOK
<1>7. /\ \A a \in DOMAIN h.arrays \ own : arrays[a] = h.arrays[a]
      /\ <<m, c>> \in DOMAIN arrays /\ arrays[<<m, c>>] = <<v>>
  OBVIOUS
<1>8. /\ DOMAIN map = DOMAIN h.maps[m] \cup {c}
      /\ map[c] = [array |-> <<m, c>>, len |-> 1]
      /\ \A k \in DOMAIN h.maps[m] \ {c} : map[k] = h.maps[m][k]
  OBVIOUS
<1>9. SetHeader(h, m, key, v) = [arrays |-> arrays, maps |-> maps]
  BY DEF SetHeader
<1> HIDE DEF c, arrays, map
<1>10. /\ maps \in Seq(Maps) /\ Len(maps) = Len(h.maps) /\ maps[m] = map
       /\ DOMAIN maps = DOMAIN h.maps \cup {m}
       /\ \A n \in DOMAIN h.maps \ {m} : maps[n] = h.maps[n]
  BY <1>3, MapReplaced
<1> HIDE DEF maps
<1>11. \A k \in DOMAIN h.maps[m] \ {c} :
         /\ <<m, k>> \in DOMAIN arrays /\ arrays[<<m, k>>] = h.arrays[<<m, k>>]
         /\ map[k].array = <<m, k>> /\ map[k].len <= Len(arrays[<<m, k>>])
         /\ map[k].len = h.maps[m][k].len
  <2> SUFFICES ASSUME NEW k \in DOMAIN h.maps[m] \ {c}
               PROVE  /\ <<m, k>> \in DOMAIN arrays /\ arrays[<<m, k>>] = h.arrays[<<m, k>>]
                      /\ map[k].array = <<m, k>> /\ map[k].len <= Len(arrays[<<m, k>>])
                      /\ map[k].len = h.maps[m][k].len
    OBVIOUS
  <2>1. OwnSlice(h, m, k) /\ <<m, k>> \notin own /\ map[k] = h.maps[m][k]
    BY <1>8 DEF HeapOK
  <2> QED BY <1>6, <1>7, <2>1 DEF OwnSlice
<1>12. \A k \in DOMAIN maps[m] : OwnSlice([arrays |-> arrays, maps |-> maps], m, k)
  <2> SUFFICES ASSUME NEW k \in DOMAIN map
               PROVE  /\ map[k].array = <<m, k>> /\ <<m, k>> \in DOMAIN arrays
                      /\ map[k].len <= Len(arrays[<<m, k>>])
    BY <1>10 DEF OwnSlice
  <2>1. CASE k = c
    <3>1. map[k].array = <<m, k>> /\ map[k].len = 1
      BY <1>8, <2>1
    <3>2. Len(arrays[<<m, k>>]) = 1
      BY <1>4, <1>7, <2>1
    <3> QED BY <1>7, <2>1, <3>1, <3>2
  <2>2. CASE k # c
    <3>1. k \in DOMAIN h.maps[m] \ {c}
      BY <1>8, <2>2
    <3> QED BY <1>11, <3>1
  <2> QED BY <2>1, <2>2
<1>13. /\ HeapOK([arrays |-> arrays, maps |-> maps])
       /\ OthersHold(h, [arrays |-> arrays, maps |-> maps], m)
  BY <1>1, <1>5, <1>6, <1>7, <1>10, <1>12, MapWritten
<1>14. /\ SetHeader(h, m, key, v).maps = maps /\ SetHeader(h, m, key, v).arrays = arrays
       /\ HeapOK(SetHeader(h, m, key, v)) /\ OthersHold(h, SetHeader(h, m, key, v), m)
  BY <1>9, <1>13
<1>15. Held(SetHeader(h, m, key, v), m) = Abstract!Put(Held(h, m), c, <<v>>)
  <2>1. Held(SetHeader(h, m, key, v), m) =
          [k \in DOMAIN map |-> SubSeq(arrays[<<m, k>>], 1, map[k].len)]
    BY <1>10, <1>14, HeldIs
  <2>2. @ = [k \in DOMAIN h.maps[m] \cup {c} |->
               IF k = c THEN <<v>> ELSE SubSeq(h.arrays[<<m, k>>], 1, h.maps[m][k].len)]
    <3>1. map[c].len = 1
      BY <1>8
    <3>2. SubSeq(arrays[<<m, c>>], 1, map[c].len) = <<v>>
      BY <1>4, <1>7, <3>1
    <3>3. \A k \in DOMAIN h.maps[m] \ {c} : SubSeq(arrays[<<m, k>>], 1, map[k].len) =
                                              SubSeq(h.arrays[<<m, k>>], 1, h.maps[m][k].len)
      BY <1>11
    <3> QED BY <1>8, <3>2, <3>3
  <2>3. Held(h, m) = [k \in DOMAIN h.maps[m] |->
                        SubSeq(h.arrays[<<m, k>>], 1, h.maps[m][k].len)]
    BY HeldIs
  <2> QED BY <2>1, <2>2, <2>3 DEF Abstract!Put
<1> QED BY <1>10, <1>14, <1>15 DEF c

\* The loop of WithHeaders replaces what is under each of the keys given,
\* wherever the values are put.
LEMMA MergeHolds ==
  ASSUME NEW h, HeapOK(h), NEW m \in DOMAIN h.maps, NEW given \in DOMAIN h.maps, given # m
  PROVE  LET h2 == MergeHeaders(h, m, given)
         IN /\ HeapOK(h2) /\ OthersHold(h, h2, m) /\ Len(h2.maps) = Len(h.maps)
            /\ Held(h2, m) = Abstract!Merge(Held(h, m), Held(h, given))
<1> DEFINE vs == Held(h, given)
           fits(k) == /\ k \in DOMAIN h.maps[m]
                      /\ Len(vs[k]) <= Len(h.arrays[h.maps[m][k].array])
           dest(k) == IF fits(k) THEN h.maps[m][k].array ELSE <<m, k>>
           over(a, s) == [i \in DOMAIN a |-> IF i \in DOMAIN s THEN s[i] ELSE a[i]]
           written == {dest(k) : k \in DOMAIN vs}
           arrays == [a \in DOMAIN h.arrays \cup written |->
                        IF a \notin written THEN h.arrays[a]
                        ELSE IF fits(a[2]) THEN over(h.arrays[a], vs[a[2]]) ELSE vs[a[2]]]
           map == [k \in DOMAIN h.maps[m] \cup DOMAIN vs |->
                     IF k \in DOMAIN vs THEN [array |-> dest(k), len |-> Len(vs[k])]
                     ELSE h.maps[m][k]]
           maps == [h.maps EXCEPT ![m] = map]
<1>1. /\ m \in Nat \ {0} /\ DOMAIN h.maps[m] \subseteq Keys /\ h.maps[m] \in Maps
      /\ DOMAIN vs \subseteq Keys /\ vs \in [DOMAIN vs -> Seq(Values)]
  <2>1. given \in 0..Len(h.maps)
    BY HeapMaps
  <2>2. IsHeader(vs)
    BY <2>1, HeldType
  <2> QED BY <2>2, HeapMaps DEF IsHeader
<1>2. MergeHeaders(h, m, given) = [arrays |-> arrays, maps |-> maps]
  BY DEF MergeHeaders
<1> HIDE DEF vs
<1>3. \A k \in DOMAIN vs : dest(k) = <<m, k>>
  BY DEF HeapOK, OwnSlice
<1>4. \A k \in DOMAIN vs : vs[k] \in Seq(Values) /\ Len(vs[k]) \in Nat
  BY <1>1, LenProperties
<1>5. written = {<<m, k>> : k \in DOMAIN vs}
  BY <1>3
<1>6. written \in SUBSET {<<m, k>> : k \in Keys}
  BY <1>1, <1>5
<1>7. map \in [DOMAIN h.maps[m] \cup DOMAIN vs -> Slice]
  BY <1>1, <1>3, <1>4, MapType DEF Slice
<1>8. map \in Maps
  BY <1>1, <1>7, IsMap
<1>9. /\ DOMAIN arrays = DOMAIN h.arrays \cup written
       /\ arrays = [a \in DOMAIN arrays |-> arrays[a]]
       /\ \A a \in DOMAIN h.arrays \ written : arrays[a] = h.arrays[a]
  OBVIOUS
<1> HIDE DEF arrays
\* The values are in the array, at its front.
<1>10. ASSUME NEW k \in DOMAIN vs
      PROVE  /\ <<m, k>> \in DOMAIN arrays /\ arrays[<<m, k>>] \in Seq(Values)
             /\ Len(vs[k]) <= Len(arrays[<<m, k>>])
             /\ SubSeq(arrays[<<m, k>>], 1, Len(vs[k])) = vs[k]
  <2>1. <<m, k>> \in written /\ <<m, k>> \in DOMAIN arrays
    BY <1>5, <1>9, <1>10
  <2>2. CASE fits(k)
    <3> DEFINE a == h.arrays[<<m, k>>]
               b == over(a, vs[k])
    <3>1. a \in Seq(Values) /\ Len(vs[k]) <= Len(a)
      <4>1. k \in DOMAIN h.maps[m] /\ h.maps[m][k].array = <<m, k>>
        BY <2>2 DEF HeapOK, OwnSlice
      <4> QED BY <2>2, <4>1, HeapMaps
    <3>2. /\ Len(a) \in Nat /\ DOMAIN a = 1..Len(a) /\ DOMAIN vs[k] = 1..Len(vs[k])
          /\ \A i \in 1..Len(a) : a[i] \in Values
          /\ \A i \in 1..Len(vs[k]) : vs[k][i] \in Values
      BY <1>4, <3>1, LenProperties, ElementOfSeq
    <3>3. arrays[<<m, k>>] = b
      BY <2>1, <2>2 DEF arrays
    <3>4. b = [i \in 1..Len(a) |-> IF i \in 1..Len(vs[k]) THEN vs[k][i] ELSE a[i]]
      BY <3>2
    <3> HIDE DEF a, b
    <3>5. b \in [1..Len(a) -> Values]
      BY <3>2, <3>4
    <3>6. b \in Seq(Values) /\ Len(b) = Len(a)
      BY <3>2, <3>5
    <3>7. \A i \in 1..Len(vs[k]) : b[i] = vs[k][i]
      BY <1>4, <3>1, <3>2, <3>4
    <3>8. SubSeq(b, 1, Len(vs[k])) = vs[k]
      <4>1. Len(vs[k]) \in 0..Len(b)
        BY <1>4, <3>1, <3>2, <3>6
      <4>2. /\ SubSeq(b, 1, Len(vs[k])) \in Seq(Values)
            /\ Len(SubSeq(b, 1, Len(vs[k]))) = Len(vs[k])
            /\ \A i \in 1..Len(vs[k]) : SubSeq(b, 1, Len(vs[k]))[i] = vs[k][i]
        BY <3>6, <3>7, <4>1, Prefix
      <4> QED BY <1>4, <4>2, SeqEqual
    <3> QED BY <2>1, <3>1, <3>3, <3>6, <3>8
  <2>3. CASE ~fits(k)
    <3>1. arrays[<<m, k>>] = vs[k]
      BY <2>1, <2>3 DEF arrays
    <3>2. SubSeq(vs[k], 1, Len(vs[k])) = vs[k]
      BY <1>4, SubSeqFull
    <3>3. Len(vs[k]) \in Nat /\ vs[k] \in Seq(Values)
      BY <1>4
    <3> QED BY <2>1, <3>1, <3>2, <3>3
  <2> QED BY <2>2, <2>3
<1>11. arrays \in [DOMAIN h.arrays \cup written -> Seq(Values)]
  <2>1. \A a \in written : arrays[a] \in Seq(Values)
    BY <1>5, <1>10
  <2>2. \A a \in DOMAIN h.arrays \ written : arrays[a] \in Seq(Values)
    BY <1>9 DEF HeapOK
  <2>3. \A a \in DOMAIN arrays : arrays[a] \in Seq(Values)
    BY <1>9, <2>1, <2>2
  <2> QED BY <1>9, <2>3
<1>12. /\ DOMAIN map = DOMAIN h.maps[m] \cup DOMAIN vs
       /\ \A k \in DOMAIN vs : map[k].array = <<m, k>> /\ map[k].len = Len(vs[k])
       /\ \A k \in DOMAIN h.maps[m] \ DOMAIN vs : map[k] = h.maps[m][k]
  BY <1>3
<1> HIDE DEF map
<1>13. /\ maps \in Seq(Maps) /\ Len(maps) = Len(h.maps) /\ maps[m] = map
       /\ DOMAIN maps = DOMAIN h.maps \cup {m}
       /\ \A n \in DOMAIN h.maps \ {m} : maps[n] = h.maps[n]
  BY <1>8, MapReplaced
<1> HIDE DEF maps
<1>14. \A k \in DOMAIN h.maps[m] \ DOMAIN vs :
         /\ <<m, k>> \in DOMAIN arrays /\ arrays[<<m, k>>] = h.arrays[<<m, k>>]
         /\ map[k].array = <<m, k>> /\ map[k].len <= Len(arrays[<<m, k>>])
         /\ map[k].len = h.maps[m][k].len
  <2> SUFFICES ASSUME NEW k \in DOMAIN h.maps[m] \ DOMAIN vs
               PROVE  /\ <<m, k>> \in DOMAIN arrays /\ arrays[<<m, k>>] = h.arrays[<<m, k>>]
                      /\ map[k].array = <<m, k>> /\ map[k].len <= Len(arrays[<<m, k>>])
                      /\ map[k].len = h.maps[m][k].len
    OBVIOUS
  <2>1. OwnSlice(h, m, k) /\ <<m, k>> \notin written /\ map[k] = h.maps[m][k]
    BY <1>5, <1>12 DEF HeapOK
  <2> QED BY <1>9, <2>1 DEF OwnSlice
<1>15. \A k \in DOMAIN maps[m] : OwnSlice([arrays |-> arrays, maps |-> maps], m, k)
  BY <1>10, <1>12, <1>13, <1>14 DEF OwnSlice
<1> HIDE DEF written
<1>16. /\ HeapOK([arrays |-> arrays, maps |-> maps])
       /\ OthersHold(h, [arrays |-> arrays, maps |-> maps], m)
  BY <1>1, <1>6, <1>9, <1>11, <1>13, <1>15, MapWritten
<1>17. /\ MergeHeaders(h, m, given).maps = maps /\ MergeHeaders(h, m, given).arrays = arrays
       /\ HeapOK(MergeHeaders(h, m, given)) /\ OthersHold(h, MergeHeaders(h, m, given), m)
  BY <1>2, <1>16
<1>18. Held(MergeHeaders(h, m, given), m) = Abstract!Merge(Held(h, m), vs)
  <2>1. Held(MergeHeaders(h, m, given), m) =
          [k \in DOMAIN map |-> SubSeq(arrays[<<m, k>>], 1, map[k].len)]
    BY <1>13, <1>17, HeldIs
  <2>2. @ = [k \in DOMAIN h.maps[m] \cup DOMAIN vs |->
               IF k \in DOMAIN vs THEN vs[k]
               ELSE SubSeq(h.arrays[<<m, k>>], 1, h.maps[m][k].len)]
    BY <1>10, <1>12, <1>14
  <2>3. Held(h, m) = [k \in DOMAIN h.maps[m] |->
                        SubSeq(h.arrays[<<m, k>>], 1, h.maps[m][k].len)]
    BY HeldIs
  <2> QED BY <2>1, <2>2, <2>3 DEF Abstract!Merge
<1> QED BY <1>13, <1>17, <1>18 DEF vs

-----------------------------------------------------------------------------
(* The maps of derived clients. *)

\* Heap h2 is heap h with the map m of a new client, nil or a new map that holds
\* the content; the maps that were there hold what they held.
Gives(h, h2, m, content) ==
  /\ HeapOK(h2)
  /\ Len(h2.maps) \in Nat /\ Len(h.maps) <= Len(h2.maps)
  /\ m \in 0..Len(h2.maps) /\ (m = 0 \/ m > Len(h.maps))
  /\ Held(h2, m) = content
  /\ \A n \in 0..Len(h.maps) : Held(h2, n) = Held(h, n)

LEMMA AllocateGives ==
  ASSUME NEW h, HeapOK(h), NEW content, IsHeader(content)
  PROVE  LET m == Len(h.maps) + 1
         IN Gives(h, Allocate(h, content), m, content) /\ Len(Allocate(h, content).maps) = m
<1> DEFINE m == Len(h.maps) + 1
           h2 == Allocate(h, content)
<1>1. Len(h.maps) \in Nat /\ DOMAIN h.maps = 1..Len(h.maps)
  BY LenProperties DEF HeapOK
<1>2. HeapOK(h2) /\ OthersHold(h, h2, m) /\ Len(h2.maps) = m /\ Held(h2, m) = content
  BY AllocateHolds
<1>3. \A n \in 0..Len(h.maps) : Held(h2, n) = Held(h, n)
  BY <1>1, <1>2, NilHoldsNothing DEF OthersHold
<1> QED BY <1>1, <1>2, <1>3 DEF Gives

\* cloneHeader gives a map of its own that holds the same.
LEMMA CloneGives ==
  ASSUME NEW h, HeapOK(h), NEW m \in 0..Len(h.maps)
  PROVE  LET x == cloneHeader(h, m)
         IN /\ Gives(h, x.heap, x.map, Held(h, m))
            /\ x.map = 0 => x.heap = h /\ m = 0
            /\ x.map # 0 => x.map = Len(h.maps) + 1 /\ Len(x.heap.maps) = x.map
<1>1. Len(h.maps) \in Nat
  BY LenProperties DEF HeapOK
<1>2. CASE m = 0
  <2>1. cloneHeader(h, m).heap = h /\ cloneHeader(h, m).map = 0
    BY <1>2 DEF cloneHeader
  <2> QED BY <1>1, <1>2, <2>1 DEF Gives
<1>3. CASE m # 0
  <2>1. /\ cloneHeader(h, m).heap = Allocate(h, Held(h, m))
        /\ cloneHeader(h, m).map = Len(h.maps) + 1
    BY <1>3 DEF cloneHeader
  <2>2. IsHeader(Held(h, m))
    BY HeldType
  <2>3. /\ Gives(h, Allocate(h, Held(h, m)), Len(h.maps) + 1, Held(h, m))
        /\ Len(Allocate(h, Held(h, m)).maps) = Len(h.maps) + 1
    BY <2>2, AllocateGives
  <2> QED BY <1>1, <2>1, <2>3
<1> QED BY <1>2, <1>3

\* So does a copy that must not be nil, of nil too.
LEMMA EnsureGives ==
  ASSUME NEW h, HeapOK(h), NEW m \in 0..Len(h.maps)
  PROVE  LET x == EnsureMap(cloneHeader(h, m))
         IN /\ Gives(h, x.heap, x.map, Held(h, m))
            /\ x.map = Len(h.maps) + 1 /\ Len(x.heap.maps) = x.map
<1> DEFINE y == cloneHeader(h, m)
           x == EnsureMap(y)
<1>1. /\ Gives(h, y.heap, y.map, Held(h, m))
      /\ y.map = 0 => y.heap = h /\ m = 0
      /\ y.map # 0 => y.map = Len(h.maps) + 1 /\ Len(y.heap.maps) = y.map
  BY CloneGives
<1> HIDE DEF y
<1>2. CASE y.map # 0
  BY <1>1, <1>2 DEF EnsureMap, y
<1>3. CASE y.map = 0
  <2>1. x.heap = Allocate(h, <<>>) /\ x.map = Len(h.maps) + 1
    BY <1>1, <1>3 DEF EnsureMap
  <2>2. IsHeader(<<>>)
    BY DEF IsHeader
  <2>3. /\ Gives(h, Allocate(h, <<>>), Len(h.maps) + 1, <<>>)
        /\ Len(Allocate(h, <<>>).maps) = Len(h.maps) + 1
    BY <2>2, AllocateGives
  <2>4. Held(h, m) = <<>>
    BY <1>1, <1>3, NilHoldsNothing
  <2> QED BY <2>1, <2>3, <2>4 DEF y
<1> QED BY <1>2, <1>3 DEF y

\* Writing the copy changes what the copy holds.
LEMMA WriteGives ==
  ASSUME NEW h, HeapOK(h), NEW h1, NEW held, NEW m, m = Len(h.maps) + 1, m = Len(h1.maps),
         Gives(h, h1, m, held),
         NEW h2, HeapOK(h2), OthersHold(h1, h2, m), Len(h2.maps) = Len(h1.maps)
  PROVE  Gives(h, h2, m, Held(h2, m))
<1>1. Len(h.maps) \in Nat /\ DOMAIN h1.maps = 1..m
  BY LenProperties DEF HeapOK, Gives
<1>2. \A n \in 0..Len(h.maps) : Held(h2, n) = Held(h1, n)
  BY <1>1, NilHoldsNothing DEF OthersHold
<1> QED BY <1>1, <1>2 DEF Gives

LEMMA SetGives ==
  ASSUME NEW h, HeapOK(h), NEW m \in 0..Len(h.maps), NEW key \in Keys, NEW v \in Values
  PROVE  LET x == EnsureMap(cloneHeader(h, m))
         IN Gives(h, SetHeader(x.heap, x.map, key, v), x.map,
                  Abstract!Put(Held(h, m), Canonical[key], <<v>>))
<1> DEFINE x == EnsureMap(cloneHeader(h, m))
           h2 == SetHeader(x.heap, x.map, key, v)
<1>1. /\ Gives(h, x.heap, x.map, Held(h, m))
      /\ x.map = Len(h.maps) + 1 /\ Len(x.heap.maps) = x.map
  BY EnsureGives
<1> HIDE DEF x
<1>2. HeapOK(x.heap) /\ x.map \in DOMAIN x.heap.maps /\ Held(x.heap, x.map) = Held(h, m)
  BY <1>1, LenProperties DEF Gives, HeapOK
<1>3. /\ HeapOK(h2) /\ OthersHold(x.heap, h2, x.map) /\ Len(h2.maps) = Len(x.heap.maps)
      /\ Held(h2, x.map) = Abstract!Put(Held(x.heap, x.map), Canonical[key], <<v>>)
  BY <1>2, SetHolds
<1> HIDE DEF h2
<1>4. Gives(h, h2, x.map, Held(h2, x.map))
  BY <1>1, <1>3, WriteGives
<1> QED BY <1>2, <1>3, <1>4 DEF x, h2

LEMMA MergeGives ==
  ASSUME NEW h, HeapOK(h), NEW m \in 0..Len(h.maps), NEW given \in DOMAIN h.maps
  PROVE  LET x == EnsureMap(cloneHeader(h, m))
         IN Gives(h, MergeHeaders(x.heap, x.map, given), x.map,
                  Abstract!Merge(Held(h, m), Held(h, given)))
<1> DEFINE x == EnsureMap(cloneHeader(h, m))
           h2 == MergeHeaders(x.heap, x.map, given)
<1>1. /\ Gives(h, x.heap, x.map, Held(h, m))
      /\ x.map = Len(h.maps) + 1 /\ Len(x.heap.maps) = x.map
  BY EnsureGives
<1> HIDE DEF x
<1>2. HeapOK(x.heap) /\ x.map \in DOMAIN x.heap.maps /\ Held(x.heap, x.map) = Held(h, m)
  BY <1>1, LenProperties DEF Gives, HeapOK
<1>3. /\ given \in DOMAIN x.heap.maps /\ given # x.map
      /\ Held(x.heap, given) = Held(h, given)
  <2>1. given \in 1..Len(h.maps) /\ Len(h.maps) \in Nat
    BY HeapMaps
  <2> QED BY <1>1, <2>1, LenProperties DEF Gives, HeapOK
<1>4. /\ HeapOK(h2) /\ OthersHold(x.heap, h2, x.map) /\ Len(h2.maps) = Len(x.heap.maps)
      /\ Held(h2, x.map) = Abstract!Merge(Held(x.heap, x.map), Held(x.heap, given))
  BY <1>2, <1>3, MergeHolds
<1> HIDE DEF h2
<1>5. Gives(h, h2, x.map, Held(h2, x.map))
  BY <1>1, <1>4, WriteGives
<1> QED BY <1>2, <1>3, <1>4, <1>5 DEF x, h2

-----------------------------------------------------------------------------
(* What the state is abstracted to, and what a step may do to it. *)

Confs == [c \in DOMAIN clients |-> Conf(c)]
ArgsHeld == [i \in DOMAIN args |-> Held(heap, args[i])]
Sent == [g \in Goroutines |-> IF builds[g].stage = "built" THEN builds[g].headers ELSE <<>>]

ClientsStay == \A c \in DOMAIN clients : c \in DOMAIN clients' /\ Conf(c)' = Conf(c)

LEMMA ClientIs ==
  ASSUME NEW client \in Client
  PROVE  client = [headers |-> client.headers, modifier |-> client.modifier,
                   debug |-> client.debug, httpClient |-> client.httpClient]
BY DEF Client

LEMMA ConfIs ==
  ASSUME Inv, NEW c \in DOMAIN clients
  PROVE  /\ clients[c] \in Client /\ clients[c].headers \in 0..Len(heap.maps)
         /\ Conf(c) = [headers |-> Held(heap, clients[c].headers),
                       modifier |-> clients[c].modifier, debug |-> clients[c].debug,
                       httpClient |-> clients[c].httpClient]
         /\ IsHeader(Conf(c).headers)
<1>1. clients[c] \in Client
  BY ElementOfSeq, LenProperties DEF Inv
<1>2. clients[c].headers \in 0..Len(heap.maps)
  BY DEF Inv, Separate
<1>3. IsHeader(Held(heap, clients[c].headers))
  BY <1>2, HeldType DEF Inv
<1>4. Conf(c) = [headers |-> Held(heap, clients[c].headers),
                 modifier |-> clients[c].modifier, debug |-> clients[c].debug,
                 httpClient |-> clients[c].httpClient]
  BY <1>1, ClientIs DEF Conf
<1> QED BY <1>1, <1>2, <1>3, <1>4

\* Whoever builds a request meanwhile does not notice.
LEMMA BuildsStay ==
  ASSUME Inv, ClientsStay, UNCHANGED builds
  PROVE  /\ builds' \in [Goroutines -> Build \cup {NoBuild}]
         /\ \A g \in Goroutines : BuildOK(builds[g])'
         /\ Sent' = Sent
<1>1. builds' \in [Goroutines -> Build \cup {NoBuild}]
  BY DEF Inv
<1>2. ASSUME NEW g \in Goroutines, builds[g] # NoBuild
      PROVE  BuildOK(builds[g])'
  <2>1. BuildOK(builds[g]) /\ builds'[g] = builds[g]
    BY DEF Inv
  <2>2. builds[g].client \in DOMAIN clients
    BY <1>2, <2>1 DEF BuildOK
  <2>3. builds[g].client \in DOMAIN clients' /\ Conf(builds[g].client)' = Conf(builds[g].client)
    BY <2>2 DEF ClientsStay
  <2> QED BY <1>2, <2>1, <2>3 DEF BuildOK
<1>3. ASSUME NEW g \in Goroutines, builds[g] = NoBuild
      PROVE  BuildOK(builds[g])'
  BY <1>3 DEF BuildOK
<1>4. Sent' = Sent
  BY DEF Sent
<1> QED BY <1>1, <1>2, <1>3, <1>4

\* A client is made: the others, and what callers hold, stay.
LEMMA MadeStep ==
  ASSUME Inv, NEW client \in Client, NEW h, NEW content,
         Gives(heap, h, client.headers, content), Made(client, h)
  PROVE  /\ Inv' /\ ClientsStay
         /\ Abstract!Make([headers |-> content, modifier |-> client.modifier,
                           debug |-> client.debug, httpClient |-> client.httpClient])
<1> DEFINE conf == [headers |-> content, modifier |-> client.modifier,
                    debug |-> client.debug, httpClient |-> client.httpClient]
<1>0. PICK n : n = Len(clients)
  OBVIOUS
<1>1. clients' = Append(clients, client) /\ heap' = h /\ args' = args /\ builds' = builds
  BY DEF Made
<1>2. /\ clients' \in Seq(Client) /\ Len(clients') = n + 1
      /\ \A c \in 1..n : clients'[c] = clients[c]
      /\ clients'[n + 1] = client
  BY <1>0, <1>1, AppendProperties DEF Inv
<1>3. n \in Nat /\ DOMAIN clients = 1..n /\ DOMAIN clients' = 1..(n + 1)
  BY <1>0, <1>2, LenProperties DEF Inv
<1>4. /\ HeapOK(h) /\ Len(heap.maps) \in Nat
      /\ Len(h.maps) \in Nat /\ Len(heap.maps) <= Len(h.maps)
      /\ client.headers \in 0..Len(h.maps)
      /\ client.headers = 0 \/ client.headers > Len(heap.maps)
      /\ \A m \in 0..Len(heap.maps) : Held(h, m) = Held(heap, m)
  BY LenProperties DEF Gives, Inv, HeapOK
<1>5. \A c \in DOMAIN clients : c \in DOMAIN clients' /\ Conf(c)' = Conf(c)
  <2> SUFFICES ASSUME NEW c \in DOMAIN clients
               PROVE  c \in DOMAIN clients' /\ Conf(c)' = Conf(c)
    OBVIOUS
  <2>1. c \in DOMAIN clients' /\ clients'[c] = clients[c]
    BY <1>2, <1>3
  <2>2. Held(heap', clients[c].headers) = Held(heap, clients[c].headers)
    BY <1>1, <1>4, ConfIs
  <2> QED BY <2>1, <2>2 DEF Conf
<1>6. Separate'
  <2>1. \A c \in DOMAIN clients : clients[c].headers \in 0..Len(heap.maps)
    BY ConfIs
  <2>2. \A i \in DOMAIN args : args[i] \in 1..Len(heap.maps)
    BY DEF Inv, Separate
  <2>3. \A c \in DOMAIN clients' : clients'[c].headers \in 0..Len(h.maps)
    BY <1>2, <1>3, <1>4, <2>1
  <2>4. \A i \in DOMAIN args : args[i] \in 1..Len(h.maps)
    BY <1>4, <2>2
  <2>5. ASSUME NEW c \in DOMAIN clients', NEW d \in DOMAIN clients', c # d,
               clients'[c].headers = clients'[d].headers
        PROVE  clients'[c].headers = 0
    <3>1. CASE c \in DOMAIN clients /\ d \in DOMAIN clients
      BY <1>2, <1>3, <2>5, <3>1 DEF Inv, Separate
    <3>2. CASE c \in DOMAIN clients /\ d = n + 1
      BY <1>2, <1>3, <1>4, <2>1, <2>5, <3>2
    <3>3. CASE d \in DOMAIN clients /\ c = n + 1
      BY <1>2, <1>3, <1>4, <2>1, <2>5, <3>3
    <3> QED BY <1>3, <2>5, <3>1, <3>2, <3>3
  <2>6. ASSUME NEW c \in DOMAIN clients', NEW i \in DOMAIN args
        PROVE  clients'[c].headers # args[i]
    <3>1. CASE c \in DOMAIN clients
      BY <1>2, <1>3, <3>1 DEF Inv, Separate
    <3>2. CASE c = n + 1
      BY <1>2, <1>4, <2>2, <3>2
    <3> QED BY <1>3, <3>1, <3>2
  <2>7. \A i, j \in DOMAIN args : args[i] = args[j] => i = j
    BY DEF Inv, Separate
  <2> QED BY <1>1, <2>3, <2>4, <2>5, <2>6, <2>7 DEF Separate
<1>7. ClientsStay
  BY <1>5 DEF ClientsStay
<1>8. Inv'
  BY <1>1, <1>2, <1>4, <1>6, <1>7, BuildsStay DEF Inv
<1>9. Confs' = Append(Confs, conf)
  <2>1. Conf(n + 1)' = conf
    <3>1. clients'[n + 1].headers = client.headers /\ Held(heap', client.headers) = content
      BY <1>1, <1>2 DEF Gives
    <3> QED BY <1>2, <3>1, ClientIs DEF Conf
  <2>2. \A c \in 1..n : Conf(c)' = Conf(c)
    BY <1>3, <1>5
  <2>3. Confs = [c \in 1..n |-> Conf(c)] /\ Confs' = [c \in 1..(n + 1) |-> Conf(c)']
    BY <1>3 DEF Confs
  <2>4. /\ Confs = [c \in 1..n |-> Confs[c]] /\ Confs' = [c \in 1..(n + 1) |-> Confs'[c]]
        /\ \A c \in 1..n : Confs'[c] = Confs[c]
    BY <1>3, <2>2, <2>3
  <2>5. Confs'[n + 1] = conf
    BY <1>3, <2>1, <2>3
  <2> HIDE DEF conf
  <2> QED BY <1>3, <2>4, <2>5, IsAppended
<1>10. ArgsHeld' = ArgsHeld
  <2>1. \A i \in DOMAIN args : Held(heap', args[i]) = Held(heap, args[i])
    BY <1>1, <1>4 DEF Inv, Separate
  <2> QED BY <1>1, <2>1 DEF ArgsHeld
<1>11. Sent' = Sent
  BY <1>1, <1>7, BuildsStay
<1> QED BY <1>7, <1>8, <1>9, <1>10, <1>11 DEF Abstract!Make, Confs, ArgsHeld, Sent

-----------------------------------------------------------------------------
(* Each step keeps the invariant and every client, and is a step of the      *)
(* abstract specification.                                                   *)

Good == Inv' /\ ClientsStay /\ (Abstract!Next \/ UNCHANGED Abstract!valuesVars)

LEMMA NewClientStep ==
  ASSUME Inv, NewClient
  PROVE  Good
<1>1. PICK hc \in HTTPClients :
        Made([headers |-> 0, modifier |-> NoModifier, debug |-> FALSE, httpClient |-> hc], heap)
  BY DEF NewClient
<1> DEFINE client == [headers |-> 0, modifier |-> NoModifier, debug |-> FALSE, httpClient |-> hc]
<1>2. client \in Client
  BY DEF Client
<1>3. Gives(heap, heap, client.headers, <<>>)
  <2>1. HeapOK(heap) /\ Len(heap.maps) \in Nat
    BY LenProperties DEF Inv, HeapOK
  <2>2. Held(heap, 0) = <<>>
    BY NilHoldsNothing
  <2> QED BY <2>1, <2>2 DEF Gives
<1>4. /\ Inv' /\ ClientsStay
      /\ Abstract!Make([headers |-> <<>>, modifier |-> client.modifier,
                        debug |-> client.debug, httpClient |-> client.httpClient])
  BY <1>1, <1>2, <1>3, MadeStep
<1>5. Abstract!New(hc)
  BY <1>4 DEF Abstract!New
<1> QED BY <1>4, <1>5 DEF Good, Abstract!Next

\* What a client is derived from.
LEMMA Cloned ==
  ASSUME Inv, NEW c \in DOMAIN clients
  PROVE  /\ Gives(heap, clone(c).heap, clone(c).map, Conf(c).headers)
         /\ Derived(c) = [headers |-> clone(c).map, modifier |-> Conf(c).modifier,
                          debug |-> Conf(c).debug, httpClient |-> Conf(c).httpClient]
         /\ clone(c).map \in Nat /\ Conf(c).modifier \in Modifiers \cup {NoModifier}
         /\ Conf(c).debug \in BOOLEAN /\ Conf(c).httpClient \in HTTPClients
<1>1. /\ clients[c] \in Client /\ clients[c].headers \in 0..Len(heap.maps)
      /\ Conf(c) = [headers |-> Held(heap, clients[c].headers),
                    modifier |-> clients[c].modifier, debug |-> clients[c].debug,
                    httpClient |-> clients[c].httpClient]
  BY ConfIs
<1>2. Gives(heap, clone(c).heap, clone(c).map, Held(heap, clients[c].headers))
  BY <1>1, CloneGives DEF Inv, clone
<1>3. clone(c).map \in Nat
  BY <1>2 DEF Gives
<1>4. Derived(c) = [headers |-> clone(c).map, modifier |-> clients[c].modifier,
                    debug |-> clients[c].debug, httpClient |-> clients[c].httpClient]
  BY <1>1, ClientIs DEF Derived
<1> QED BY <1>1, <1>2, <1>3, <1>4 DEF Client

\* A derived client with a map that holds what Gives says.
LEMMA DerivedStep ==
  ASSUME Inv, NEW c \in DOMAIN clients, NEW client \in Client, NEW h, NEW content,
         Gives(heap, h, client.headers, content), Made(client, h),
         Abstract!Make([headers |-> content, modifier |-> client.modifier,
                        debug |-> client.debug, httpClient |-> client.httpClient])
           => Abstract!Derive(Confs[c])
  PROVE  Good
<1>1. Inv' /\ ClientsStay /\ Abstract!Derive(Confs[c])
  BY MadeStep
<1>2. c \in DOMAIN Confs
  BY DEF Confs
<1>3. Abstract!Next
  BY <1>1, <1>2 DEF Abstract!Next, Confs
<1> QED BY <1>1, <1>3 DEF Good

LEMMA WithRequestModifierStep ==
  ASSUME Inv, NEW c \in DOMAIN clients, WithRequestModifier(c)
  PROVE  Good
<1>1. PICK f \in Modifiers : Made([Derived(c) EXCEPT !.modifier = f], clone(c).heap)
  BY DEF WithRequestModifier
<1> DEFINE client == [headers |-> clone(c).map, modifier |-> f, debug |-> Conf(c).debug,
                      httpClient |-> Conf(c).httpClient]
<1>2. [Derived(c) EXCEPT !.modifier = f] = client /\ client \in Client
  BY Cloned DEF Client
<1>3. Made(client, clone(c).heap) /\ Gives(heap, clone(c).heap, client.headers, Conf(c).headers)
  BY <1>1, <1>2, Cloned
<1>4. ASSUME Abstract!Make([headers |-> Conf(c).headers, modifier |-> client.modifier,
                            debug |-> client.debug, httpClient |-> client.httpClient])
      PROVE  Abstract!Derive(Confs[c])
  <2>1. [Confs[c] EXCEPT !.modifier = f] =
          [headers |-> Conf(c).headers, modifier |-> client.modifier,
           debug |-> client.debug, httpClient |-> client.httpClient]
    BY ConfIs DEF Confs
  <2> QED BY <1>4, <2>1 DEF Abstract!Derive
<1> QED BY <1>2, <1>3, <1>4, DerivedStep

LEMMA WithHTTPClientStep ==
  ASSUME Inv, NEW c \in DOMAIN clients, WithHTTPClient(c)
  PROVE  Good
<1>1. PICK hc \in HTTPClients : Made([Derived(c) EXCEPT !.httpClient = hc], clone(c).heap)
  BY DEF WithHTTPClient
<1> DEFINE client == [headers |-> clone(c).map, modifier |-> Conf(c).modifier,
                      debug |-> Conf(c).debug, httpClient |-> hc]
<1>2. [Derived(c) EXCEPT !.httpClient = hc] = client /\ client \in Client
  BY Cloned DEF Client
<1>3. Made(client, clone(c).heap) /\ Gives(heap, clone(c).heap, client.headers, Conf(c).headers)
  BY <1>1, <1>2, Cloned
<1>4. ASSUME Abstract!Make([headers |-> Conf(c).headers, modifier |-> client.modifier,
                            debug |-> client.debug, httpClient |-> client.httpClient])
      PROVE  Abstract!Derive(Confs[c])
  <2>1. [Confs[c] EXCEPT !.httpClient = hc] =
          [headers |-> Conf(c).headers, modifier |-> client.modifier,
           debug |-> client.debug, httpClient |-> client.httpClient]
    BY ConfIs DEF Confs
  <2> QED BY <1>4, <2>1 DEF Abstract!Derive
<1> QED BY <1>2, <1>3, <1>4, DerivedStep

LEMMA WithDebugStep ==
  ASSUME Inv, NEW c \in DOMAIN clients, WithDebug(c)
  PROVE  Good
<1>1. PICK d \in BOOLEAN : Made([Derived(c) EXCEPT !.debug = d], clone(c).heap)
  BY DEF WithDebug
<1> DEFINE client == [headers |-> clone(c).map, modifier |-> Conf(c).modifier,
                      debug |-> d, httpClient |-> Conf(c).httpClient]
<1>2. [Derived(c) EXCEPT !.debug = d] = client /\ client \in Client
  BY Cloned DEF Client
<1>3. Made(client, clone(c).heap) /\ Gives(heap, clone(c).heap, client.headers, Conf(c).headers)
  BY <1>1, <1>2, Cloned
<1>4. ASSUME Abstract!Make([headers |-> Conf(c).headers, modifier |-> client.modifier,
                            debug |-> client.debug, httpClient |-> client.httpClient])
      PROVE  Abstract!Derive(Confs[c])
  <2>1. [Confs[c] EXCEPT !.debug = d] =
          [headers |-> Conf(c).headers, modifier |-> client.modifier,
           debug |-> client.debug, httpClient |-> client.httpClient]
    BY ConfIs DEF Confs
  <2> QED BY <1>4, <2>1 DEF Abstract!Derive
<1> QED BY <1>2, <1>3, <1>4, DerivedStep

\* A client derived with a map that is there to be written to.
LEMMA WrittenStep ==
  ASSUME Inv, NEW c \in DOMAIN clients, NEW m, NEW h, NEW content,
         Gives(heap, h, m, content), Made([Derived(c) EXCEPT !.headers = m], h),
         Abstract!Make([Confs[c] EXCEPT !.headers = content]) => Abstract!Derive(Confs[c])
  PROVE  Good
<1> DEFINE client == [headers |-> m, modifier |-> Conf(c).modifier,
                      debug |-> Conf(c).debug, httpClient |-> Conf(c).httpClient]
<1>1. m \in Nat
  BY DEF Gives
<1>2. [Derived(c) EXCEPT !.headers = m] = client /\ client \in Client
  BY <1>1, Cloned DEF Client
<1>3. [Confs[c] EXCEPT !.headers = content] =
        [headers |-> content, modifier |-> client.modifier,
         debug |-> client.debug, httpClient |-> client.httpClient]
  BY ConfIs DEF Confs
<1>4. Made(client, h) /\ Gives(heap, h, client.headers, content)
  BY <1>2
<1> QED BY <1>2, <1>3, <1>4, DerivedStep

LEMMA WithHeaderStep ==
  ASSUME Inv, NEW c \in DOMAIN clients, WithHeader(c)
  PROVE  Good
<1>1. PICK key \in Keys, v \in Values :
        LET x == EnsureMap(clone(c))
        IN Made([Derived(c) EXCEPT !.headers = x.map], SetHeader(x.heap, x.map, key, v))
  BY DEF WithHeader
<1> DEFINE x == EnsureMap(clone(c))
           h == SetHeader(x.heap, x.map, key, v)
           content == Abstract!Put(Conf(c).headers, Canonical[key], <<v>>)
<1>2. Gives(heap, h, x.map, content)
  <2>1. clients[c].headers \in 0..Len(heap.maps) /\ Conf(c).headers = Held(heap, clients[c].headers)
    BY ConfIs
  <2> QED BY <2>1, SetGives DEF Inv, clone
<1>3. Made([Derived(c) EXCEPT !.headers = x.map], h)
  BY <1>1
<1> HIDE DEF x, h
<1>4. ASSUME Abstract!Make([Confs[c] EXCEPT !.headers = content])
      PROVE  Abstract!Derive(Confs[c])
  <2>1. [Confs[c] EXCEPT !.headers = Abstract!Put(@, Canonical[key], <<v>>)] =
          [Confs[c] EXCEPT !.headers = content]
    BY DEF Confs
  <2>2. Abstract!Make([Confs[c] EXCEPT !.headers = Abstract!Put(@, Canonical[key], <<v>>)])
    BY <1>4, <2>1
  <2> QED BY <2>2 DEF Abstract!Derive
<1> QED BY <1>2, <1>3, <1>4, WrittenStep

LEMMA WithHeadersStep ==
  ASSUME Inv, NEW c \in DOMAIN clients, WithHeaders(c)
  PROVE  Good
<1>1. CASE Made(Derived(c), clone(c).heap)
  <2> DEFINE client == [headers |-> clone(c).map, modifier |-> Conf(c).modifier,
                        debug |-> Conf(c).debug, httpClient |-> Conf(c).httpClient]
  <2>1. Derived(c) = client /\ client \in Client
    BY Cloned DEF Client
  <2>2. Made(client, clone(c).heap) /\ Gives(heap, clone(c).heap, client.headers, Conf(c).headers)
    BY <1>1, <2>1, Cloned
  <2>3. ASSUME Abstract!Make([headers |-> Conf(c).headers, modifier |-> client.modifier,
                              debug |-> client.debug, httpClient |-> client.httpClient])
        PROVE  Abstract!Derive(Confs[c])
    <3>1. Confs[c] = [headers |-> Conf(c).headers, modifier |-> client.modifier,
                      debug |-> client.debug, httpClient |-> client.httpClient]
      BY ConfIs DEF Confs
    <3> QED BY <2>3, <3>1 DEF Abstract!Derive
  <2> QED BY <2>1, <2>2, <2>3, DerivedStep
<1>2. ASSUME NEW i \in DOMAIN args,
             LET x == EnsureMap(clone(c))
             IN Made([Derived(c) EXCEPT !.headers = x.map], MergeHeaders(x.heap, x.map, args[i]))
      PROVE  Good
  <2> DEFINE x == EnsureMap(clone(c))
             h == MergeHeaders(x.heap, x.map, args[i])
             content == Abstract!Merge(Conf(c).headers, Held(heap, args[i]))
  <2>1. Gives(heap, h, x.map, content)
    <3>1. clients[c].headers \in 0..Len(heap.maps) /\ Conf(c).headers = Held(heap, clients[c].headers)
      BY ConfIs
    <3>2. args[i] \in DOMAIN heap.maps
      BY LenProperties DEF Inv, Separate, HeapOK
    <3> QED BY <3>1, <3>2, MergeGives DEF Inv, clone
  <2>2. Made([Derived(c) EXCEPT !.headers = x.map], h)
    BY <1>2
  <2> HIDE DEF x, h
  <2>3. ASSUME Abstract!Make([Confs[c] EXCEPT !.headers = content])
        PROVE  Abstract!Derive(Confs[c])
    <3>1. [Confs[c] EXCEPT !.headers = Abstract!Merge(@, ArgsHeld[i])] =
            [Confs[c] EXCEPT !.headers = content]
      BY DEF Confs, ArgsHeld
    <3>2. Abstract!Make([Confs[c] EXCEPT !.headers = Abstract!Merge(@, ArgsHeld[i])])
      BY <2>3, <3>1
    <3> QED BY <3>2 DEF Abstract!Derive, ArgsHeld
  <2> QED BY <2>1, <2>2, <2>3, WrittenStep
<1> QED BY <1>1, <1>2 DEF WithHeaders

LEMMA MakeArgStep ==
  ASSUME Inv, MakeArg
  PROVE  Good
<1>1. PICK content \in Contents : heap' = Allocate(heap, content)
  BY DEF MakeArg
<1>2. /\ args' = Append(args, Len(heap.maps) + 1)
      /\ clients' = clients /\ builds' = builds
  BY DEF MakeArg
<1>3. PICK top : top = Len(heap.maps) + 1
  OBVIOUS
<1>4. PICK n : n = Len(args)
  OBVIOUS
<1>5. /\ Gives(heap, heap', top, content) /\ Len(heap'.maps) = top
      /\ Len(heap.maps) \in Nat /\ top \in Nat
  <2>1. IsHeader(content)
    BY ContentsOK
  <2>2. HeapOK(heap)
    BY DEF Inv
  <2> QED BY <1>1, <1>3, <2>1, <2>2, AllocateGives, LenProperties DEF HeapOK
<1>6. /\ args' \in Seq(Nat) /\ Len(args') = n + 1
      /\ \A i \in 1..n : args'[i] = args[i]
      /\ args'[n + 1] = top
  BY <1>2, <1>3, <1>4, <1>5, AppendProperties DEF Inv
<1>7. n \in Nat /\ DOMAIN args = 1..n /\ DOMAIN args' = 1..(n + 1)
  BY <1>4, <1>6, LenProperties DEF Inv
<1>8. \A m \in 0..Len(heap.maps) : Held(heap', m) = Held(heap, m)
  BY <1>5 DEF Gives
<1>9. \A c \in DOMAIN clients : clients[c].headers \in 0..Len(heap.maps)
  BY DEF Inv, Separate
<1>10. \A i \in DOMAIN args : args[i] \in 1..Len(heap.maps)
  BY DEF Inv, Separate
<1>11. \A c \in DOMAIN clients : Conf(c)' = Conf(c)
  BY <1>2, <1>8, <1>9 DEF Conf
<1>12. ClientsStay
  BY <1>2, <1>11 DEF ClientsStay
<1>13. Separate'
  <2>1. \A c \in DOMAIN clients : clients[c].headers \in 0..Len(heap'.maps)
    BY <1>3, <1>5, <1>9
  <2>2. \A i \in 1..(n + 1) : args'[i] \in 1..Len(heap'.maps)
    BY <1>3, <1>5, <1>6, <1>7, <1>10
  <2>3. ASSUME NEW i \in 1..(n + 1), NEW j \in 1..(n + 1), args'[i] = args'[j]
        PROVE  i = j
    <3>1. CASE i \in 1..n /\ j \in 1..n
      BY <1>6, <1>7, <2>3, <3>1 DEF Inv, Separate
    <3>2. CASE i \in 1..n /\ j = n + 1
      BY <1>3, <1>5, <1>6, <1>7, <1>10, <2>3, <3>2
    <3>3. CASE j \in 1..n /\ i = n + 1
      BY <1>3, <1>5, <1>6, <1>7, <1>10, <2>3, <3>3
    <3> QED BY <1>7, <2>3, <3>1, <3>2, <3>3
  <2>4. ASSUME NEW c \in DOMAIN clients, NEW i \in 1..(n + 1)
        PROVE  clients[c].headers # args'[i]
    <3>1. CASE i \in 1..n
      BY <1>6, <1>7, <3>1 DEF Inv, Separate
    <3>2. CASE i = n + 1
      BY <1>3, <1>5, <1>6, <1>9, <3>2
    <3> QED BY <1>7, <3>1, <3>2
  <2>5. \A c, d \in DOMAIN clients :
          c # d /\ clients[c].headers = clients[d].headers => clients[c].headers = 0
    BY DEF Inv, Separate
  <2> QED BY <1>2, <1>7, <2>1, <2>2, <2>3, <2>4, <2>5 DEF Separate
<1>14. HeapOK(heap)'
  BY <1>5 DEF Gives
<1>15. /\ builds' \in [Goroutines -> Build \cup {NoBuild}]
       /\ \A g \in Goroutines : BuildOK(builds[g])'
       /\ Sent' = Sent
  BY <1>2, <1>12, BuildsStay
<1>16. Inv'
  BY <1>2, <1>6, <1>13, <1>14, <1>15 DEF Inv
<1>17. Confs' = Confs
  BY <1>2, <1>11 DEF Confs
<1>18. ArgsHeld' = Append(ArgsHeld, content)
  <2>1. /\ ArgsHeld = [i \in 1..n |-> Held(heap, args[i])]
        /\ ArgsHeld' = [i \in 1..(n + 1) |-> Held(heap', args'[i])]
    BY <1>7 DEF ArgsHeld
  <2>2. \A i \in 1..n : Held(heap', args'[i]) = Held(heap, args[i])
    BY <1>6, <1>7, <1>8, <1>10
  <2>3. /\ ArgsHeld = [i \in 1..n |-> ArgsHeld[i]]
        /\ ArgsHeld' = [i \in 1..(n + 1) |-> ArgsHeld'[i]]
        /\ \A i \in 1..n : ArgsHeld'[i] = ArgsHeld[i]
    BY <1>7, <2>1, <2>2
  <2>4. ArgsHeld'[n + 1] = content
    BY <1>5, <1>6, <1>7, <2>1 DEF Gives
  <2> QED BY <1>7, <2>3, <2>4, IsAppended
<1>19. Abstract!MakeArg(content)
  BY <1>15, <1>17, <1>18 DEF Abstract!MakeArg, Confs, ArgsHeld, Sent
<1> QED BY <1>12, <1>16, <1>19 DEF Good, Abstract!Next

Edited(h, m, k, n, v) == [h EXCEPT !.arrays[h.maps[m][k].array][n] = v]

\* A caller writes to a slice of a map: the map holds the new value, and no other
\* map holds it.
LEMMA EditHolds ==
  ASSUME NEW h, HeapOK(h), NEW m \in DOMAIN h.maps, NEW k \in DOMAIN h.maps[m],
         NEW n \in 1..h.maps[m][k].len, NEW v \in Values
  PROVE  LET h2 == Edited(h, m, k, n, v)
         IN /\ HeapOK(h2) /\ h2.maps = h.maps /\ OthersHold(h, h2, m)
            /\ k \in DOMAIN Held(h, m) /\ n \in DOMAIN Held(h, m)[k]
            /\ Held(h2, m) = [Held(h, m) EXCEPT ![k][n] = v]
<1> DEFINE a == <<m, k>>
           s == h.arrays[a]
           s2 == [s EXCEPT ![n] = v]
           arrays == [h.arrays EXCEPT ![a] = s2]
           h2 == [arrays |-> arrays, maps |-> h.maps]
<1>1. /\ m \in Nat \ {0} /\ DOMAIN h.maps[m] \subseteq Keys /\ h.maps \in Seq(Maps)
      /\ DOMAIN h.maps = DOMAIN h.maps \cup {m}
  <2>1. m \in 1..Len(h.maps) /\ DOMAIN h.maps[m] \subseteq Keys
    BY HeapMaps
  <2> QED BY <2>1 DEF HeapOK
<1>2. /\ h.maps[m][k].array = a /\ a \in DOMAIN h.arrays /\ s \in Seq(Values)
      /\ h.maps[m][k].len \in 0..Len(s)
  <2>1. h.maps[m][k].array = a
    BY DEF HeapOK, OwnSlice
  <2> QED BY <2>1, HeapMaps
<1>3. Len(s) \in Nat
  BY <1>2, LenProperties
<1>4. Edited(h, m, k, n, v) = h2
  <2>1. h = [arrays |-> h.arrays, maps |-> h.maps]
    BY DEF HeapOK
  <2>2. [h EXCEPT !.arrays[a][n] = v] = [arrays |-> [h.arrays EXCEPT ![a][n] = v], maps |-> h.maps]
    BY <2>1
  <2>3. [h.arrays EXCEPT ![a][n] = v] = arrays
    OBVIOUS
  <2> QED BY <1>2, <2>2, <2>3 DEF Edited
<1>5. n \in 1..Len(s)
  BY <1>2, <1>3
<1>6. s2 \in Seq(Values) /\ Len(s2) = Len(s) /\ \A i \in 1..Len(s) : s2[i] = IF i = n THEN v ELSE s[i]
  <2> HIDE DEF s
  <2> QED BY <1>2, <1>3, <1>5, ExceptSeq
<1> HIDE DEF s, s2
<1>7. /\ DOMAIN arrays = DOMAIN h.arrays /\ arrays[a] = s2
      /\ \A b \in DOMAIN h.arrays \ {a} : arrays[b] = h.arrays[b]
  BY <1>2
<1>8. arrays \in [DOMAIN h.arrays \cup {a} -> Seq(Values)]
  BY <1>2, <1>6 DEF HeapOK
<1> HIDE DEF arrays
<1>9. ASSUME NEW l \in DOMAIN h.maps[m]
      PROVE  OwnSlice(h2, m, l)
  <2>1. OwnSlice(h, m, l)
    BY DEF HeapOK
  <2>2. CASE l = k
    BY <1>2, <1>3, <1>6, <1>7, <2>1, <2>2 DEF OwnSlice, s
  <2>3. CASE l # k
    <3>1. <<m, l>> \in DOMAIN h.arrays \ {a}
      BY <2>1, <2>3 DEF OwnSlice
    <3> QED BY <1>7, <2>1, <3>1 DEF OwnSlice
  <2> QED BY <2>2, <2>3
<1>10. HeapOK(h2) /\ OthersHold(h, h2, m)
  <2>1. {a} \in SUBSET {<<m, l>> : l \in Keys}
    BY <1>1
  <2> QED BY <1>1, <1>7, <1>8, <1>9, <2>1, MapWritten
<1>11. Held(h, m) = [l \in DOMAIN h.maps[m] |-> SubSeq(h.arrays[<<m, l>>], 1, h.maps[m][l].len)]
  BY HeldIs
<1>12. Held(h2, m) = [l \in DOMAIN h.maps[m] |-> SubSeq(arrays[<<m, l>>], 1, h.maps[m][l].len)]
  <2>1. h2.maps = h.maps /\ h2.arrays = arrays
    OBVIOUS
  <2>2. Held(h2, m) = [l \in DOMAIN h2.maps[m] |->
                         SubSeq(h2.arrays[<<m, l>>], 1, h2.maps[m][l].len)]
    <3> HIDE DEF h2
    <3> QED BY <1>10, <2>1, HeldIs
  <2> QED BY <2>1, <2>2
<1> DEFINE len == h.maps[m][k].len
           t == SubSeq(s, 1, len)
           t2 == SubSeq(s2, 1, len)
<1>13. /\ t \in Seq(Values) /\ Len(t) = len /\ \A i \in 1..len : t[i] = s[i]
       /\ t2 \in Seq(Values) /\ Len(t2) = len /\ \A i \in 1..len : t2[i] = s2[i]
  <2>1. len \in 0..Len(s) /\ len \in 0..Len(s2)
    BY <1>2, <1>6
  <2> QED BY <1>2, <1>6, <2>1, Prefix
<1>14. len \in Nat /\ len <= Len(s)
  BY <1>2, <1>3
<1> HIDE DEF len, t, t2
<1>15. t2 = [t EXCEPT ![n] = v] /\ n \in DOMAIN t
  <2>1. n \in 1..len
    BY DEF len
  <2>2. /\ [t EXCEPT ![n] = v] \in Seq(Values) /\ Len([t EXCEPT ![n] = v]) = len
        /\ \A i \in 1..len : [t EXCEPT ![n] = v][i] = IF i = n THEN v ELSE t[i]
    BY <1>13, <2>1, ExceptSeq
  <2>3. \A i \in 1..len : t2[i] = [t EXCEPT ![n] = v][i]
    BY <1>3, <1>6, <1>13, <1>14, <2>2
  <2>4. DOMAIN t = 1..len
    BY <1>13, LenProperties
  <2> QED BY <1>13, <2>1, <2>2, <2>3, <2>4, SeqEqual
<1>16. Held(h, m)[k] = t /\ Held(h2, m)[k] = t2
  BY <1>7, <1>11, <1>12 DEF s, t, t2, len
<1>17. \A l \in DOMAIN h.maps[m] \ {k} : Held(h2, m)[l] = Held(h, m)[l]
  <2> SUFFICES ASSUME NEW l \in DOMAIN h.maps[m] \ {k}
               PROVE  Held(h2, m)[l] = Held(h, m)[l]
    OBVIOUS
  <2>1. <<m, l>> \in DOMAIN h.arrays \ {a}
    BY HeapMaps
  <2>2. arrays[<<m, l>>] = h.arrays[<<m, l>>]
    BY <1>7, <2>1
  <2> HIDE DEF h2
  <2> QED BY <1>11, <1>12, <2>2
<1>18. /\ Held(h, m) = [l \in DOMAIN h.maps[m] |-> Held(h, m)[l]]
       /\ Held(h2, m) = [l \in DOMAIN h.maps[m] |-> Held(h2, m)[l]]
  BY <1>11, <1>12
<1>19. Held(h2, m) = [Held(h, m) EXCEPT ![k][n] = v]
  BY <1>15, <1>16, <1>17, <1>18
<1>20. h2.maps = h.maps
  OBVIOUS
<1> HIDE DEF h2
<1> QED BY <1>4, <1>10, <1>15, <1>16, <1>18, <1>19, <1>20

LEMMA EditArgStep ==
  ASSUME Inv, EditArg
  PROVE  Good
<1>1. PICK i \in DOMAIN args, v \in Values :
        \E k \in DOMAIN heap.maps[args[i]] : \E n \in 1..heap.maps[args[i]][k].len :
          heap' = [heap EXCEPT !.arrays[heap.maps[args[i]][k].array][n] = v]
  BY DEF EditArg
<1>2. clients' = clients /\ args' = args /\ builds' = builds
  BY DEF EditArg
<1>3. PICK m : m = args[i]
  OBVIOUS
<1>4. PICK k \in DOMAIN heap.maps[m] :
        \E n \in 1..heap.maps[m][k].len :
          heap' = [heap EXCEPT !.arrays[heap.maps[m][k].array][n] = v]
  BY <1>1, <1>3
<1>5. PICK n \in 1..heap.maps[m][k].len :
        heap' = [heap EXCEPT !.arrays[heap.maps[m][k].array][n] = v]
  BY <1>4
<1>6. HeapOK(heap) /\ m \in DOMAIN heap.maps
  BY <1>3, LenProperties DEF Inv, Separate, HeapOK
<1>7. /\ HeapOK(heap') /\ heap'.maps = heap.maps /\ OthersHold(heap, heap', m)
      /\ k \in DOMAIN Held(heap, m) /\ n \in DOMAIN Held(heap, m)[k]
      /\ Held(heap', m) = [Held(heap, m) EXCEPT ![k][n] = v]
  <2> DEFINE h2 == Edited(heap, m, k, n, v)
  <2>1. /\ HeapOK(h2) /\ h2.maps = heap.maps /\ OthersHold(heap, h2, m)
        /\ k \in DOMAIN Held(heap, m) /\ n \in DOMAIN Held(heap, m)[k]
        /\ Held(h2, m) = [Held(heap, m) EXCEPT ![k][n] = v]
    BY <1>6, EditHolds
  <2>2. heap' = h2
    BY <1>5 DEF Edited
  <2> HIDE DEF h2
  <2> QED BY <2>1, <2>2
<1>8. k \in Keys
  BY <1>6, HeapMaps
<1>9. \A l \in 0..Len(heap.maps) : l # m => Held(heap', l) = Held(heap, l)
  BY <1>6, <1>7, NilHoldsNothing, LenProperties DEF OthersHold, HeapOK
<1>10. ASSUME NEW c \in DOMAIN clients
      PROVE  Conf(c)' = Conf(c)
  <2>1. clients[c].headers \in 0..Len(heap.maps) /\ clients[c].headers # m
    BY <1>3 DEF Inv, Separate
  <2>2. Held(heap', clients[c].headers) = Held(heap, clients[c].headers)
    BY <1>9, <2>1
  <2> QED BY <1>2, <2>2 DEF Conf
<1>11. ClientsStay
  BY <1>2, <1>10 DEF ClientsStay
<1>12. Inv'
  <2>1. Separate'
    BY <1>2, <1>7 DEF Inv, Separate
  <2> QED BY <1>2, <1>7, <1>11, <2>1, BuildsStay DEF Inv
<1>13. Confs' = Confs /\ Sent' = Sent
  BY <1>2, <1>10, <1>11, BuildsStay DEF Confs
<1>14. ArgsHeld' = [ArgsHeld EXCEPT ![i][k][n] = v]
  <2>1. \A j \in DOMAIN args \ {i} : Held(heap', args[j]) = Held(heap, args[j])
    BY <1>3, <1>9 DEF Inv, Separate
  <2>2. ArgsHeld = [j \in DOMAIN args |-> Held(heap, args[j])]
    BY DEF ArgsHeld
  <2>3. ArgsHeld' = [j \in DOMAIN args |-> Held(heap', args[j])]
    BY <1>2 DEF ArgsHeld
  <2>4. [ArgsHeld EXCEPT ![i][k][n] = v] =
          [j \in DOMAIN args |-> IF j = i THEN [Held(heap, m) EXCEPT ![k][n] = v]
                                 ELSE Held(heap, args[j])]
    BY <1>3, <2>2
  <2> QED BY <1>3, <1>7, <2>1, <2>3, <2>4
<1>15. i \in DOMAIN ArgsHeld /\ k \in DOMAIN ArgsHeld[i] /\ n \in DOMAIN ArgsHeld[i][k]
  BY <1>3, <1>7 DEF ArgsHeld
<1>16. Abstract!EditArg(i, k, n, v)
  BY <1>13, <1>14, <1>15 DEF Abstract!EditArg, Confs, ArgsHeld, Sent
<1>17. Abstract!Next
  BY <1>8, <1>15, <1>16 DEF Abstract!Next, ArgsHeld
<1> QED BY <1>11, <1>12, <1>17 DEF Good

-----------------------------------------------------------------------------
(* BuildRequest. *)

\* A step of one build leaves all else alone.
LEMMA BuildStep ==
  ASSUME Inv, NEW g \in Goroutines, NEW b \in Build \cup {NoBuild}, BuildOK(b), SetBuild(g, b)
  PROVE  /\ Inv' /\ ClientsStay /\ Confs' = Confs /\ ArgsHeld' = ArgsHeld
         /\ Sent' = [Sent EXCEPT ![g] = IF b.stage = "built" THEN b.headers ELSE <<>>]
<1>1. /\ builds' = [builds EXCEPT ![g] = b]
      /\ heap' = heap /\ clients' = clients /\ args' = args
  BY DEF SetBuild
<1>2. \A c : Conf(c)' = Conf(c)
  BY <1>1 DEF Conf
<1>3. ClientsStay
  BY <1>1, <1>2 DEF ClientsStay
<1>4. builds' \in [Goroutines -> Build \cup {NoBuild}]
  BY <1>1 DEF Inv
<1>5. ASSUME NEW f \in Goroutines
      PROVE  BuildOK(builds[f])'
  <2>1. BuildOK(builds'[f])
    <3>1. CASE f = g
      BY <1>1, <3>1 DEF Inv
    <3>2. CASE f # g
      <4>1. builds'[f] = builds[f]
        BY <1>1, <3>2 DEF Inv
      <4> QED BY <4>1 DEF Inv
    <3> QED BY <3>1, <3>2
  <2> QED BY <1>1, <1>2, <2>1 DEF BuildOK
<1>6. Inv'
  BY <1>1, <1>4, <1>5 DEF Inv, Separate
<1>7. Confs' = Confs /\ ArgsHeld' = ArgsHeld
  BY <1>1, <1>2 DEF Confs, ArgsHeld
<1>8. Sent' = [Sent EXCEPT ![g] = IF b.stage = "built" THEN b.headers ELSE <<>>]
  BY <1>1 DEF Sent, Inv
<1> QED BY <1>3, <1>6, <1>7, <1>8

LEMMA BuildType ==
  ASSUME NEW stage \in {"copying", "built"}, NEW client \in Nat, NEW todo \in SUBSET Keys,
         NEW headers \in RequestHeaders
  PROVE  LET b == [stage |-> stage, client |-> client, todo |-> todo, headers |-> headers]
         IN b \in Build /\ b # NoBuild
BY DEF Build, NoBuild

LEMMA BuildFields ==
  ASSUME NEW b, b = [stage |-> b.stage, client |-> b.client, todo |-> b.todo,
                     headers |-> b.headers],
         NEW x, NEW r
  PROVE  /\ [b EXCEPT !.todo = x, !.headers = r] =
              [stage |-> b.stage, client |-> b.client, todo |-> x, headers |-> r]
         /\ [b EXCEPT !.stage = "built", !.headers = r] =
              [stage |-> "built", client |-> b.client, todo |-> b.todo, headers |-> r]
<1> DEFINE setHeaders(y) == [y EXCEPT !.headers = r]
<1>1. \A y : y = [stage |-> y.stage, client |-> y.client, todo |-> y.todo,
                  headers |-> y.headers]
             => setHeaders(y) = [stage |-> y.stage, client |-> y.client, todo |-> y.todo,
                                headers |-> r]
  OBVIOUS
<1>2. /\ [b EXCEPT !.todo = x, !.headers = r] = setHeaders([b EXCEPT !.todo = x])
      /\ [b EXCEPT !.stage = "built", !.headers = r] = setHeaders([b EXCEPT !.stage = "built"])
  OBVIOUS
<1> HIDE DEF setHeaders
<1>3. [b EXCEPT !.todo = x] = [stage |-> b.stage, client |-> b.client, todo |-> x,
                               headers |-> b.headers]
  OBVIOUS
<1>4. [b EXCEPT !.stage = "built"] = [stage |-> "built", client |-> b.client, todo |-> b.todo,
                                headers |-> b.headers]
  OBVIOUS
<1> QED BY <1>1, <1>2, <1>3, <1>4

\* The build of a goroutine that is in one.
LEMMA BuildIs ==
  ASSUME Inv, NEW g \in Goroutines, builds[g].stage # "none"
  PROVE  /\ builds[g] \in Build /\ BuildOK(builds[g]) /\ builds[g] # NoBuild
         /\ builds[g] = [stage |-> builds[g].stage, client |-> builds[g].client,
                         todo |-> builds[g].todo, headers |-> builds[g].headers]
         /\ builds[g].stage \in {"copying", "built"} /\ builds[g].client \in Nat
         /\ builds[g].todo \in SUBSET Keys /\ builds[g].headers \in RequestHeaders
         /\ builds[g].client \in DOMAIN clients
<1>1. builds[g] \in Build \cup {NoBuild} /\ BuildOK(builds[g])
  BY DEF Inv
<1>2. builds[g] \in Build /\ builds[g] # NoBuild
  BY <1>1 DEF NoBuild
<1>3. builds[g].client \in DOMAIN clients
  BY <1>1, <1>2 DEF BuildOK
<1> QED BY <1>1, <1>2, <1>3 DEF Build

\* Copying one more header.
LEMMA CopyCarries ==
  ASSUME NEW headers, IsHeader(headers), NEW r \in RequestHeaders, NEW k \in DOMAIN headers,
         NEW done, Carries(r, headers, done)
  PROVE  /\ SetEach(r, k, headers[k]) \in RequestHeaders
         /\ Carries(SetEach(r, k, headers[k]), headers, done \cup {k})
<1> DEFINE vs == headers[k]
           c == Canonical[k]
           r2 == SetEach(r, k, vs)
           spelt(d, n) == {x \in d : Canonical[x] = n /\ headers[x] # <<>>}
<1>1. vs \in Seq(Values) /\ k \in Keys /\ c \in Names
  BY DEF IsHeader, Names
<1>2. CASE vs = <<>>
  <2>1. r2 = r
    BY <1>2 DEF SetEach
  <2>2. \A n : spelt(done \cup {k}, n) = spelt(done, n)
    BY <1>2
  <2> QED BY <2>1, <2>2 DEF Carries
<1>3. CASE vs # <<>>
  <2>1. r2 = [r EXCEPT ![c] = vs[Len(vs)]]
    BY <1>3 DEF SetEach
  <2>2. vs[Len(vs)] \in Values
    <3>1. Len(vs) \in 1..Len(vs)
      BY <1>1, <1>3, EmptySeq, LenProperties
    <3> QED BY <1>1, <3>1, ElementOfSeq
  <2>3. r2 \in RequestHeaders
    BY <1>1, <2>1, <2>2 DEF RequestHeaders
  <2>4. /\ r2[c] = vs[Len(vs)] /\ \A n \in Names \ {c} : r2[n] = r[n]
    BY <1>1, <2>1 DEF RequestHeaders
  <2>5. ASSUME NEW n \in Names
        PROVE  IF spelt(done \cup {k}, n) # {}
               THEN \E x \in spelt(done \cup {k}, n) : r2[n] = headers[x][Len(headers[x])]
               ELSE r2[n] = IF n = ContentType THEN JSONType ELSE NoValue
    <3>1. CASE n = c
      <4>1. k \in spelt(done \cup {k}, n)
        BY <1>3, <3>1
      <4> QED BY <2>4, <3>1, <4>1
    <3>2. CASE n # c
      <4>1. spelt(done \cup {k}, n) = spelt(done, n)
        BY <3>2
      <4>2. r2[n] = r[n]
        BY <2>4, <3>2
      <4> QED BY <4>1, <4>2 DEF Carries
    <3> QED BY <3>1, <3>2
  <2> QED BY <2>3, <2>5 DEF Carries
<1> QED BY <1>2, <1>3

LEMMA StartBuildStep ==
  ASSUME Inv, NEW g \in Goroutines, StartBuild(g)
  PROVE  Good
<1> DEFINE start == [n \in Names |-> IF n = ContentType THEN JSONType ELSE NoValue]
           b(c) == [stage |-> "copying", client |-> c,
                    todo |-> DOMAIN Held(heap, clients[c].headers), headers |-> start]
<1>1. PICK c \in DOMAIN clients : SetBuild(g, b(c))
  BY DEF StartBuild
<1>2. /\ Conf(c).headers = Held(heap, clients[c].headers)
      /\ DOMAIN Held(heap, clients[c].headers) \subseteq Keys
  BY ConfIs DEF IsHeader
<1>3. c \in Nat
  BY LenProperties DEF Inv
<1>4. start \in RequestHeaders
  BY DEF RequestHeaders
<1>5. b(c) \in Build /\ b(c) # NoBuild
  BY <1>2, <1>3, <1>4, BuildType
<1>6. Carries(start, Conf(c).headers, {})
  BY DEF Carries
<1>7. BuildOK(b(c))
  <2>1. DOMAIN Conf(c).headers \ DOMAIN Conf(c).headers = {}
    OBVIOUS
  <2> HIDE DEF start
  <2> QED BY <1>2, <1>5, <1>6, <2>1 DEF BuildOK
<1>8. /\ Inv' /\ ClientsStay /\ Confs' = Confs /\ ArgsHeld' = ArgsHeld
      /\ Sent' = [Sent EXCEPT ![g] = <<>>]
  <2> HIDE DEF start
  <2>1. b(c).stage # "built"
    OBVIOUS
  <2> HIDE DEF b
  <2> QED BY <1>1, <1>5, <1>7, <2>1, BuildStep
<1>9. Sent' = Sent
  <2>1. Sent[g] = <<>>
    BY DEF Sent, StartBuild
  <2> QED BY <1>8, <2>1 DEF Sent
<1>10. UNCHANGED Abstract!valuesVars
  BY <1>8, <1>9 DEF Abstract!valuesVars, Confs, ArgsHeld, Sent
<1> QED BY <1>8, <1>10 DEF Good

LEMMA CopyHeaderStep ==
  ASSUME Inv, NEW g \in Goroutines, CopyHeader(g)
  PROVE  Good
<1> DEFINE old == builds[g]
           headers == Conf(old.client).headers
<1>1. old.stage = "copying"
  BY DEF CopyHeader
<1>2. /\ old \in Build /\ BuildOK(old) /\ old # NoBuild
      /\ old = [stage |-> "copying", client |-> old.client, todo |-> old.todo,
                headers |-> old.headers]
      /\ old.client \in Nat /\ old.todo \in SUBSET Keys /\ old.headers \in RequestHeaders
      /\ old.client \in DOMAIN clients
  BY <1>1, BuildIs
<1>3. IsHeader(headers) /\ headers = Held(heap, clients[old.client].headers)
  BY <1>2, ConfIs
<1>4. PICK k \in old.todo :
        SetBuild(g, [old EXCEPT !.todo = @ \ {k},
                                !.headers = SetEach(@, k, headers[k])])
  BY <1>3 DEF CopyHeader
<1>5. /\ old.todo \subseteq DOMAIN headers
      /\ Carries(old.headers, headers, DOMAIN headers \ old.todo)
  BY <1>1, <1>2 DEF BuildOK
<1> DEFINE r == SetEach(old.headers, k, headers[k])
           b == [stage |-> "copying", client |-> old.client, todo |-> old.todo \ {k},
                 headers |-> r]
<1>6. [old EXCEPT !.todo = @ \ {k}, !.headers = SetEach(@, k, headers[k])] = b
  <2> HIDE DEF old, headers, r
  <2>1. old = [stage |-> old.stage, client |-> old.client, todo |-> old.todo,
               headers |-> old.headers]
    BY <1>2
  <2>2. [old EXCEPT !.todo = old.todo \ {k}, !.headers = r] =
          [stage |-> old.stage, client |-> old.client, todo |-> old.todo \ {k}, headers |-> r]
    BY <2>1, BuildFields
  <2>3. old.stage = "copying"
    BY <1>1 DEF old
  <2> QED BY <2>2, <2>3 DEF r
<1>7. /\ r \in RequestHeaders
      /\ Carries(r, headers, (DOMAIN headers \ old.todo) \cup {k})
  <2> HIDE DEF headers, old
  <2> QED BY <1>2, <1>3, <1>5, CopyCarries
<1>8. (DOMAIN headers \ old.todo) \cup {k} = DOMAIN headers \ (old.todo \ {k})
  BY <1>5
<1>9. b \in Build /\ b # NoBuild
  <2> HIDE DEF r, old
  <2> QED BY <1>2, <1>7, BuildType
<1>10. BuildOK(b)
  <2>1. /\ b.client = old.client /\ b.todo = old.todo \ {k} /\ b.headers = r
        /\ b.stage = "copying"
    OBVIOUS
  <2>2. Carries(r, headers, DOMAIN headers \ (old.todo \ {k}))
    BY <1>7, <1>8
  <2> HIDE DEF b, r, old
  <2> QED BY <1>2, <1>5, <1>9, <2>1, <2>2 DEF BuildOK
<1>11. SetBuild(g, b) /\ b.stage # "built"
  BY <1>4, <1>6
<1> HIDE DEF b
<1>12. /\ Inv' /\ ClientsStay /\ Confs' = Confs /\ ArgsHeld' = ArgsHeld
       /\ Sent' = [Sent EXCEPT ![g] = <<>>]
  BY <1>9, <1>10, <1>11, BuildStep
<1>13. Sent' = Sent
  <2>1. Sent[g] = <<>>
    BY <1>1 DEF Sent
  <2> QED BY <1>12, <2>1 DEF Sent
<1>14. UNCHANGED Abstract!valuesVars
  BY <1>12, <1>13 DEF Abstract!valuesVars, Confs, ArgsHeld, Sent
<1> QED BY <1>12, <1>14 DEF Good

\* All headers were copied, and the modifier has the last word: what is built is
\* what the abstract specification delivers.
LEMMA ModifyStep ==
  ASSUME Inv, NEW g \in Goroutines, Modify(g)
  PROVE  Good
<1> DEFINE old == builds[g]
           conf == Conf(old.client)
           f == conf.modifier
           r == [n \in Names |-> IF n \in DOMAIN f THEN f[n] ELSE old.headers[n]]
           b == [stage |-> "built", client |-> old.client, todo |-> old.todo, headers |-> r]
<1>1. old.stage = "copying" /\ old.todo = {}
  BY DEF Modify
<1>2. /\ old \in Build /\ BuildOK(old) /\ old # NoBuild
      /\ old = [stage |-> "copying", client |-> old.client, todo |-> old.todo,
                headers |-> old.headers]
      /\ old.client \in Nat /\ old.todo \in SUBSET Keys /\ old.headers \in RequestHeaders
      /\ old.client \in DOMAIN clients
  BY <1>1, BuildIs
<1>3. f = clients[old.client].modifier /\ f \in Modifiers \cup {NoModifier}
  <2> HIDE DEF old
  <2> QED BY <1>2, ConfIs DEF Client
<1>4. SetBuild(g, b)
  <2> DEFINE m == clients[old.client].modifier
             new == [n \in Names |-> IF n \in DOMAIN m THEN m[n] ELSE old.headers[n]]
  <2>1. SetBuild(g, [old EXCEPT !.stage = "built", !.headers = new])
    BY DEF Modify
  <2>2. new = r
    <3> HIDE DEF old, f
    <3> QED BY <1>3
  <2> HIDE DEF old, r
  <2>3. old = [stage |-> old.stage, client |-> old.client, todo |-> old.todo,
               headers |-> old.headers]
    BY <1>2
  <2> HIDE DEF conf, b
  <2>4. [old EXCEPT !.stage = "built", !.headers = r] =
          [stage |-> "built", client |-> old.client, todo |-> old.todo, headers |-> r]
    BY <2>3, BuildFields
  <2> QED BY <2>1, <2>2, <2>4 DEF b
<1>5. r \in RequestHeaders
  <2>1. \A n \in DOMAIN f : f[n] \in Values
    BY <1>3, ModifiersOK DEF IsModifier
  <2> HIDE DEF old, f
  <2> QED BY <1>2, <2>1 DEF RequestHeaders
<1>6. b \in Build /\ b # NoBuild
  <2> HIDE DEF r, old
  <2> QED BY <1>2, <1>5, BuildType
<1>7. Carries(old.headers, conf.headers, DOMAIN conf.headers)
  <2>1. /\ old.todo \subseteq DOMAIN conf.headers
        /\ Carries(old.headers, conf.headers, DOMAIN conf.headers \ old.todo)
    BY <1>1, <1>2 DEF BuildOK
  <2>2. DOMAIN conf.headers \ old.todo = DOMAIN conf.headers
    BY <1>1
  <2> QED BY <2>1, <2>2
<1>8. Abstract!HasHeadersOf(r, conf)
  <2> SUFFICES ASSUME NEW n \in Names
               PROVE  LET spellings == {k \in DOMAIN conf.headers :
                                          Canonical[k] = n /\ conf.headers[k] # <<>>}
                      IN IF n \in DOMAIN f THEN r[n] = f[n]
                         ELSE IF spellings # {}
                              THEN \E k \in spellings : r[n] = Abstract!Last(conf.headers[k])
                              ELSE r[n] = IF n = ContentType THEN JSONType ELSE NoValue
    BY DEF Abstract!HasHeadersOf, Abstract!Names, Names
  <2>1. r[n] = IF n \in DOMAIN f THEN f[n] ELSE old.headers[n]
    OBVIOUS
  <2> HIDE DEF r, f, old, conf
  <2> QED BY <1>7, <2>1 DEF Carries, Abstract!Last
<1>9. BuildOK(b) /\ b.stage = "built" /\ b.headers = r
  <2>1. /\ b.client = old.client /\ b.todo = old.todo /\ b.stage = "built" /\ b.headers = r
        /\ old.todo \subseteq DOMAIN conf.headers /\ conf = Conf(old.client)
    BY <1>1
  <2> HIDE DEF b, r, old, conf
  <2> QED BY <1>2, <1>6, <1>8, <2>1 DEF BuildOK
<1> HIDE DEF b
<1>10. /\ Inv' /\ ClientsStay /\ Confs' = Confs /\ ArgsHeld' = ArgsHeld
      /\ Sent' = [Sent EXCEPT ![g] = r]
  BY <1>4, <1>6, <1>9, BuildStep
<1>11. Sent[g] = <<>>
  BY <1>1 DEF Sent
<1>12. Abstract!Deliver(g)
  <2>1. r \in [Abstract!Names -> Values \cup {JSONType, NoValue}]
    BY <1>5 DEF RequestHeaders, Abstract!Names, Names
  <2>2. old.client \in DOMAIN Confs /\ Confs[old.client] = conf
    BY <1>2 DEF Confs
  <2>3. \E i \in DOMAIN Confs : Abstract!HasHeadersOf(r, Confs[i])
    BY <1>8, <2>2
  <2> HIDE DEF r
  <2> QED BY <1>10, <1>11, <2>1, <2>3
          DEF Abstract!Deliver, Abstract!NoRequest, Confs, ArgsHeld, Sent
<1> QED BY <1>10, <1>12 DEF Good, Abstract!Next

LEMMA ForgetStep ==
  ASSUME Inv, NEW g \in Goroutines, Forget(g)
  PROVE  Good
<1>1. builds[g].stage = "built" /\ SetBuild(g, NoBuild)
  BY DEF Forget
<1>2. NoBuild \in Build \cup {NoBuild} /\ BuildOK(NoBuild) /\ NoBuild.stage # "built"
  BY DEF BuildOK, NoBuild
<1>3. /\ Inv' /\ ClientsStay /\ Confs' = Confs /\ ArgsHeld' = ArgsHeld
      /\ Sent' = [Sent EXCEPT ![g] = <<>>]
  BY <1>1, <1>2, BuildStep
<1>4. Sent[g] # <<>>
  <2>1. builds[g].headers \in [Names -> Values \cup {JSONType, NoValue}]
    BY <1>1, BuildIs DEF RequestHeaders
  <2>2. DOMAIN builds[g].headers # {}
    BY <2>1, ContentTypeOK
  <2>3. builds[g].headers # <<>>
    BY <2>2
  <2> QED BY <1>1, <2>3 DEF Sent
<1>5. Abstract!Forget(g)
  BY <1>3, <1>4 DEF Abstract!Forget, Abstract!NoRequest, Confs, ArgsHeld, Sent
<1> QED BY <1>3, <1>5 DEF Good, Abstract!Next

-----------------------------------------------------------------------------
(* The theorems. *)

LEMMA InitOK == Init => Inv /\ Abstract!Init
<1> SUFFICES ASSUME Init PROVE Inv /\ Abstract!Init
  OBVIOUS
<1>1. /\ heap = [arrays |-> <<>>, maps |-> <<>>] /\ clients = <<>> /\ args = <<>>
      /\ builds = [g \in Goroutines |-> NoBuild]
  BY DEF Init
<1>2. DOMAIN clients = {} /\ DOMAIN args = {}
  BY <1>1
<1>3. HeapOK(heap)
  BY <1>1 DEF HeapOK
<1>4. Separate
  BY <1>2 DEF Separate
<1>5. \A g \in Goroutines : builds[g] = NoBuild /\ BuildOK(builds[g])
  BY <1>1 DEF BuildOK
<1>6. Inv
  BY <1>1, <1>3, <1>4, <1>5 DEF Inv
<1>7. Abstract!Init
  BY <1>1, <1>2 DEF Abstract!Init, Abstract!NoRequest, NoBuild
<1> QED BY <1>6, <1>7

LEMMA NextGood ==
  ASSUME Inv, [Next]_vars
  PROVE  Good
<1>1. CASE NewClient
  BY <1>1, NewClientStep
<1>2. ASSUME NEW c \in DOMAIN clients,
             \/ WithRequestModifier(c) \/ WithHTTPClient(c) \/ WithDebug(c)
             \/ WithHeader(c) \/ WithHeaders(c)
      PROVE  Good
  BY <1>2, WithRequestModifierStep, WithHTTPClientStep, WithDebugStep, WithHeaderStep,
     WithHeadersStep
<1>3. CASE MakeArg
  BY <1>3, MakeArgStep
<1>4. CASE EditArg
  BY <1>4, EditArgStep
<1>5. ASSUME NEW g \in Goroutines, StartBuild(g) \/ CopyHeader(g) \/ Modify(g) \/ Forget(g)
      PROVE  Good
  BY <1>5, StartBuildStep, CopyHeaderStep, ModifyStep, ForgetStep
<1>6. CASE UNCHANGED vars
  <2>1. heap' = heap /\ clients' = clients /\ args' = args /\ builds' = builds
    BY <1>6 DEF vars
  <2>2. \A c : Conf(c)' = Conf(c)
    BY <2>1 DEF Conf
  <2>3. ClientsStay
    BY <2>1, <2>2 DEF ClientsStay
  <2>4. Inv'
    BY <2>1, <2>3, BuildsStay DEF Inv, Separate
  <2>5. UNCHANGED Abstract!valuesVars
    BY <2>1, <2>2 DEF Abstract!valuesVars
  <2> QED BY <2>3, <2>4, <2>5 DEF Good
<1> QED BY <1>1, <1>2, <1>3, <1>4, <1>5, <1>6 DEF Next

\* The invariant: every slice lies in the array of its own map and key, every
\* owner has its own map, and every BuildRequest under way has copied what it
\* copied from a client that is as it was (cloneHeader client.go:182, BuildRequest).
THEOREM Invariant == Spec => []Inv
<1>1. Inv /\ [Next]_vars => Inv'
  BY NextGood DEF Good
<1> QED BY <1>1, InitOK, PTL DEF Spec

LEMMA InvTypes == Inv => ClientsTypeOK
<1> SUFFICES ASSUME Inv PROVE ClientsTypeOK
  OBVIOUS
<1>1. HeapOK(heap) /\ DOMAIN heap.maps = 1..Len(heap.maps) /\ Len(heap.maps) \in Nat
  BY LenProperties DEF Inv, HeapOK
<1>2. /\ DOMAIN heap.arrays \subseteq (Nat \ {0}) \X Keys
      /\ \A a \in DOMAIN heap.arrays : heap.arrays[a] \in Seq(Values)
  BY <1>1 DEF HeapOK
<1>3. ASSUME NEW m \in DOMAIN heap.maps, NEW k \in DOMAIN heap.maps[m]
      PROVE  LET slice == heap.maps[m][k]
             IN /\ k \in Keys /\ slice \in Slice /\ slice.array \in DOMAIN heap.arrays
                /\ slice.len <= Len(heap.arrays[slice.array])
  <2>1. heap.maps[m] \in Maps /\ DOMAIN heap.maps[m] \subseteq Keys
    BY <1>1, HeapMaps
  <2>2. heap.maps[m][k] \in Slice
    BY <2>1, MapType
  <2>3. OwnSlice(heap, m, k)
    BY <1>1 DEF HeapOK
  <2> QED BY <2>1, <2>2, <2>3 DEF OwnSlice
<1>4. clients \in Seq(Client) /\ \A c \in DOMAIN clients : clients[c].headers \in 0..Len(heap.maps)
  BY DEF Inv, Separate
<1>5. args \in Seq(DOMAIN heap.maps)
  <2>1. \A i \in DOMAIN args : args[i] \in DOMAIN heap.maps
    BY <1>1 DEF Inv, Separate
  <2>2. Len(args) \in Nat /\ args \in [1..Len(args) -> Nat]
    BY LenProperties DEF Inv
  <2> QED BY <2>1, <2>2
<1>6. ASSUME NEW g \in Goroutines, builds[g] # NoBuild
      PROVE  /\ builds[g] \in Build
             /\ builds[g].client \in DOMAIN clients
             /\ builds[g].todo \subseteq DOMAIN Held(heap, clients[builds[g].client].headers)
  <2>1. BuildOK(builds[g])
    BY DEF Inv
  <2>2. builds[g].client \in DOMAIN clients
    BY <1>6, <2>1 DEF BuildOK
  <2>3. Conf(builds[g].client).headers = Held(heap, clients[builds[g].client].headers)
    BY <2>2, ConfIs
  <2> QED BY <1>6, <2>1, <2>2, <2>3 DEF BuildOK
<1> QED BY <1>2, <1>3, <1>4, <1>5, <1>6 DEF ClientsTypeOK

LEMMA InvSeparates == Inv => NothingShared
<1> SUFFICES ASSUME Inv PROVE NothingShared
  OBVIOUS
<1>1. ASSUME NEW o \in Owners, NEW p \in Owners, o # p, MapOf(o) = MapOf(p)
      PROVE  MapOf(o) = 0
  <2> DEFINE cs == [kind : {"client"}, i : DOMAIN clients]
             as == [kind : {"arg"}, i : DOMAIN args]
  <2>1. /\ \A x \in cs : x = [kind |-> "client", i |-> x.i] /\ x.i \in DOMAIN clients
                         /\ MapOf(x) = clients[x.i].headers
        /\ \A x \in as : x = [kind |-> "arg", i |-> x.i] /\ x.i \in DOMAIN args
                         /\ MapOf(x) = args[x.i]
    BY DEF MapOf
  <2>2. (o \in cs \/ o \in as) /\ (p \in cs \/ p \in as)
    BY DEF Owners
  <2> HIDE DEF cs, as
  <2>3. CASE o \in cs /\ p \in cs
    <3>1. o = [kind |-> "client", i |-> o.i] /\ p = [kind |-> "client", i |-> p.i]
      BY <2>1, <2>3
    <3>2. o.i # p.i
      BY <1>1, <3>1
    <3>3. /\ o.i \in DOMAIN clients /\ p.i \in DOMAIN clients
          /\ MapOf(o) = clients[o.i].headers /\ MapOf(p) = clients[p.i].headers
      BY <2>1, <2>3
    <3> QED BY <1>1, <3>2, <3>3 DEF Inv, Separate
  <2>4. CASE o \in as /\ p \in as
    <3>1. o = [kind |-> "arg", i |-> o.i] /\ p = [kind |-> "arg", i |-> p.i]
      BY <2>1, <2>4
    <3>2. o.i # p.i
      BY <1>1, <3>1
    <3>3. /\ o.i \in DOMAIN args /\ p.i \in DOMAIN args
          /\ MapOf(o) = args[o.i] /\ MapOf(p) = args[p.i]
      BY <2>1, <2>4
    <3> QED BY <1>1, <3>2, <3>3 DEF Inv, Separate
  <2>5. CASE o \in cs /\ p \in as
    <3>1. /\ o.i \in DOMAIN clients /\ p.i \in DOMAIN args
          /\ MapOf(o) = clients[o.i].headers /\ MapOf(p) = args[p.i]
      BY <2>1, <2>5
    <3> QED BY <1>1, <3>1 DEF Inv, Separate
  <2>6. CASE o \in as /\ p \in cs
    <3>1. /\ o.i \in DOMAIN args /\ p.i \in DOMAIN clients
          /\ MapOf(o) = args[o.i] /\ MapOf(p) = clients[p.i].headers
      BY <2>1, <2>6
    <3> QED BY <1>1, <3>1 DEF Inv, Separate
  <2> QED BY <2>2, <2>3, <2>4, <2>5, <2>6
<1>2. ASSUME NEW m \in DOMAIN heap.maps, NEW n \in DOMAIN heap.maps,
             NEW k \in DOMAIN heap.maps[m], NEW l \in DOMAIN heap.maps[n],
             heap.maps[m][k].array = heap.maps[n][l].array
      PROVE  m = n /\ k = l
  <2>1. heap.maps[m][k].array = <<m, k>> /\ heap.maps[n][l].array = <<n, l>>
    BY DEF Inv, HeapOK, OwnSlice
  <2>2. <<m, k>> = <<n, l>>
    BY <1>2, <2>1
  <2> QED BY <2>2
<1> QED BY <1>1, <1>2 DEF NothingShared

\* Every slice a client or a caller has lies within its array, and a BuildRequest
\* under way reads a client that exists, whatever was derived meanwhile.
THEOREM TypesOK == Spec => []ClientsTypeOK
BY Invariant, InvTypes, PTL

\* cloneHeader (client.go:182) copies deeply and WithHeaders never keeps a slice it
\* was given: no client shares a map or an array with another one or with a caller.
THEOREM NothingIsShared == Spec => []NothingShared
BY Invariant, InvSeparates, PTL

\* "With* methods ... return a new Client instance rather than modifying the
\* receiver" (client.go:18): no step, of a deriving goroutine, of one that builds a
\* request or of a caller that writes to its headers, changes a client there is.
THEOREM NoClientChanges == Spec => ClientsNeverChange
<1>1. Inv /\ [Next]_vars => [\A c \in DOMAIN clients : Conf(c)' = Conf(c)]_vars
  BY NextGood DEF Good, ClientsStay
<1> QED BY <1>1, Invariant, PTL DEF Spec, ClientsNeverChange

\* A request has the headers of the client it was built from and no other's, as long
\* as its goroutine has it (request.go:51): what was copied from a client one by one
\* is still what the client has, since no client ever changes.
THEOREM RequestsAreTheirClients == Spec => []RequestsHaveTheirHeaders
<1>1. Inv => RequestsHaveTheirHeaders
  <2> SUFFICES ASSUME Inv, NEW g \in Goroutines, builds[g].stage = "built"
               PROVE  Abstract!HasHeadersOf(builds[g].headers, Conf(builds[g].client))
    BY DEF RequestsHaveTheirHeaders
  <2>1. BuildOK(builds[g]) /\ builds[g] # NoBuild
    BY BuildIs
  <2> QED BY <2>1 DEF BuildOK
<1> QED BY <1>1, Invariant, PTL

\* Clients made of Go maps and slices behave as values do (ClientValues): each
\* derivation, write and request is one of the abstract specification, with the
\* request built header by header while other goroutines take steps.
THEOREM ClientsAreValues == Spec => BehavesAsValues
<1>1. Inv /\ [Next]_vars => [Abstract!Next]_Abstract!valuesVars
  BY NextGood DEF Good
<1> QED BY <1>1, InitOK, Invariant, PTL DEF Spec, BehavesAsValues, Abstract!Spec
===============================================================================
