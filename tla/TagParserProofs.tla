---------------------------- MODULE TagParserProofs ----------------------------
(***************************************************************************)
(* Proofs about the tag parser, for tags of any length over any symbols:   *)
(* the arguments and the directives of a field, whatever they contain, do  *)
(* not change what its alias and its name are.                             *)
(***************************************************************************)
EXTENDS TagParser, WellFoundedInduction, SequenceTheorems, TLAPS

\* What stands before arguments and directives: an alias and a name.
Plain(head) == \A i \in DOMAIN head : head[i] \notin {"(", ")", "@"}
Starts(head) == head # <<>> /\ head[1] \notin {Space, "..."}

\* The tag t is that, followed by arguments or a directive.
Begins(t, head) ==
  /\ Len(head) < Len(t)
  /\ \A i \in 1..Len(head) : t[i] = head[i]
  /\ t[Len(head) + 1] \in {"(", "@"}

-----------------------------------------------------------------------------
(* Places in a tag. *)

LEMMA HasLeast ==
  ASSUME NEW T \in SUBSET Nat, T # {}
  PROVE  \E x \in T : \A y \in T : x <= y
<1> DEFINE R == OpToRel(<, Nat)
<1>1. IsWellFoundedOn(R, Nat)
  BY NatLessThanWellFounded
<1>2. \A x, y \in Nat : <<y, x>> \in R <=> y < x
  BY DEF OpToRel
<1> HIDE DEF R
<1>3. PICK x \in T : \A y \in T : ~(<<y, x>> \in R)
  BY <1>1, WFMin
<1>4. ASSUME NEW y \in T PROVE x <= y
  <2>1. x \in Nat /\ y \in Nat
    OBVIOUS
  <2>2. ~(y < x)
    BY <1>2, <1>3, <2>1
  <2> QED BY <2>1, <2>2
<1> QED BY <1>3, <1>4

LEMMA LeastIs ==
  ASSUME NEW T \in SUBSET Nat, NEW x \in T, \A y \in T : x <= y
  PROVE  Least(T) = x
<1>1. T # {} /\ \A z \in T : (\A y \in T : z <= y) => z = x
  OBVIOUS
<1>2. Least(T) = CHOOSE z \in T : \A y \in T : z <= y
  BY <1>1 DEF Least
<1> QED BY <1>1, <1>2

LEMMA LeastIsIn ==
  ASSUME NEW T \in SUBSET Nat
  PROVE  Least(T) = 0 \/ Least(T) \in T
<1>1. CASE T = {}
  BY <1>1 DEF Least
<1>2. CASE T # {}
  <2>1. PICK x \in T : \A y \in T : x <= y
    BY <1>2, HasLeast
  <2> QED BY <2>1, LeastIs
<1> QED BY <1>1, <1>2

LEMMA GreatestIsIn ==
  ASSUME NEW n \in Nat, NEW T \in SUBSET (1..n), T # {}
  PROVE  Greatest(T) \in T /\ \A y \in T : y <= Greatest(T)
<1> DEFINE U == {n - x : x \in T}
<1>1. U \in SUBSET Nat /\ U # {}
  <2>1. \A x \in T : x \in 1..n /\ n - x \in Nat
    OBVIOUS
  <2>2. PICK x \in T : TRUE
    OBVIOUS
  <2>3. n - x \in U
    BY <2>2
  <2> QED BY <2>1, <2>3
<1>2. PICK u \in U : \A v \in U : u <= v
  BY <1>1, HasLeast
<1>3. PICK x \in T : u = n - x
  OBVIOUS
<1>4. ASSUME NEW y \in T PROVE x >= y
  <2>1. n - y \in U /\ x \in 1..n /\ y \in 1..n
    OBVIOUS
  <2>2. n - x <= n - y
    BY <1>2, <1>3, <2>1
  <2> QED BY <2>1, <2>2
<1>5. Greatest(T) = CHOOSE z \in T : \A y \in T : z >= y
  BY DEF Greatest
<1>6. Greatest(T) \in T /\ \A y \in T : Greatest(T) >= y
  BY <1>4, <1>5
<1> QED BY <1>6

LEMMA Initial ==
  ASSUME NEW S, NEW s \in Seq(S), NEW n \in 0..Len(s)
  PROVE  /\ SubSeq(s, 1, n) \in Seq(S) /\ Len(SubSeq(s, 1, n)) = n
         /\ \A i \in 1..n : SubSeq(s, 1, n)[i] = s[i]
<1>1. Len(s) \in Nat /\ \A i \in 1..n : s[i] \in S
  BY LenProperties, ElementOfSeq
<1> QED BY <1>1, SubSeqProperties

\* A text that does not begin with a blank only loses the ones at its end.
LEMMA Trimmed ==
  ASSUME NEW S, NEW s \in Seq(S), s # <<>>, s[1] # Space
  PROVE  \E g \in 1..Len(s) :
           /\ TrimSpace(s) = SubSeq(s, 1, g) /\ s[g] # Space
           /\ \A i \in 1..Len(s) : s[i] # Space => i <= g
<1> DEFINE solid == {i \in DOMAIN s : s[i] # Space}
<1>1. Len(s) \in Nat /\ DOMAIN s = 1..Len(s) /\ Len(s) # 0
  BY LenProperties, EmptySeq
<1>2. 1 \in solid /\ solid \in SUBSET (1..Len(s)) /\ solid \in SUBSET Nat
  BY <1>1
<1>3. Least(solid) = 1
  <2>1. \A y \in solid : 1 <= y
    BY <1>1
  <2> HIDE DEF solid
  <2> QED BY <1>2, <2>1, LeastIs
<1>4. Greatest(solid) \in solid /\ \A y \in solid : y <= Greatest(solid)
  <2> HIDE DEF solid
  <2> QED BY <1>1, <1>2, GreatestIsIn
<1>5. TrimSpace(s) = SubSeq(s, 1, Greatest(solid))
  BY <1>2, <1>3 DEF TrimSpace
<1>6. Greatest(solid) \in 1..Len(s) /\ s[Greatest(solid)] # Space
  <2> DEFINE g == Greatest(solid)
  <2>1. g \in solid
    BY <1>4
  <2> HIDE DEF g
  <2> QED BY <1>1, <2>1 DEF g
<1>7. \A i \in 1..Len(s) : s[i] # Space => i \in solid
  BY <1>1
<1> HIDE DEF solid
<1> QED BY <1>4, <1>5, <1>6, <1>7

LEMMA NothingToTrim ==
  ASSUME NEW S, NEW s \in Seq(S), s # <<>>, s[1] # Space, s[Len(s)] # Space
  PROVE  TrimSpace(s) = s
<1>1. PICK g \in 1..Len(s) : /\ TrimSpace(s) = SubSeq(s, 1, g)
                             /\ \A i \in 1..Len(s) : s[i] # Space => i <= g
  BY Trimmed
<1>2. Len(s) \in Nat /\ Len(s) # 0
  BY LenProperties, EmptySeq
<1>3. g = Len(s) /\ Len(s) \in 0..Len(s)
  BY <1>1, <1>2
<1>4. SubSeq(s, 1, Len(s)) = s
  BY <1>3, Initial, SeqEqual
<1> QED BY <1>1, <1>3, <1>4

\* A text that ends where another one does so far, and what is before a place.
LEMMA CutsTo ==
  ASSUME NEW S, NEW t \in Seq(S), NEW head \in Seq(S), Len(head) < Len(t),
         \A i \in 1..Len(head) : t[i] = head[i]
  PROVE  Before(t, Len(head) + 1) = head
<1>1. Len(head) \in Nat /\ Len(t) \in Nat /\ Len(head) \in 0..Len(t)
  BY LenProperties
<1>2. SubSeq(t, 1, Len(head)) = head
  BY <1>1, Initial, SeqEqual
<1>3. Len(head) + 1 # 0 /\ (Len(head) + 1) - 1 = Len(head)
  BY <1>1
<1> QED BY <1>2, <1>3 DEF Before

-----------------------------------------------------------------------------
(* Parentheses. *)

\* The recursion of Depth has a solution, symbol by symbol.
LEMMA DepthIs ==
  ASSUME NEW S, NEW tag \in Seq(S)
  PROVE  Depth(tag) =
           [i \in 0..Len(tag) |-> IF i = 0 THEN 0 ELSE Deeper(tag[i], Depth(tag)[i - 1])]
<1> DEFINE E(f, n) == [i \in 0..n |-> IF i = 0 THEN 0 ELSE Deeper(tag[i], f[i - 1])]
           Unsolved == {n \in Nat : ~\E f : f = E(f, n)}
<1>1. Len(tag) \in Nat
  BY LenProperties
<1>2. Unsolved = {}
  <2> SUFFICES ASSUME Unsolved # {} PROVE FALSE
    OBVIOUS
  <2>1. Unsolved \in SUBSET Nat
    OBVIOUS
  <2>2. PICK n \in Unsolved : \A y \in Unsolved : n <= y
    <3> HIDE DEF Unsolved
    <3> QED BY <2>1, HasLeast
  <2>3. n # 0
    <3>1. [i \in {0} |-> 0] = E([i \in {0} |-> 0], 0)
      OBVIOUS
    <3> QED BY <3>1
  <2>4. n \in Nat /\ n - 1 \in Nat /\ ~(n <= n - 1)
    BY <2>3
  <2>5. n - 1 \notin Unsolved
    BY <2>2, <2>4
  <2>6. PICK f : f = E(f, n - 1)
    BY <2>4, <2>5
  <2> DEFINE g == [i \in 0..n |-> IF i = n THEN Deeper(tag[n], f[n - 1]) ELSE f[i]]
  <2>7. ASSUME NEW i \in 0..n
        PROVE  g[i] = IF i = 0 THEN 0 ELSE Deeper(tag[i], g[i - 1])
    <3>1. CASE i = n
      BY <2>4, <3>1
    <3>2. CASE i # n
      <4>1. i \in 0..(n - 1)
        BY <2>4, <3>2
      <4>2. f[i] = IF i = 0 THEN 0 ELSE Deeper(tag[i], f[i - 1])
        <5> HIDE DEF g
        <5> QED BY <2>6, <4>1
      <4>3. g[i] = f[i] /\ (i # 0 => i - 1 \in 0..n /\ i - 1 # n)
        BY <2>4, <3>2
      <4>4. i # 0 => g[i - 1] = f[i - 1]
        BY <4>3
      <4> QED BY <4>2, <4>3, <4>4
    <3> QED BY <3>1, <3>2
  <2>8. g = E(g, n)
    <3>1. g = [i \in 0..n |-> g[i]]
      OBVIOUS
    <3> HIDE DEF g
    <3> QED BY <2>7, <3>1
  <2> QED BY <2>8
<1>3. \E f : f = E(f, Len(tag))
  BY <1>1, <1>2
<1>4. Depth(tag) = CHOOSE f : f = E(f, Len(tag))
  BY Zenon DEF Depth
<1> HIDE DEF E
<1>5. Depth(tag) = E(Depth(tag), Len(tag))
  BY <1>3, <1>4, Zenon
<1> QED BY <1>5 DEF E

\* There are none before the arguments, and none around the first directive.
LEMMA NotDeep ==
  ASSUME NEW S, NEW t \in Seq(S), NEW head \in Seq(S), Plain(head), Len(head) < Len(t),
         \A i \in 1..Len(head) : t[i] = head[i], t[Len(head) + 1] = "@"
  PROVE  Depth(t)[Len(head) + 1] = 0
<1> DEFINE n == Len(head)
           d == Depth(t)
           Wrong == {i \in 0..n : d[i] # 0}
<1>1. n \in Nat /\ Len(t) \in Nat /\ DOMAIN head = 1..n
  BY LenProperties
<1>2. d = [i \in 0..Len(t) |-> IF i = 0 THEN 0 ELSE Deeper(t[i], d[i - 1])]
  BY DepthIs
<1> HIDE DEF d, n
<1>3. d[0] = 0 /\ \A i \in 1..(n + 1) : d[i] = Deeper(t[i], d[i - 1])
  <2>1. 0 \in 0..Len(t) /\ \A i \in 1..(n + 1) : i \in 0..Len(t) /\ i # 0
    BY <1>1 DEF n
  <2> QED BY <1>2, <2>1
<1>4. Wrong = {}
  <2> SUFFICES ASSUME Wrong # {} PROVE FALSE
    OBVIOUS
  <2>1. Wrong \in SUBSET Nat
    BY <1>1
  <2>2. PICK i \in Wrong : \A j \in Wrong : i <= j
    <3> HIDE DEF Wrong
    <3> QED BY <2>1, HasLeast
  <2>3. i \in 1..n /\ i - 1 \in 0..n /\ ~(i <= i - 1)
    BY <1>1, <1>3
  <2>4. d[i - 1] = 0
    BY <2>2, <2>3
  <2>5. d[i] = Deeper(t[i], 0)
    BY <1>1, <1>3, <2>3, <2>4
  <2>6. t[i] \notin {"(", ")"}
    BY <1>1, <2>3 DEF Plain, n
  <2>7. Deeper(t[i], 0) = 0
    BY <2>6 DEF Deeper
  <2> QED BY <2>5, <2>7
<1>5. n \in 0..n /\ n + 1 \in 1..(n + 1) /\ (n + 1) - 1 = n
  BY <1>1
<1>6. d[n + 1] = Deeper("@", 0)
  BY <1>3, <1>4, <1>5 DEF n
<1>7. Deeper("@", 0) = 0
  BY DEF Deeper
<1> QED BY <1>6, <1>7 DEF d, n

-----------------------------------------------------------------------------
(* What is left of a tag. *)

LEMMA NoFragment ==
  ASSUME NEW S, NEW t \in Seq(S), t # <<>>, t[1] # "..."
  PROVE  ~IsPrefix(<<"...">>, t)
<1>1. Len(t) \in Nat /\ Len(t) # 0
  BY LenProperties, EmptySeq
<1>2. 1 \in 0..Len(t)
  BY <1>1
<1>3. SubSeq(t, 1, 1)[1] = t[1]
  <2>1. \A i \in 1..1 : SubSeq(t, 1, 1)[i] = t[i]
    BY <1>2, Initial
  <2> QED BY <2>1
<1>4. /\ <<"...">> \in Seq({"..."}) /\ Len(<<"...">>) = 1
      /\ 1 \in 0..1 /\ 1 \in 1..1 /\ <<"...">>[1] = "..."
  OBVIOUS
<1>5. SubSeq(<<"...">>, 1, 1)[1] = "..."
  <2>1. \A i \in 1..1 : SubSeq(<<"...">>, 1, 1)[i] = <<"...">>[i]
    BY <1>4, Initial
  <2> QED BY <1>4, <2>1
<1> QED BY <1>3, <1>4, <1>5 DEF IsPrefix

\* A plain text has no directives and no arguments.
LEMMA PlainParses ==
  ASSUME NEW S, NEW h \in Seq(S), Plain(h), Starts(h)
  PROVE  ParseTrimmed(h) = ParseField(TrimSpace(h))
<1>1. {i \in DOMAIN h : h[i] = "@" /\ Depth(h)[i] = 0} = {} /\ {i \in DOMAIN h : h[i] = "("} = {}
  BY DEF Plain
<1>2. directiveIndex(h) = 0 /\ IndexOf(h, "(") = 0
  BY <1>1 DEF directiveIndex, IndexOf, Least
<1>3. ParseSelection(h) = ParseField(TrimSpace(h))
  BY <1>2 DEF ParseSelection, Before
<1>4. ~IsPrefix(<<"...">>, h)
  BY NoFragment DEF Starts
<1> QED BY <1>2, <1>3, <1>4 DEF ParseTrimmed, Before

\* Arguments and directives are cut off.
LEMMA RestIsCut ==
  ASSUME NEW S, NEW t \in Seq(S), NEW head \in Seq(S), Plain(head), Starts(head),
         Begins(t, head)
  PROVE  ParseTrimmed(t) = ParseField(TrimSpace(head))
<1> DEFINE n == Len(head)
           places == {i \in DOMAIN t : t[i] = "@" /\ Depth(t)[i] = 0}
           u == Before(t, directiveIndex(t))
<1>1. /\ n \in Nat /\ n # 0 /\ Len(t) \in Nat /\ n < Len(t)
      /\ DOMAIN head = 1..n /\ DOMAIN t = 1..Len(t)
  BY LenProperties, EmptySeq DEF Starts, Begins
<1>2. /\ \A i \in 1..n : t[i] = head[i] /\ t[i] \notin {"(", ")", "@"}
      /\ t[n + 1] \in {"(", "@"}
  BY <1>1 DEF Begins, Plain
<1>3. ~IsPrefix(<<"...">>, t)
  <2>1. t[1] # "..." /\ t # <<>>
    BY <1>1, <1>2 DEF Starts
  <2> QED BY <2>1, NoFragment
<1>4. directiveIndex(t) = Least(places) /\ places \in SUBSET Nat
  BY <1>1 DEF directiveIndex
<1>5. \A i \in places : i > n
  BY <1>1, <1>2
<1>6. Before(u, IndexOf(u, "(")) = head
  <2>1. CASE t[n + 1] = "@"
    <3>1. n + 1 \in places
      <4>1. Depth(t)[n + 1] = 0
        BY <1>1, <1>2, <2>1, NotDeep
      <4> QED BY <1>1, <2>1, <4>1
    <3>2. \A i \in places : n + 1 <= i
      BY <1>1, <1>4, <1>5
    <3>3. Least(places) = n + 1
      <4> HIDE DEF places
      <4> QED BY <1>4, <3>1, <3>2, LeastIs
    <3>4. u = head
      BY <1>1, <1>2, <1>4, <3>3, CutsTo
    <3>5. {i \in DOMAIN head : head[i] = "("} = {}
      BY DEF Plain
    <3> QED BY <3>4, <3>5 DEF IndexOf, Least, Before
  <2>2. CASE t[n + 1] = "("
    <3>1. directiveIndex(t) = 0 \/ directiveIndex(t) \in n + 2..Len(t)
      <4>1. \A i \in places : i \in n + 2..Len(t)
        <5>1. \A i \in places : i \in 1..Len(t) /\ i # n + 1 /\ i > n
          BY <1>1, <1>5, <2>2
        <5> HIDE DEF places
        <5> QED BY <1>1, <5>1
      <4>2. Least(places) = 0 \/ Least(places) \in places
        <5> HIDE DEF places
        <5> QED BY <1>4, LeastIsIn
      <4> QED BY <1>4, <4>1, <4>2
    <3>2. /\ u \in Seq(S) /\ Len(u) \in Nat /\ Len(u) > n
          /\ \A i \in 1..(n + 1) : u[i] = t[i]
      <4>1. CASE directiveIndex(t) = 0
        BY <1>1, <4>1 DEF Before
      <4>2. CASE directiveIndex(t) \in n + 2..Len(t)
        <5> DEFINE c == directiveIndex(t) - 1
        <5>1. c \in 0..Len(t) /\ c > n /\ directiveIndex(t) # 0 /\ c \in Nat
          BY <1>1, <4>2
        <5>2. u = SubSeq(t, 1, c)
          BY <5>1 DEF Before
        <5> HIDE DEF c, u
        <5>3. u \in Seq(S) /\ Len(u) = c /\ \A i \in 1..c : u[i] = t[i]
          BY <5>1, <5>2, Initial
        <5> QED BY <1>1, <5>1, <5>3
      <4> QED BY <3>1, <4>1, <4>2
    <3> HIDE DEF u
    <3>3. IndexOf(u, "(") = n + 1
      <4> DEFINE found == {i \in DOMAIN u : u[i] = "("}
      <4>1. DOMAIN u = 1..Len(u)
        BY <3>2, LenProperties
      <4>2. n + 1 \in found /\ found \in SUBSET Nat
        BY <1>1, <2>2, <3>2, <4>1
      <4>3. \A i \in found : n + 1 <= i
        <5>1. \A i \in 1..n : u[i] # "("
          BY <1>1, <1>2, <3>2
        <5> QED BY <1>1, <3>2, <4>1, <5>1
      <4> HIDE DEF found
      <4>4. Least(found) = n + 1
        BY <4>2, <4>3, LeastIs
      <4> QED BY <4>4 DEF IndexOf, found
    <3>4. \A i \in 1..n : u[i] = head[i]
      BY <1>1, <1>2, <3>2
    <3> QED BY <3>2, <3>3, <3>4, CutsTo
  <2> QED BY <1>2, <2>1, <2>2
<1>7. ParseSelection(u) = ParseField(TrimSpace(head))
  <2> HIDE DEF u
  <2> QED BY <1>6 DEF ParseSelection
<1> QED BY <1>3, <1>7 DEF ParseTrimmed

\* Whatever stands behind the first parenthesis or at-sign of a tag, colons, quotes,
\* blanks, more of both, balanced or not, changes neither the alias nor the name
\* that is read in front of it (tagparser.go:59-79): the decoder finds a field under
\* the name the server was asked for, with any arguments and directives.
THEOREM ArgumentsDoNotMatter ==
  ASSUME NEW S, NEW head \in Seq(S), NEW tail \in Seq(S), Plain(head), Starts(head),
         tail # <<>>, tail[1] \in {"(", "@"}
  PROVE  ParseGraphQLTag(head \o tail) = ParseGraphQLTag(head)
<1> DEFINE n == Len(head)
           text == head \o tail
           t == TrimSpace(text)
           h == TrimSpace(head)
<1>1. /\ n \in Nat /\ n # 0 /\ Len(tail) \in Nat /\ Len(tail) # 0 /\ DOMAIN head = 1..n
  BY LenProperties, EmptySeq DEF Starts
<1>2. /\ text \in Seq(S) /\ Len(text) = n + Len(tail)
      /\ \A i \in 1..n : text[i] = head[i]
      /\ text[n + 1] = tail[1]
  <2>1. \A i \in 1..n + Len(tail) : text[i] = IF i <= n THEN head[i] ELSE tail[i - n]
    BY ConcatProperties
  <2>2. \A i \in 1..n : i \in 1..n + Len(tail) /\ i <= n
    BY <1>1
  <2>3. n + 1 \in 1..n + Len(tail) /\ ~(n + 1 <= n) /\ (n + 1) - n = 1
    BY <1>1
  <2>4. text \in Seq(S) /\ Len(text) = n + Len(tail)
    BY ConcatProperties
  <2> HIDE DEF text
  <2> QED BY <2>1, <2>2, <2>3, <2>4
<1> HIDE DEF text
<1>3. ParseTrimmed(t) = ParseField(h)
  <2>1. text # <<>> /\ text[1] # Space
    <3>1. 1 \in 1..n
      BY <1>1
    <3>2. Len(text) # 0
      BY <1>1, <1>2
    <3> QED BY <1>2, <3>1, <3>2 DEF Starts
  <2>2. PICK g \in 1..Len(text) :
          /\ t = SubSeq(text, 1, g)
          /\ \A i \in 1..Len(text) : text[i] # Space => i <= g
    BY <1>2, <2>1, Trimmed
  <2>3. n + 1 \in 1..Len(text) /\ text[n + 1] # Space
    <3>1. n + 1 \in 1..Len(text)
      BY <1>1, <1>2
    <3>2. tail[1] # Space
      BY DEF Space
    <3> QED BY <1>2, <3>1, <3>2
  <2>4. g \in 0..Len(text) /\ n + 1 <= g /\ g \in Nat
    BY <1>1, <1>2, <2>2, <2>3
  <2>5. t \in Seq(S) /\ Len(t) = g /\ \A i \in 1..g : t[i] = text[i]
    <3> HIDE DEF t
    <3> QED BY <1>2, <2>2, <2>4, Initial
  <2> HIDE DEF t
  <2>6. /\ n < Len(t) /\ t[n + 1] = text[n + 1] /\ \A i \in 1..n : t[i] = text[i]
    BY <1>1, <2>4, <2>5
  <2>7. Begins(t, head)
    BY <1>2, <2>6 DEF Begins
  <2> QED BY <2>5, <2>7, RestIsCut
<1>4. ParseTrimmed(h) = ParseField(h)
  <2>1. PICK g \in 1..n : h = SubSeq(head, 1, g) /\ head[g] # Space
    BY Trimmed DEF Starts
  <2>2. g \in 0..n /\ g \in Nat /\ g # 0
    BY <1>1
  <2>3. h \in Seq(S) /\ Len(h) = g /\ \A i \in 1..g : h[i] = head[i]
    <3> HIDE DEF h
    <3> QED BY <2>1, <2>2, Initial
  <2> HIDE DEF h
  <2>4. DOMAIN h = 1..g /\ h # <<>>
    BY <2>2, <2>3, LenProperties
  <2>5. h[1] = head[1] /\ h[Len(h)] # Space
    BY <2>1, <2>2, <2>3
  <2>6. Plain(h) /\ Starts(h)
    <3>1. \A i \in 1..g : i \in 1..n
      BY <1>1, <2>2
    <3> QED BY <1>1, <2>3, <2>4, <2>5, <3>1 DEF Plain, Starts
  <2>7. TrimSpace(h) = h
    BY <2>3, <2>4, <2>5, <2>6, NothingToTrim DEF Starts
  <2> QED BY <2>3, <2>6, <2>7, PlainParses
<1> QED BY <1>3, <1>4 DEF ParseGraphQLTag, text

-----------------------------------------------------------------------------
(* The name of a field in the response. *)

\* Arguments and directives, if a tag has any.
Rest(tail) == tail = <<>> \/ tail[1] \in {"(", "@"}

\* A field with an alias.
Aliased(alias, name) == alias \o <<":">> \o name

\* A text without arguments and directives, followed by some or none.
LEMMA HeadDecides ==
  ASSUME NEW S, NEW head \in Seq(S), NEW tail \in Seq(S), Plain(head), Starts(head), Rest(tail)
  PROVE  ParseGraphQLTag(head \o tail) = ParseGraphQLTag(head)
<1>1. CASE tail = <<>>
  BY <1>1, ConcatEmptySeq
<1>2. CASE tail # <<>>
  BY <1>2, ArgumentsDoNotMatter DEF Rest
<1> QED BY <1>1, <1>2

\* Without blanks at its ends, such a text is read as it stands.
LEMMA HeadParses ==
  ASSUME NEW S, NEW head \in Seq(S), Plain(head), Starts(head), head[Len(head)] # Space
  PROVE  ParseGraphQLTag(head) = ParseField(head)
<1>1. TrimSpace(head) = head
  BY NothingToTrim DEF Starts
<1>2. ParseTrimmed(head) = ParseField(TrimSpace(head))
  BY PlainParses
<1> QED BY <1>1, <1>2 DEF ParseGraphQLTag

\* The first colon divides a text in two.
NoColon(s) == \A i \in DOMAIN s : s[i] # ":"
Divided(head, alias, name) ==
  /\ Len(head) = Len(alias) + 1 + Len(name)
  /\ IndexOf(head, ":") = Len(alias) + 1
  /\ Before(head, Len(alias) + 1) = alias /\ After(head, Len(alias) + 1) = name
  /\ \A i \in 1..Len(alias) : head[i] = alias[i]
  /\ head[Len(alias) + 1] = ":"
  /\ \A i \in 1..Len(name) : head[Len(alias) + 1 + i] = name[i]

LEMMA ColonDivides ==
  ASSUME NEW S, ":" \in S, NEW alias \in Seq(S), NEW name \in Seq(S), NoColon(alias)
  PROVE  Aliased(alias, name) \in Seq(S) /\ Divided(Aliased(alias, name), alias, name)
<1> DEFINE a == Len(alias)
           n == Len(name)
           first == alias \o <<":">>
           head == Aliased(alias, name)
<1>1. a \in Nat /\ n \in Nat /\ DOMAIN alias = 1..a
  BY LenProperties
<1>2. <<":">> \in Seq(S) /\ Len(<<":">>) = 1 /\ <<":">>[1] = ":"
  OBVIOUS
<1>3. /\ first \in Seq(S) /\ Len(first) = a + 1
      /\ \A i \in 1..a : first[i] = alias[i]
      /\ first[a + 1] = ":"
  <2>1. /\ first \in Seq(S) /\ Len(first) = a + Len(<<":">>)
        /\ \A i \in 1..(a + Len(<<":">>)) :
             first[i] = IF i <= a THEN alias[i] ELSE <<":">>[i - a]
    BY <1>2, ConcatProperties
  <2>2. \A i \in 1..a : i \in 1..(a + 1) /\ i <= a
    BY <1>1
  <2>3. a + 1 \in 1..(a + 1) /\ ~(a + 1 <= a) /\ (a + 1) - a = 1
    BY <1>1
  <2> HIDE DEF first
  <2> QED BY <1>2, <2>1, <2>2, <2>3
<1> HIDE DEF first
<1>4. /\ head \in Seq(S) /\ Len(head) = a + 1 + n
      /\ \A i \in 1..(a + 1 + n) : head[i] = IF i <= a + 1 THEN first[i] ELSE name[i - (a + 1)]
  BY <1>3, ConcatProperties DEF first, Aliased
<1> HIDE DEF head
<1>5. /\ \A i \in 1..a : i \in 1..(a + 1 + n) /\ i <= a + 1
      /\ a + 1 \in 1..(a + 1 + n) /\ a + 1 <= a + 1
      /\ \A i \in 1..n : /\ a + 1 + i \in 1..(a + 1 + n) /\ ~(a + 1 + i <= a + 1)
                         /\ (a + 1 + i) - (a + 1) = i
  BY <1>1
<1>6. /\ \A i \in 1..a : head[i] = alias[i]
      /\ head[a + 1] = ":"
      /\ \A i \in 1..n : head[a + 1 + i] = name[i]
  BY <1>3, <1>4, <1>5
<1>7. IndexOf(head, ":") = a + 1
  <2> DEFINE colons == {i \in DOMAIN head : head[i] = ":"}
  <2>1. DOMAIN head = 1..(a + 1 + n)
    BY <1>4, LenProperties
  <2>2. a + 1 \in colons /\ colons \in SUBSET Nat
    BY <1>1, <1>5, <1>6, <2>1
  <2>3. \A i \in colons : a + 1 <= i
    <3>1. \A i \in 1..a : head[i] # ":"
      BY <1>1, <1>6 DEF NoColon
    <3> QED BY <1>1, <2>1, <3>1
  <2> HIDE DEF colons
  <2>4. Least(colons) = a + 1
    BY <2>2, <2>3, LeastIs
  <2> QED BY <2>4 DEF IndexOf, colons
<1>8. Before(head, a + 1) = alias
  <2>1. a < Len(head)
    BY <1>1, <1>4
  <2> QED BY <1>4, <1>6, <2>1, CutsTo
<1>9. After(head, a + 1) = name
  <2> DEFINE rest == SubSeq(head, a + 2, a + 1 + n)
  <2>1. \A i \in (a + 2)..(a + 1 + n) : head[i] \in S
    <3>1. \A i \in (a + 2)..(a + 1 + n) : i \in 1..(a + 1 + n)
      BY <1>1
    <3> QED BY <1>4, <3>1, ElementOfSeq
  <2>2. a + 2 \in Int /\ a + 1 + n \in Int
    BY <1>1
  <2>3. /\ rest \in Seq(S)
        /\ Len(rest) = IF a + 2 <= a + 1 + n THEN (a + 1 + n) - (a + 2) + 1 ELSE 0
        /\ \A i \in 1..((a + 1 + n) - (a + 2) + 1) : rest[i] = head[a + 2 + i - 1]
    BY <2>1, <2>2, SubSeqProperties
  <2>4. /\ (IF a + 2 <= a + 1 + n THEN (a + 1 + n) - (a + 2) + 1 ELSE 0) = n
        /\ (a + 1 + n) - (a + 2) + 1 = n
        /\ \A i \in 1..n : a + 2 + i - 1 = a + 1 + i
        /\ a + 1 + 1 = a + 2
    BY <1>1
  <2> HIDE DEF rest
  <2>5. Len(rest) = n /\ \A i \in 1..n : rest[i] = name[i]
    BY <1>6, <2>3, <2>4
  <2>6. rest = name
    BY <2>3, <2>5, SeqEqual
  <2> QED BY <1>4, <2>4, <2>6 DEF After, rest
<1> QED BY <1>4, <1>6, <1>7, <1>8, <1>9 DEF head, Divided

\* What is read of a field with an alias.
LEMMA AliasParses ==
  ASSUME NEW S, ":" \in S, NEW alias \in Seq(S), NEW name \in Seq(S), NEW tail \in Seq(S),
         Plain(alias), Starts(alias), NoColon(alias),
         Plain(name), name # <<>>, name[Len(name)] # Space, Rest(tail)
  PROVE  ParseGraphQLTag(Aliased(alias, name) \o tail)
           = [IsFragment |-> FALSE, TypeName |-> <<>>,
              Alias |-> TrimSpace(alias), FieldName |-> TrimSpace(name)]
<1> DEFINE head == Aliased(alias, name)
           a == Len(alias)
           n == Len(name)
<1>1. /\ head \in Seq(S) /\ Len(head) = a + 1 + n
      /\ IndexOf(head, ":") = a + 1
      /\ Before(head, a + 1) = alias /\ After(head, a + 1) = name
      /\ \A i \in 1..a : head[i] = alias[i]
      /\ head[a + 1] = ":"
      /\ \A i \in 1..n : head[a + 1 + i] = name[i]
  <2>1. head \in Seq(S) /\ Divided(head, alias, name)
    BY ColonDivides
  <2> HIDE DEF head
  <2> QED BY <2>1 DEF Divided
<1> HIDE DEF head
<1>2. /\ a \in Nat \ {0} /\ n \in Nat \ {0} /\ DOMAIN alias = 1..a /\ DOMAIN name = 1..n
      /\ DOMAIN head = 1..(a + 1 + n)
  BY <1>1, LenProperties, EmptySeq DEF Starts
<1>3. Plain(head)
  <2>1. ASSUME NEW i \in 1..(a + 1 + n) PROVE head[i] \notin {"(", ")", "@"}
    <3>1. i \in 1..a \/ i = a + 1
          \/ (i - (a + 1) \in 1..n /\ a + 1 + (i - (a + 1)) = i)
      BY <1>2
    <3>2. CASE i \in 1..a
      BY <1>1, <1>2, <3>2 DEF Plain
    <3>3. CASE i = a + 1
      BY <1>1, <3>3
    <3>4. CASE i - (a + 1) \in 1..n /\ a + 1 + (i - (a + 1)) = i
      <4> DEFINE j == i - (a + 1)
      <4>1. j \in 1..n /\ a + 1 + j = i
        BY <3>4
      <4> HIDE DEF j
      <4>2. head[i] = name[j]
        BY <1>1, <4>1
      <4> QED BY <1>2, <4>1, <4>2 DEF Plain
    <3> QED BY <3>1, <3>2, <3>3, <3>4
  <2> QED BY <1>2, <2>1 DEF Plain
<1>4. Starts(head) /\ head[Len(head)] # Space
  <2>1. 1 \in 1..a /\ n \in 1..n /\ a + 1 + n # 0
    BY <1>2
  <2>2. head[1] = alias[1] /\ head[Len(head)] = name[n]
    BY <1>1, <2>1
  <2>3. head # <<>>
    BY <1>1, <2>1
  <2> QED BY <2>2, <2>3 DEF Starts
<1>5. ParseGraphQLTag(head \o tail) = ParseField(head)
  BY <1>1, <1>3, <1>4, HeadDecides, HeadParses
<1>6. a + 1 # 0
  BY <1>2
<1>7. ParseField(head) = [IsFragment |-> FALSE, TypeName |-> <<>>,
                          Alias |-> TrimSpace(alias), FieldName |-> TrimSpace(name)]
  BY <1>1, <1>6 DEF ParseField, AliasAndName, NoParse
<1> QED BY <1>5, <1>7 DEF head

\* "When there's an alias, the response uses the alias name" (field_lookup.go:52): a
\* tag `alias: name`, with any blanks around the colon, arguments and directives,
\* goes with the member of the response that is called like the alias and with no
\* other, not even one called like the field.
THEOREM AliasIsResponseName ==
  ASSUME NEW S, ":" \in S, NEW alias \in Seq(S), NEW name \in Seq(S), NEW tail \in Seq(S),
         Plain(alias), Starts(alias), NoColon(alias),
         Plain(name), name # <<>>, name[Len(name)] # Space, Rest(tail),
         NEW key
  PROVE  keyHasGraphQLName(Aliased(alias, name) \o tail, key)
           <=> TrimSpace(alias) = <<key>>
<1> DEFINE parsed == ParseGraphQLTag(Aliased(alias, name) \o tail)
<1>1. parsed = [IsFragment |-> FALSE, TypeName |-> <<>>,
                Alias |-> TrimSpace(alias), FieldName |-> TrimSpace(name)]
  BY AliasParses
<1>2. TrimSpace(alias) # <<>>
  <2>1. PICK g \in 1..Len(alias) : TrimSpace(alias) = SubSeq(alias, 1, g)
    BY Trimmed DEF Starts
  <2>2. Len(alias) \in Nat
    BY LenProperties
  <2>3. g \in 0..Len(alias) /\ g # 0
    BY <2>1, <2>2
  <2>4. Len(SubSeq(alias, 1, g)) = g
    BY <2>3, Initial
  <2>5. Len(<<>>) = 0
    OBVIOUS
  <2> QED BY <2>1, <2>3, <2>4, <2>5
<1> HIDE DEF parsed
<1>3. ~parsed.IsFragment /\ ResponseName(parsed) = TrimSpace(alias)
  BY <1>1, <1>2 DEF ResponseName
<1> QED BY <1>3 DEF keyHasGraphQLName, HasName, parsed

\* Without an alias "it uses the field name" (field_lookup.go:53): a tag without a
\* colon in front of its arguments and directives, which may have any, goes with the
\* member of the response that is called like the field and with no other.
THEOREM NameIsResponseName ==
  ASSUME NEW S, NEW name \in Seq(S), NEW tail \in Seq(S),
         Plain(name), Starts(name), NoColon(name),
         name[Len(name)] # Space, Rest(tail), NEW key
  PROVE  keyHasGraphQLName(name \o tail, key) <=> name = <<key>>
<1>1. ParseGraphQLTag(name \o tail) = ParseField(name)
  BY HeadDecides, HeadParses
<1>2. {i \in DOMAIN name : name[i] = ":"} = {}
  BY DEF NoColon
<1>3. IndexOf(name, ":") = 0
  BY <1>2 DEF IndexOf, Least
<1>4. ParseField(name) = [IsFragment |-> FALSE, TypeName |-> <<>>, Alias |-> <<>>,
                          FieldName |-> name]
  BY <1>3 DEF ParseField, AliasAndName, NoParse
<1>5. ~ParseField(name).IsFragment /\ ResponseName(ParseField(name)) = name
  BY <1>4 DEF ResponseName
<1> QED BY <1>1, <1>5 DEF keyHasGraphQLName, HasName
=================================================================================
