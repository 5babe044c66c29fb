------------------------------ MODULE ScalarsProofs ------------------------------
(***************************************************************************)
(* Proofs about how scalars are stored, for every width of a type and of   *)
(* the parser (WideBits), and every literal; TLC checks the decoder with   *)
(* narrow ones.                                                            *)
(***************************************************************************)
EXTENDS Scalars, ScalarMeaning, TLAPS

\* The kinds of types that unmarshalValue is asked to store a token in; a
\* json.RawMessage takes the text of a value, and is not among them.
Kinds == {"string", "bool", "int", "uint", "float", "number", "custom", "struct",
          "slice", "omap", "map"}
Numbers == {"int", "uint"}
IsType(type) ==
  /\ type.kind \in Kinds
  /\ type.kind \in Numbers => type.bits \in Nat \ {0}

Literals == {"num", "frac"}
IsToken(d) ==
  /\ d.j \in {"str", "bool"} \cup Literals
  /\ d.j \in Literals => d.n \in Int

\* What a token means to a type.
Meaning(type, d) == IF Fits(type, d) THEN Stored(StoredAs(type.kind, d)) ELSE Refused

-----------------------------------------------------------------------------
(* The ranges of integers. *)

LEMMA PowersOfTwo == \A n \in Nat : 2^n \in Int
OBVIOUS

\* The bounds a width sets, as an interval.
LEMMA Ranges ==
  ASSUME NEW n \in Int, NEW bits \in Nat \ {0}
  PROVE  /\ FitsInt(n, bits) <=> n \in -(2^(bits - 1))..2^(bits - 1) - 1
         /\ FitsUint(n, bits) <=> n \in 0..2^bits - 1
<1>1. 2^(bits - 1) \in Int /\ 2^bits \in Int
  <2>1. bits - 1 \in Nat /\ bits \in Nat
    OBVIOUS
  <2> QED BY <2>1, PowersOfTwo
<1> DEFINE half == 2^(bits - 1)
           all == 2^bits
<1>2. /\ FitsInt(n, bits) <=> -half <= n /\ n < half
      /\ FitsUint(n, bits) <=> 0 <= n /\ n < all
  BY DEF FitsInt, FitsUint
<1> HIDE DEF half, all
<1>3. half \in Int /\ all \in Int
  BY <1>1 DEF half, all
<1>4. /\ -half <= n /\ n < half <=> n \in -half..half - 1
      /\ 0 <= n /\ n < all <=> n \in 0..all - 1
  BY <1>3
<1> QED BY <1>2, <1>4 DEF half, all

-----------------------------------------------------------------------------
(* The two paths. *)

\* encoding/json stores what a token means, and refuses what means nothing.
LEMMA SlowPath ==
  ASSUME NEW type, NEW d, IsType(type), IsToken(d)
  PROVE  jsonSet(type, d) = Meaning(type, d)
<1>1. CASE type.kind \in Numbers /\ d.j = "num"
  <2>1. /\ FitsInt(d.n, type.bits) <=> d.n \in -(2^(type.bits - 1))..2^(type.bits - 1) - 1
        /\ FitsUint(d.n, type.bits) <=> d.n \in 0..2^type.bits - 1
    BY <1>1, Ranges DEF IsType, IsToken, Literals
  <2> DEFINE int == FitsInt(d.n, type.bits)
             uint == FitsUint(d.n, type.bits)
  <2>2. /\ type.kind = "int" => jsonSet(type, d) = IF int THEN Stored(<<d.n>>) ELSE Refused
        /\ type.kind = "uint" => jsonSet(type, d) = IF uint THEN Stored(<<d.n>>) ELSE Refused
    BY <1>1 DEF jsonSet, Content, Numbers
  <2>3. /\ type.kind = "int" => (Fits(type, d) <=> int)
        /\ type.kind = "uint" => (Fits(type, d) <=> uint)
    BY <1>1, <2>1 DEF Fits
  <2>4. StoredAs(type.kind, d) = <<d.n>>
    BY <1>1 DEF StoredAs, Numbers
  <2> HIDE DEF int, uint
  <2> QED BY <1>1, <2>2, <2>3, <2>4 DEF Meaning, Numbers
<1>2. CASE type.kind \in Numbers /\ d.j # "num"
  <2>1. jsonSet(type, d) = Refused
    BY <1>2 DEF jsonSet, Numbers, IsToken, Literals
  <2>2. ~Fits(type, d)
    BY <1>2 DEF Fits, Numbers
  <2> QED BY <2>1, <2>2 DEF Meaning
<1>3. CASE type.kind \notin Numbers
  <2>1. jsonSet(type, d) = IF Fits(type, d) THEN Stored(Content(type.kind, d)) ELSE Refused
    BY <1>3 DEF jsonSet, Fits, IsType, IsToken, Kinds, Numbers, Literals
  <2>2. Fits(type, d) => Content(type.kind, d) = StoredAs(type.kind, d)
    BY <1>3 DEF Fits, Content, StoredAs, Numbers
  <2> QED BY <2>1, <2>2 DEF Meaning
<1> QED BY <1>1, <1>2, <1>3

\* The fast path declines, or does what encoding/json would have done.
LEMMA FastPath ==
  ASSUME NEW type, NEW d, IsType(type), IsToken(d), ~(type.kind = "number" /\ d.j = "str")
  PROVE  SetScalar(type, d) \in {Declined, jsonSet(type, d)}
<1>1. CASE type.kind \in Numbers /\ d.j = "num"
  <2> DEFINE fits == IF type.kind = "int" THEN FitsInt(d.n, type.bits)
                                          ELSE FitsUint(d.n, type.bits)
             content == Stored(Content(type.kind, d))
  <2>1. jsonSet(type, d) = IF fits THEN content ELSE Refused
    BY <1>1 DEF jsonSet, Numbers
  <2>2. SetInteger(type, d) \in {Declined, IF fits THEN content ELSE Refused}
    BY <1>1 DEF SetInteger
  <2>3. SetScalar(type, d) = SetInteger(type, d)
    BY <1>1 DEF SetScalar, Numbers
  <2> QED BY <2>1, <2>2, <2>3
<1>2. CASE type.kind \in Numbers /\ d.j = "frac"
  BY <1>2 DEF SetScalar, SetInteger, Numbers
<1>3. CASE type.kind \notin Numbers \/ d.j \notin Literals
  <2> DEFINE content == Stored(Content(type.kind, d))
  <2>1. SetScalar(type, d) = Declined \/ (SetScalar(type, d) = content /\ Fits(type, d))
    BY <1>3 DEF SetScalar, Fits, IsType, IsToken, Kinds, Numbers, Literals
  <2>2. Fits(type, d) => jsonSet(type, d) = content
    BY <1>3 DEF jsonSet, Fits, IsType, IsToken, Kinds, Numbers, Literals
  <2> QED BY <2>1, <2>2
<1> QED BY <1>1, <1>2, <1>3 DEF Literals

\* "while preserving correctness for types that need encoding/json semantics"
\* (fast_unmarshal.go:16): whichever path a token takes, it is stored in a value of
\* any kind and width if and only if it is one of that type, as what it means.  The
\* one exception is a string for a json.Number, which the fast path stores.
THEOREM ScalarsAreStoredAsMeant ==
  ASSUME NEW type, NEW d, IsType(type), IsToken(d), ~(type.kind = "number" /\ d.j = "str")
  PROVE  Settled(SetScalar(type, d), jsonSet(type, d)) = Meaning(type, d)
<1>1. Settled(SetScalar(type, d), jsonSet(type, d)) = jsonSet(type, d)
  <2>1. Declined.how = "declined"
    BY DEF Declined
  <2> QED BY <2>1, FastPath DEF Settled
<1> QED BY <1>1, SlowPath
=================================================================================
