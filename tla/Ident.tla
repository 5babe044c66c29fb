--------------------------------- MODULE Ident ---------------------------------
(***************************************************************************)
(* Conversion of identifiers between MixedCaps, lowerCamelCase and         *)
(* SCREAMING_SNAKE_CASE (package ident): a name is taken apart into words  *)
(* and put together again.  A string is a sequence of letters.             *)
(***************************************************************************)
EXTENDS Naturals, Sequences, SequencesExt

\* unicode.ToLower on the letters that have another case.
ToLowerOf == [
  A |-> "a", B |-> "b", C |-> "c", D |-> "d", E |-> "e", F |-> "f", G |-> "g", H |-> "h",
  I |-> "i", J |-> "j", K |-> "k", L |-> "l", M |-> "m", N |-> "n", O |-> "o", P |-> "p",
  Q |-> "q", R |-> "r", S |-> "s", T |-> "t", U |-> "u", V |-> "v", W |-> "w", X |-> "x",
  Y |-> "y", Z |-> "z"]
ToUpperOf == AntiFunction(ToLowerOf)

Letter(name, i) == SubSeq(name, i, i)
IsUpper(name, i) == Letter(name, i) \in DOMAIN ToLowerOf
IsLower(name, i) == Letter(name, i) \in DOMAIN ToUpperOf

Join(strings) ==
  LET joined[n \in 0..Len(strings)] == IF n = 0 THEN "" ELSE joined[n - 1] \o strings[n]
  IN joined[Len(strings)]
ConvertLetter(table, c) == IF c \in DOMAIN table THEN table[c] ELSE c
ToLower(word) == Join([i \in 1..Len(word) |-> ConvertLetter(ToLowerOf, Letter(word, i))])
ToUpper(word) == Join([i \in 1..Len(word) |-> ConvertLetter(ToUpperOf, Letter(word, i))])
EqualFold(a, b) ==
  /\ Len(a) = Len(b)
  /\ \A i \in 1..Len(a) :
       ConvertLetter(ToLowerOf, Letter(a, i)) = ConvertLetter(ToLowerOf, Letter(b, i))

-----------------------------------------------------------------------------
(* Some of the entries of the tables `initialisms` and `brands`. *)

Initialisms == {"API", "HTTP", "HTTPS", "ID", "URL"}
BrandOf == [github |-> "GitHub"]
MinInitialismLength == 2

\* isTwoInitialisms: the places where a word is two initialisms.
TwoInitialisms(word) ==
  {i \in MinInitialismLength..Len(word) - MinInitialismLength :
     /\ SubSeq(ToUpper(word), 1, i) \in Initialisms
     /\ SubSeq(ToUpper(word), i + 1, Len(word)) \in Initialisms}

\* The words that end at the given places of a name.
WordsEndingAt(name, ends) ==
  LET sorted == SelectSeq([i \in 1..Len(name) |-> i], LAMBDA i : i \in ends)
  IN [k \in DOMAIN sorted |-> SubSeq(name, IF k = 1 THEN 1 ELSE sorted[k - 1] + 1, sorted[k])]

\* A word ends before an upper-case letter that follows a lower-case one, and
\* before the last letter of an acronym that a lower-case letter follows, unless
\* that is the plural of ID.
EndsMixedCaps(name) ==
  {i \in 1..Len(name) :
     \/ i = Len(name)
     \/ IsLower(name, i) /\ IsUpper(name, i + 1)
     \/ /\ i + 2 <= Len(name)
        /\ IsUpper(name, i) /\ IsUpper(name, i + 1) /\ IsLower(name, i + 2)
        /\ SubSeq(name, i, i + 2) # "IDs"}

ParseMixedCaps(name) ==
  LET spelt(word) ==
        CASE ToUpper(word) \in Initialisms -> <<ToUpper(word)>>
          [] ToUpper(word) \notin Initialisms /\ TwoInitialisms(word) # {} ->
               LET i == CHOOSE i \in TwoInitialisms(word) :
                          \A j \in TwoInitialisms(word) : i <= j
               IN <<SubSeq(ToUpper(word), 1, i), SubSeq(ToUpper(word), i + 1, Len(word))>>
          [] OTHER -> <<word>>
      words == WordsEndingAt(name, EndsMixedCaps(name))
  IN FlattenSeq([k \in DOMAIN words |-> spelt(words[k])])

\* A word ends before every upper-case letter.
ParseLowerCamelCase(name) ==
  WordsEndingAt(name, {i \in 1..Len(name) : i = Len(name) \/ IsUpper(name, i + 1)})

\* Words are what is between underscores.
ParseScreamingSnakeCase(name) ==
  LET ends == {i \in 1..Len(name) : i = Len(name) \/ Letter(name, i + 1) = "_"}
      words == WordsEndingAt(name, ends)
      withoutUnderscore(word) == IF Letter(word, 1) = "_" THEN Tail(word) ELSE word
  IN [k \in DOMAIN words |-> withoutUnderscore(words[k])]

Capitalized(word) == ToUpper(Letter(word, 1)) \o ToLower(Tail(word))

ToMixedCaps(words) ==
  LET spelt(word) ==
        CASE EqualFold(word, "IDs") -> "IDs"
          [] ToUpper(word) \in Initialisms -> ToUpper(word)
          [] ToLower(word) \in DOMAIN BrandOf -> BrandOf[ToLower(word)]
          [] OTHER -> Capitalized(word)
  IN Join([k \in DOMAIN words |-> spelt(words[k])])

ToLowerCamelCase(words) ==
  Join([k \in DOMAIN words |-> IF k = 1 THEN ToLower(words[k]) ELSE Capitalized(words[k])])
=================================================================================
