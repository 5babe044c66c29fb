------------------------------- MODULE TagParser -------------------------------
(***************************************************************************)
(* GraphQL struct tags and ordered-map keys (internal/tagparser and        *)
(* internal/fragments).  A tag is a sequence of symbols: words, and single *)
(* characters that the parser or GraphQL tells apart, the blank and the    *)
(* quote among them.  What stands between quotes is symbols as well: the   *)
(* parser does not know about quotes.                                      *)
(***************************************************************************)
EXTENDS Naturals, Sequences, SequencesExt

Space == " "
NoTag == <<"no tag">>   \* reflect's Tag.Lookup found none

\* The least and greatest of a set of places, 0 if there is none.
Least(places) == IF places = {} THEN 0 ELSE CHOOSE i \in places : \A j \in places : i <= j
Greatest(places) == IF places = {} THEN 0 ELSE CHOOSE i \in places : \A j \in places : i >= j

\* The numbers of a set, up to n, in order.
InOrder(numbers, n) == SelectSeq([i \in 1..n |-> i], LAMBDA i : i \in numbers)

TrimSpace(s) ==
  LET solid == {i \in DOMAIN s : s[i] # Space}
  IN IF solid = {} THEN <<>> ELSE SubSeq(s, Least(solid), Greatest(solid))

\* strings.Index, 0 if there is none; and what is before that place.
IndexOf(s, symbol) == Least({i \in DOMAIN s : s[i] = symbol})
Before(s, i) == IF i = 0 THEN s ELSE SubSeq(s, 1, i - 1)
After(s, i) == SubSeq(s, i + 1, Len(s))

\* How deep in parentheses each place of a tag is.
Deeper(symbol, depth) ==
  CASE symbol = "(" -> depth + 1
    [] symbol = ")" /\ depth > 0 -> depth - 1
    [] OTHER -> depth
Depth(tag) ==
  LET depth[i \in 0..Len(tag)] == IF i = 0 THEN 0 ELSE Deeper(tag[i], depth[i - 1])
  IN depth

\* directiveIndex: the first "@" that is outside parentheses, 0 if none is.
directiveIndex(tag) == Least({i \in DOMAIN tag : tag[i] = "@" /\ Depth(tag)[i] = 0})

NoParse == [IsFragment |-> FALSE, TypeName |-> <<>>, Alias |-> <<>>, FieldName |-> <<>>]

\* "...", "... on TypeName"
ParseFragment(rest) ==
  [NoParse EXCEPT !.IsFragment = TRUE,
                  !.TypeName = IF IsPrefix(<<"on", Space>>, rest) THEN TrimSpace(After(rest, 2))
                               ELSE <<>>]

\* What is left of the directives and the arguments: "alias: name" or "name".
AliasAndName(field, colon) ==
  IF colon = 0 THEN [NoParse EXCEPT !.FieldName = field]
  ELSE [NoParse EXCEPT !.Alias = TrimSpace(Before(field, colon)),
                       !.FieldName = TrimSpace(After(field, colon))]
ParseField(field) == AliasAndName(field, IndexOf(field, ":"))

ParseSelection(tag) == ParseField(TrimSpace(Before(tag, IndexOf(tag, "("))))

ParseTrimmed(tag) ==
  IF IsPrefix(<<"...">>, tag) THEN ParseFragment(TrimSpace(After(tag, 1)))
  ELSE ParseSelection(Before(tag, directiveIndex(tag)))

ParseGraphQLTag(text) == ParseTrimmed(TrimSpace(text))

\* The name the response uses.
ResponseName(parsed) == IF parsed.Alias # <<>> THEN parsed.Alias ELSE parsed.FieldName

\* fragments.FromTag and FromField
FragmentOf(tag, parsed) ==
  IF tag = NoTag \/ ~parsed.IsFragment THEN [ok |-> FALSE, typename |-> <<>>]
  ELSE [ok |-> TRUE, typename |-> parsed.TypeName]
FromTag(tag) == FragmentOf(tag, ParseGraphQLTag(tag))

\* keyHasGraphQLName
HasName(parsed, name) == ~parsed.IsFragment /\ ResponseName(parsed) = <<name>>
keyHasGraphQLName(tag, name) == HasName(ParseGraphQLTag(tag), name)
=================================================================================
