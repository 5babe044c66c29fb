------------------------------- MODULE FieldLookup -------------------------------
(***************************************************************************)
(* Which field of a struct, or key of an ordered map, the member of a      *)
(* response goes to (internal/decode/field_cache.go, field_lookup.go), and *)
(* the names a type gives itself with GetGraphQLType (reflectutil).        *)
(* A name is a sequence of symbols, as in a tag.                           *)
(***************************************************************************)
EXTENDS GoValues, TagParser, Ident

-----------------------------------------------------------------------------
(* GetGraphQLType *)

NameOfType(ty) == IF "graphQLType" \in DOMAIN Types[ty] THEN Types[ty].graphQLType ELSE <<>>
ImplementsGraphQLType(ty) == NameOfType(ty) # <<>>

\* GetGraphQLType: the name the value at l has for type ty, <<>> if it has none
\* because there is no value or a nil pointer.
GetGraphQLType(m, l, ty) ==
  IF l = NoLoc \/ (Types[ty].kind = "ptr" /\ At(m, l).to = 0) THEN <<>> ELSE NameOfType(ty)

-----------------------------------------------------------------------------
(* fieldLookupTable *)

\* Mutant: an alias is looked up under the name of its field.
EntryWithoutAlias(f, parsed) ==
  [found |-> f.exported /\ ~parsed.IsFragment,
   fold |-> f.tag = NoTag,
   name |-> IF f.tag = NoTag THEN <<f.go>> ELSE parsed.FieldName,
   hasGraphQLType |-> ImplementsGraphQLType(f.ty)]

\* fieldEntry of a field; not found: unexported fields and fragments, which have
\* no entry.
Entry(f, parsed) ==
  [found |-> f.exported /\ ~parsed.IsFragment,
   fold |-> f.tag = NoTag,
   name |-> IF f.tag = NoTag THEN <<f.go>> ELSE ResponseName(parsed),
   hasGraphQLType |-> ImplementsGraphQLType(f.ty)]

StructTypes == {ty \in DOMAIN Types : Types[ty].kind = "struct"}

\* lookupFieldTable: the table of every type, built once.
lookupFieldTable ==
  [ty \in StructTypes |->
     [i \in DOMAIN Types[ty].fields |->
        Entry(Types[ty].fields[i], ParseGraphQLTag(Types[ty].fields[i].tag))]]

StaticMatch(entry, key) ==
  IF entry.fold THEN EqualFold(entry.name[1], key) ELSE entry.name = <<key>>

\* A field with a name of its own that does not match is not looked at again.
LiveName(m, l, entry) == IF entry.hasGraphQLType THEN GetGraphQLType(m, l, At(m, l).ty) ELSE <<>>
MatchesNamed(live, entry, key) ==
  IF live # <<>> THEN keyHasGraphQLName(live, key) ELSE StaticMatch(entry, key)
Matches(m, l, entry, key) == entry.found /\ MatchesNamed(LiveName(m, l, entry), entry, key)

\* lookup: the first field of the struct at l that matches, 0 if none does.
lookup(m, l, table, key) == Least({i \in DOMAIN table : Matches(m, Child(l, i), table[i], key)})

\* orderedMapValueByGraphQLName: the first of the keys that matches.
orderedMapKey(keys, key) == Least({i \in DOMAIN keys : keyHasGraphQLName(keys[i], key)})
=================================================================================
