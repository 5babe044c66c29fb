-------------------------------- MODULE GoValues --------------------------------
(***************************************************************************)
(* The Go values a response is decoded into, as the decoder sees them      *)
(* through package reflect, and the part of internal/reflectutil it uses   *)
(* to get at them.                                                         *)
(*                                                                         *)
(* A memory is a sequence of objects: the target, the pointees, and the    *)
(* backing arrays of ordered maps.  A value is a record:                   *)
(*   ty  its type, a name in Types                                         *)
(*   v   the content of a scalar, <<>> when zero, or the keys of an        *)
(*       ordered map's array, as tags                                      *)
(*   c   the fields of a struct, the elements of a slice, the values of an *)
(*       ordered map's array                                               *)
(*   to  the object a pointer or an ordered map refers to, 0 for nil; of a *)
(*       slice, the caller's array that holds its elements, 0 if the       *)
(*       decoder has allocated one                                         *)
(* Copying a value copies everything but what `to` refers to, as in Go.    *)
(* The elements of a slice are in the slice although a copy shares them:   *)
(* decodeArrayStart allocates before the decoder writes to any.  Such an   *)
(* array has no room for more elements, so that appending allocates too.   *)
(*                                                                         *)
(* Types describes each type: its kind ("string", "bool", "int", "uint",   *)
(* "float", "number" for json.Number, "custom" for a type with an          *)
(* UnmarshalJSON, "raw" for json.RawMessage, "struct", "ptr", "slice",     *)
(* "omap" for an ordered map [][2]any, or "map"), the width of a number, the element *)
(* type of a pointer or slice, the name a GetGraphQLType method returns,   *)
(* and the fields of a struct as they are declared: the Go name, the       *)
(* graphql tag, whether it is embedded (anonymous), exported, and tagged   *)
(* as a scalar.  `wrapped` is the index of the field tagged                *)
(* wrapped:"true", 0 if there is none.                                     *)
(***************************************************************************)
EXTENDS Naturals, Sequences, SequencesExt

CONSTANT Types

PairsType == "pairs"   \* the backing array of an ordered map
ArrayType == "array"   \* the backing array of a slice

\* A value with no content, as reflect.Zero makes it.
Empty(ty) == [ty |-> ty, v |-> <<>>, c |-> <<>>, to |-> 0]

ZeroValue[ty \in DOMAIN Types] ==
  IF Types[ty].kind = "struct"
  THEN [Empty(ty) EXCEPT !.c = [i \in DOMAIN Types[ty].fields |-> ZeroValue[Types[ty].fields[i].ty]]]
  ELSE Empty(ty)
Zero(ty) == ZeroValue[ty]

-----------------------------------------------------------------------------
(* Locations: addressable places, an object and a path into its children.   *)

NoLoc == [o |-> 0, p |-> <<>>]   \* the invalid reflect.Value
Object(o) == [o |-> o, p |-> <<>>]
Child(l, i) == [l EXCEPT !.p = Append(@, i)]

\* The part of v at the path p, and v with x in its place.
Within(v, p) ==
  LET part[n \in 0..Len(p)] == IF n = 0 THEN v ELSE part[n - 1].c[p[n]] IN part[Len(p)]
PutIn(v, p, x) ==
  LET around[n \in 0..Len(p)] ==
        IF n = Len(p) THEN x
        ELSE [Within(v, SubSeq(p, 1, n)) EXCEPT !.c[p[n + 1]] = around[n + 1]]
  IN around[0]

At(m, l) == Within(m[l.o], l.p)

\* reflect.Value.Set: memory m with x stored at l.
Put(m, l, x) == [m EXCEPT ![l.o] = PutIn(@, l.p, x)]

TypeOf(m, l) == IF l = NoLoc THEN [kind |-> "invalid"] ELSE Types[At(m, l).ty]
Kind(m, l) == TypeOf(m, l).kind

\* The values of an ordered map are held in interfaces; every other place has
\* the static type of what it holds.
IsInterface(m, l) == Len(l.p) = 1 /\ m[l.o].ty = PairsType

-----------------------------------------------------------------------------
(* internal/reflectutil *)

\* UnwrapToConcreteValue: through pointers and interfaces to the value itself,
\* invalid if one of them is nil.
UnwrapToConcreteValue(m, l) ==
  LET pointee[o \in 0..Len(m)] ==
        CASE o = 0 -> NoLoc
          [] o # 0 /\ Kind(m, Object(o)) = "ptr" -> pointee[At(m, Object(o)).to]
          [] OTHER -> Object(o)
  IN IF Kind(m, l) = "ptr" THEN pointee[At(m, l).to] ELSE l

\* UnwrapValueField: the wrapped field of a wrapper, invalid for anything else.
WrappedField(u, type) ==
  IF type.kind = "struct" /\ type.wrapped # 0 THEN Child(u, type.wrapped) ELSE NoLoc
UnwrapValueField(m, l) == WrappedField(UnwrapToConcreteValue(m, l),
                                       TypeOf(m, UnwrapToConcreteValue(m, l)))
=================================================================================
