------------------------------- MODULE Values -------------------------------
(***************************************************************************)
(* The values a statement can be called with.  What the code asks of one   *)
(* by reflection is its kind, its elements, and whether it is a zero value.*)
(***************************************************************************)
EXTENDS Integers, Sequences

(* A value: null is nil or a nil pointer, scalar also []byte and           *)
(* time.Time; opaque is a driver.Valuer without exported fields; slice and *)
(* object are the rest.  json is a value marshaled for a json tag.         *)
Value(kind, id, items, zero) == [kind |-> kind, id |-> id, items |-> items, zero |-> zero]

Null == Value("null", 0, <<>>, TRUE)
Scalar(id) == Value("scalar", id, <<>>, id = 0)
Opaque(id) == Value("opaque", id, <<>>, FALSE)
Object(id) == Value("object", id, <<>>, FALSE)
Slice(items) == Value("slice", 0, items, FALSE)

IsSequence(s) == DOMAIN s = 1 .. Len(s) /\ Len(s) \in Nat

(* A field of a struct, or an entry of a map, with the tags of the field.  *)
Field(value, json, omitEmpty) == [value |-> value, json |-> json, omitEmpty |-> omitEmpty]

(* An argument: a value, a Valuer that is a slice, an object with the      *)
(* fields its names find, a batch ([]struct, []map), a nil, or something   *)
(* no placeholder takes.                                                   *)
Arg(kind, value, objs) == [kind |-> kind, value |-> value, objs |-> objs]
=============================================================================
