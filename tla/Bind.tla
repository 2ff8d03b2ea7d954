-------------------------------- MODULE Bind --------------------------------
(***************************************************************************)
(* Argument binding (bind.go): from a query and the argument of a call to  *)
(* the SQL with positional placeholders, the arguments sent to the driver, *)
(* and the arguments a cache key is computed from.                         *)
(*                                                                         *)
(* A query is a sequence of lexemes: the parentheses, the comma, "?",      *)
(* names (":a" is written "a"), and other words.  That the parser finds    *)
(* them is the subject of module Placeholders.  Of an error only its       *)
(* presence is kept.                                                       *)
(***************************************************************************)
EXTENDS Values, Integers, Sequences, SequencesExt, FiniteSets

CONSTANTS
  Names,    \* names of placeholders
  Words,    \* the other lexemes a query may have
  Args,     \* arguments of calls, see Arg
  Expand,   \* WithSliceExpansion
  Longest   \* bound: the longest query

Signs == {"(", ")", ",", "?"}

(* An argument has what its kind says: a scalar is no list, a slice is one *)
(* (isScalarValue, isDirectExpandSlice), and an object is one object.  A   *)
(* valuer is a driver.Valuer whose type is a slice of values.              *)
IsArg(a) ==
  /\ a.kind \in {"scalar", "valuer"} => a.value.kind \in {"scalar", "opaque"}
  /\ a.kind \in {"slice", "anys"} => a.value.kind = "slice"
  /\ a.kind = "object" => Len(a.objs) = 1
  /\ LET fields == UNION {{o[n] : n \in DOMAIN o} : o \in ToSet(a.objs)}
     IN  \A v \in {a.value} \cup {f.value : f \in fields} : IsSequence(v.items)

ASSUME BindAssumptions ==
  /\ Names \cap Signs = {}
  /\ Expand \in BOOLEAN
  /\ \A a \in Args : IsSequence(a.objs) /\ IsArg(a)

VARIABLES
  statement,  \* the query of the call
  call        \* the call made with it, and what bindForExec returned

bindVars == <<statement, call>>

-----------------------------------------------------------------------------
(* Helpers. *)

Failed == [ok |-> FALSE]
Bound(sql, args, bindArgs) ==
  [ok |-> TRUE, sql |-> sql, args |-> args, bindArgs |-> bindArgs]

Flatten(n, Part(_)) == FlattenSeq([k \in 1 .. n |-> Part(k)])
IsName(lexeme) == lexeme \in Names
HasNames(q) == \E k \in DOMAIN q : IsName(q[k])
NamesOf(q) == Flatten(Len(q), LAMBDA k : IF IsName(q[k]) THEN <<q[k]>> ELSE <<>>)
Joined(n, part) == Flatten(n, LAMBDA k : IF k = 1 THEN part ELSE <<",">> \o part)

(* normalizeBindValue: whether a value can be bound, and to what. *)
Normalizes(v, json) ==
  v.kind \in {"null", "scalar", "opaque"} \/ (json /\ v.kind \in {"slice", "object"})
Normal(v) == IF v.kind \in {"slice", "object"} THEN Value("json", v.id, v.items, v.zero) ELSE v

(* expandSlice *)
Expands(v) == v.items # <<>> /\ \A k \in DOMAIN v.items : Normalizes(v.items[k], FALSE)
Expanded(v) == [k \in DOMAIN v.items |-> Normal(v.items[k])]

BindsNull(f) == f.omitEmpty /\ f.value.zero
IsList(f, expand) == ~BindsNull(f) /\ expand /\ f.value.kind = "slice"

(* What a field gives the placeholder that names it. *)
FieldBinds(f, expand) ==
  \/ BindsNull(f)
  \/ IF IsList(f, expand) THEN Expands(f.value) ELSE Normalizes(f.value, f.json)
(* Mutant of FieldArgs: a list is tested before omitempty. *)
FieldArgsListFirst(f, expand) ==
  IF expand /\ f.value.kind = "slice" THEN Expanded(f.value)
  ELSE IF BindsNull(f) THEN <<Null>> ELSE <<Normal(f.value)>>

FieldArgs(f, expand) ==
  IF BindsNull(f) THEN <<Null>>
  ELSE IF IsList(f, expand) THEN Expanded(f.value) ELSE <<Normal(f.value)>>

(* Mutant of FieldKey: an expanded slice leaves nothing in the key. *)
FieldKeyForgets(f, expand) ==
  IF BindsNull(f) \/ IsList(f, expand) THEN Null ELSE Normal(f.value)

(* Mutant of FieldKey: with expansion on, the value as it was given. *)
FieldKeyRaw(f, expand) == IF BindsNull(f) THEN Null ELSE IF expand THEN f.value ELSE Normal(f.value)

FieldKey(f, expand) ==
  IF BindsNull(f) THEN Null ELSE IF IsList(f, expand) THEN f.value ELSE Normal(f.value)

-----------------------------------------------------------------------------
(* bindNamed *)

positionalArgs(a) ==
  CASE a.kind = "nil" -> <<>>
    [] a.kind = "anys" -> a.value.items
    [] OTHER -> <<a.value>>

(* The query with count[name] question marks in place of a name. *)
Rewritten(q, count) ==
  Flatten(Len(q), LAMBDA k : IF IsName(q[k]) THEN Joined(count[q[k]], <<"?">>) ELSE <<q[k]>>)

(* A scalar, or a slice that is expanded, needs a query with one name. *)
BindOne(q, args, key) ==
  IF Len(NamesOf(q)) # 1 THEN Failed
  ELSE Bound(Rewritten(q, [n \in Names |-> Len(args)]), args, <<key>>)

BindFields(q, fields, expand) ==
  LET named == NamesOf(q)
      used == ToSet(named)
  IN  IF ~(used \subseteq DOMAIN fields) THEN Failed
      ELSE IF \E n \in used : ~FieldBinds(fields[n], expand) THEN Failed
      ELSE Bound(Rewritten(q, [n \in used |-> Len(FieldArgs(fields[n], expand))]),
                 Flatten(Len(named), LAMBDA k : FieldArgs(fields[named[k]], expand)),
                 [k \in DOMAIN named |-> FieldKey(fields[named[k]], expand)])

(* With expand FALSE this is the public BindNamed, which CacheKey calls. *)
BindNamed(q, a, expand) ==
  CASE ~HasNames(q) -> Bound(q, positionalArgs(a), positionalArgs(a))
    [] HasNames(q) /\ a.kind \in {"scalar", "valuer"} -> BindOne(q, <<a.value>>, a.value)
    [] HasNames(q) /\ a.kind = "object" -> BindFields(q, a.objs[1], expand)
    [] HasNames(q) /\ a.kind \in {"slice", "anys"} /\ expand /\ Expands(a.value) ->
         BindOne(q, Expanded(a.value), a.value)
    [] OTHER -> Failed

-----------------------------------------------------------------------------
(* bindNamedMany *)

Positions(q) == {k \in DOMAIN q : IsName(q[k])}
FirstName(q) == Min(Positions(q))
LastName(q) == Max(Positions(q))

(* groupNamedPlaces finds one group: only separators between the names. *)
OneGroup(q) == \A k \in FirstName(q) .. LastName(q) : IsName(q[k]) \/ q[k] = ","

(* The fragment that is repeated: from the last "(" before the group, or   *)
(* the start of the query, to the first ")" after it, or the end.          *)
GroupStart(q) == Max({1} \cup {k \in 1 .. FirstName(q) : q[k] = "("})
GroupEndAtName(q) == LastName(q)  \* mutant of GroupEnd: the parenthesis is left out
GroupEnd(q) == Min({Len(q)} \cup {k \in LastName(q) .. Len(q) : q[k] = ")"})

BindNamedMany(q, objs) ==
  LET named == NamesOf(q)
      start == GroupStart(q)
      end == GroupEnd(q)
      fragment == Rewritten(SubSeq(q, start, end), [n \in Names |-> 1])
      args == Flatten(Len(objs), LAMBDA o :
                Flatten(Len(named), LAMBDA k : FieldArgs(objs[o][named[k]], FALSE)))
  IN  IF objs = <<>> \/ ~OneGroup(q) THEN Failed
      ELSE IF \E o \in DOMAIN objs, n \in ToSet(named) :
                n \notin DOMAIN objs[o] \/ ~FieldBinds(objs[o][n], FALSE)
        THEN Failed
      ELSE Bound(SubSeq(q, 1, start - 1) \o Joined(Len(objs), fragment)
                   \o SubSeq(q, end + 1, Len(q)), args, args)

(* bindForExec, before Rebind. It looks at the kind of a Valuer too. *)
BindForExec(q, a) ==
  CASE ~HasNames(q) -> Bound(q, positionalArgs(a), positionalArgs(a))
    [] HasNames(q) /\ a.kind = "batch" -> BindNamedMany(q, a.objs)
    [] HasNames(q) /\ a.kind = "valuer" /\ ~Expand -> Failed
    [] OTHER -> BindNamed(q, a, Expand)

(* Rebind for $n and @n: each "?" gets its number. *)
MarksUpTo(sql, k) == Cardinality({j \in 1 .. k : sql[j] = "?"})
Rebind(sql) ==
  [k \in DOMAIN sql |->
     [text |-> sql[k], n |-> IF sql[k] = "?" THEN MarksUpTo(sql, k) ELSE 0]]

-----------------------------------------------------------------------------
(* A query is written, and a call is made with it. *)

BindInit ==
  /\ statement = <<>>
  /\ call = [made |-> FALSE, arg |-> Arg("nil", Null, <<>>), out |-> Failed]

Write(lexeme) ==
  /\ ~call.made
  /\ Len(statement) < Longest
  /\ statement' = Append(statement, lexeme)
  /\ UNCHANGED call

Call(a) ==
  /\ ~call.made
  /\ call' = [made |-> TRUE, arg |-> a, out |-> BindForExec(statement, a)]
  /\ UNCHANGED statement

BindNext ==
  \/ \E lexeme \in Names \cup Words : Write(lexeme)
  \/ \E a \in Args : Call(a)

BindSpec == BindInit /\ [][BindNext]_bindVars

-----------------------------------------------------------------------------
(***************************************************************************)
(* Properties.                                                             *)
(***************************************************************************)

out == call.out
Named == HasNames(statement) /\ ~Contains(statement, "?")

(* The query as the driver reads it: each "?" stands for the argument of   *)
(* its number.                                                             *)
Spelled(sql, args) ==
  LET numbered == Rebind(sql)
  IN  [k \in DOMAIN sql |->
         IF numbered[k].n = 0 THEN [text |-> sql[k]]
         ELSE [value |-> IF numbered[k].n <= Len(args) THEN args[numbered[k].n] ELSE "missing"]]

(* The query as its author means it: each name stands for the value of its *)
(* field, and for a list of them if lists are expanded.                    *)
List(values) ==
  Flatten(Len(values), LAMBDA k :
    IF k = 1 THEN <<[value |-> values[k]]>> ELSE <<[text |-> ","], [value |-> values[k]]>>)

(* A value that is no object is the value of every name. *)
FieldsOf(a) ==
  IF a.kind = "object" THEN a.objs[1] ELSE [n \in Names |-> Field(a.value, FALSE, FALSE)]

Meaning(f, expand) ==
  CASE f.omitEmpty /\ f.value.zero -> List(<<Null>>)
    [] ~(f.omitEmpty /\ f.value.zero) /\ expand /\ f.value.kind = "slice" ->
         List(Expanded(f.value))
    [] OTHER -> List(<<Normal(f.value)>>)

Meant(q, fields, expand) ==
  Flatten(Len(q), LAMBDA k :
    IF IsName(q[k]) THEN Meaning(fields[q[k]], expand) ELSE <<[text |-> q[k]]>>)

(* A call is bound as its author means: every placeholder stands for the   *)
(* value of its own field, or for the value of the call, wherever lists    *)
(* have moved the numbers of those after them (bind.go:179, :417).         *)
BindsAsMeant ==
  call.made /\ Named /\ out.ok /\ call.arg.kind # "batch" =>
    /\ Spelled(out.sql, out.args) = Meant(statement, FieldsOf(call.arg), Expand)
    /\ MarksUpTo(out.sql, Len(out.sql)) = Len(out.args)

(* Two calls that bind to the same text and the same arguments of the key  *)
(* send the same arguments, though the key has them before the expansion   *)
(* (bind.go:748, cache.go:220).                                            *)
KeyDeterminesArgs ==
  call.made /\ out.ok =>
    \A b \in Args :
      LET other == BindForExec(statement, b)
      IN  other.ok /\ other.sql = out.sql /\ other.bindArgs = out.bindArgs
            => other.args = out.args

(* In a batch, the one parenthesised group is repeated, once for each      *)
(* object, with the values of that object, in which no list is expanded    *)
(* (bind.go:289, :339).                                                    *)
BatchRepeatsGroup ==
  call.made /\ Named /\ out.ok /\ call.arg.kind = "batch" =>
    \A from, to \in DOMAIN statement :
      LET group == SubSeq(statement, from, to)
          inside == SubSeq(statement, from + 1, to - 1)
          copy(o) == Meant(group, call.arg.objs[o], FALSE)
          comma(o) == IF o = 1 THEN <<>> ELSE <<[text |-> ","]>>
      IN  /\ from < to /\ statement[from] = "(" /\ statement[to] = ")"
          /\ ~Contains(inside, "(") /\ ~Contains(inside, ")")
          /\ Positions(statement) \subseteq from .. to
          => Spelled(out.sql, out.args) =
               Meant(SubSeq(statement, 1, from - 1), <<>>, FALSE)
                 \o Flatten(Len(call.arg.objs), LAMBDA o : comma(o) \o copy(o))
                 \o Meant(SubSeq(statement, to + 1, Len(statement)), <<>>, FALSE)

(* InvalidateQuery computes the key of the cached call with the default    *)
(* configuration (cache.go:164, bind.go:115): it fails, or it is the key   *)
(* of that call, unless a list was expanded or the call was a batch.       *)
InvalidationFindsKey ==
  call.made /\ Named /\ out.ok =>
    LET key == BindNamed(statement, call.arg, FALSE)
        expands(a) == Expand /\ \E n \in ToSet(NamesOf(statement)) : IsList(FieldsOf(a)[n], TRUE)
    IN  \/ ~key.ok /\ (call.arg.kind = "batch" \/ expands(call.arg))
        \/ key.ok /\ key.sql = out.sql /\ key.bindArgs = out.bindArgs
        \/ key.ok /\ expands(call.arg)
=============================================================================
