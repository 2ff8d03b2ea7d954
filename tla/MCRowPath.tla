----------------------------- MODULE MCRowPath -----------------------------
(* An instance of Scan for TLC: every kind of cell into every kind of      *)
(* target in one column, and the shapes of structs in two.                 *)
EXTENDS Scan

(* One cell of each kind on each side of each bound. *)
MCCells ==
  {Null, Cell("bool", "bool", 1), Cell("time", "time", 1), Cell("time", "far", 1)}
    \cup {Cell("int64", "int", n) : n \in {-Wide, -1, 0, 1, Narrow, Wide - 1}}
    \cup {Cell("uint64", "int", n) : n \in {1, Wide, 2 * Wide - 1}}
    \cup {Cell("uint", "int", Wide), Cell("float32", "half", 4 * Wide + 2), Cell("float64", "nan", 0)}
    \cup {Cell("float64", "half", n) : n \in {-1, 2, 3, 2 * Wide, 4 * Wide, 4 * Wide + 2}}
    \cup {Cell(k, "int", n) : k \in Texts, n \in {0, Wide}}
    \cup {Cell("string", of, 3) : of \in {"half", "word", "time"}}
    \cup {Cell("bytes", "word", 3), Cell("string", "bool", 0)}

MCTypes ==
  {Type(kind, FALSE, "plain") : kind \in Integral \cup Texts \cup {"float64", "bool", "time", "any"}}
    \cup {Type(kind, TRUE, "plain") : kind \in {"int8", "string", "time"}}
    \cup {Type(kind, FALSE, "named") : kind \in {"int64", "string", "bytes", "bool"}}
    \cup {Type("int64", FALSE, trait) : trait \in {"registered", "override"}}
    \cup {Type("time", FALSE, "registered"), Type("string", FALSE, "scanner"), Type("string", TRUE, "scanner")}

MCShapes ==
  {Type(n, FALSE, "shape") : n \in {"case", "cross", "inner", "outer", "pointer", "json", "invalid", "time"}}

(* The targets of scalars; a time is a struct. *)
MCScalars == {t \in MCTypes : t.kind # "time"}
Time == Type("time", FALSE, "shape")

(* The names of columns and fields; aa is A and a in lower case. *)
MCLower == [n \in {"a", "A", "b", "B", "Base"} |->
              CASE n = "A" -> "a" [] n = "B" -> "b" [] OTHER -> n]

Untagged == [db |-> NoTag, alt |-> NoTag]
Tagged(column) == [db |-> Tag(column, FALSE), alt |-> NoTag]
Number == Type("int64", FALSE, "plain")
Bytes == Type("bytes", FALSE, "plain")

(* One field of every type, and then: two fields that share a name but for *)
(* its case, a tag that takes the name of another field, an embedded struct*)
(* after and before the field it repeats, one embedded by pointer, fields  *)
(* ignored, in JSON, and with a tag that is none, and no field at all.     *)
MCStructs ==
  LET one(t) == <<Field("A", Tagged("a"), t)>>
      a == Field("A", Untagged, Number)
      b == Field("B", Untagged, Bytes)
      shape(n) ==
        CASE n = "case" -> <<a, Field("a", Untagged, Bytes)>>
          [] n = "cross" -> <<Field("A", Tagged("b"), Number), b>>
          [] n = "inner" -> <<a, Embedded("Base", Untagged, <<a, b>>, "value")>>
          [] n = "outer" -> <<Embedded("Base", Untagged, <<a, b>>, "value"), Field("B", Untagged, Number)>>
          [] n = "pointer" -> <<a, Embedded("Base", Untagged, <<b>>, "pointer")>>
          [] n = "json" -> <<Field("A", [db |-> Tag("a", TRUE), alt |-> Tag("b", FALSE)], Type("any", FALSE, "plain")),
                             Field("B", Tagged("-"), Number)>>
          [] n = "invalid" -> <<a, Field("B", Tagged("invalid"), Number)>>
          [] n = "time" -> <<>>
  IN  [s \in MCTypes \cup MCShapes |-> IF s \in MCShapes THEN shape(s.kind) ELSE one(s)]

(* Two mappers of one function and one of another, and two tag names. *)
Mapper(code, names) == [code |-> code, names |-> [n \in DOMAIN MCLower |-> names[n]]]
LowerMapper == Mapper("closure", MCLower)
PlainMapper == Mapper("closure", [n \in DOMAIN MCLower |-> n])
OtherMapper == Mapper("function", [n \in DOMAIN MCLower |-> "b"])
Config(tag, mapper, strict, nullToZero) ==
  [tagName |-> tag, mapper |-> mapper, strict |-> strict, nullToZero |-> nullToZero]
Usual == Config("db", LowerMapper, FALSE, TRUE)
Others == {Config("db", LowerMapper, TRUE, FALSE), Config("alt", LowerMapper, FALSE, TRUE),
           Config("db", PlainMapper, FALSE, TRUE), Config("db", OtherMapper, FALSE, TRUE)}

(* Two columns are read into the shapes, by all configurations, and one    *)
(* column into everything; what becomes of a NULL is a configuration.      *)
MCCalls(r) ==
  LET cfgs == IF r.rows # <<>> /\ r.rows[1][1] = Null THEN {Usual, [Usual EXCEPT !.nullToZero = FALSE]}
              ELSE {Usual}
      all == {Call(cfg, "struct", t, TRUE) : cfg \in cfgs, t \in MCTypes \cup {Time}}
               \cup {Call(cfg, "scalar", t, TRUE) : cfg \in cfgs, t \in MCScalars}
               \cup {Call(cfg, "map", t, TRUE) : cfg \in cfgs, t \in {Type("any", FALSE, "plain"), Number, Bytes}}
      one == {Call(Usual, shape, Number, FALSE) : shape \in {"struct", "scalar"}}
  IN  IF Len(r.cols) = 1 THEN all \cup one
      ELSE {Call(cfg, "struct", t, TRUE) : cfg \in Others \cup {Usual}, t \in MCShapes}
             \cup {Call(Usual, "map", Number, TRUE), Call(Usual, "scalar", Number, TRUE)}

(* No row, a row of one cell, two rows, a row of two cells, and two rows. *)
MCResults ==
  LET few == {Null, Cell("int64", "int", 1), Cell("bytes", "int", 0)}
  IN  {[cols |-> <<"a">>, rows |-> <<<<c>>>>] : c \in MCCells}
        \cup {[cols |-> <<"a">>, rows |-> rows] : rows \in {<<>>, <<<<Cell("int64", "int", 1)>>, <<Cell("bytes", "int", 0)>>>>}}
        \cup {[cols |-> cols, rows |-> <<<<c, d>>>>] :
                 cols \in {<<"a", "b">>, <<"B", "A">>}, c \in few, d \in few}
        \cup {[cols |-> <<"a", "b">>, rows |-> <<<<c, Null>>, <<c, c>>>>] : c \in few}

(* Builds differ for floats only. *)
MCInit ==
  /\ Init
  /\ \/ build.int64 = -Wide
     \/ \E r \in DOMAIN result.rows : \E c \in ToSet(result.rows[r]) : c.k \in Floats

MCSpec == MCInit /\ [][Next]_vars
=============================================================================
