------------------------------ MODULE Convert ------------------------------
(***************************************************************************)
(* Conversion of a driver's cell into a Go value: convertAssign            *)
(* (convert.go), which the recorded and the replayed read use, and the     *)
(* conversion of database/sql, which the uncached read of a struct leaves  *)
(* to the library for the fields that canFastScan (meta.go) selects.       *)
(*                                                                         *)
(* A value is a cell: its Go type k, and what it says: of and v.  A text   *)
(* says what it parses as.  Integers have 2 * Wide or 2 * Narrow values,   *)
(* floats are counted in halves, and of an error only its presence is kept.*)
(***************************************************************************)
EXTENDS Integers

CONSTANTS
  Wide,    \* int64 is -Wide .. Wide - 1, uint64 is 0 .. 2 * Wide - 1
  Narrow   \* likewise int8 and uint8

ASSUME Widths == Wide \in Nat \ {0} /\ Narrow \in 1 .. Wide

VARIABLE
  build  \* what this build makes of a float outside an integer type

Cell(k, of, v) == [k |-> k, of |-> of, v |-> v]
Null == Cell("nil", "none", 0)
Failed == Cell("error", "none", 0)
Zero(kind) == Cell(kind, "zero", 0)

(* A target: the kind of its type, whether it is a pointer to it, and what *)
(* else the code asks of the type: a "named" type, "registered" a named    *)
(* one with a converter, "override" a predeclared one with a converter, or *)
(* a "scanner".                                                            *)
Type(kind, ptr, trait) == [kind |-> kind, ptr |-> ptr, trait |-> trait]

Signed == [int64 |-> -Wide .. Wide - 1, int8 |-> -Narrow .. Narrow - 1]
Unsigned == [uint64 |-> 0 .. 2 * Wide - 1, uint8 |-> 0 .. 2 * Narrow - 1]
Integral == DOMAIN Signed \cup DOMAIN Unsigned
Limits(kind) == IF kind \in DOMAIN Signed THEN Signed[kind] ELSE Unsigned[kind]
Widest(kind) == IF kind \in DOMAIN Signed THEN "int64" ELSE "uint64"

Floats == {"float64", "float32"}
Texts == {"string", "bytes"}

(* The cells a driver gives. *)
Cells ==
  {Null} \cup [k : {"bool"}, of : {"bool"}, v : {0, 1}]
    \cup [k : {"int64"}, of : {"int"}, v : Limits("int64")]
    \cup [k : {"uint64", "uint"}, of : {"int"}, v : Limits("uint64")]
    \cup [k : Floats, of : {"half", "nan"}, v : Int]
    \cup [k : Texts, of : {"int", "half", "bool", "time", "word"}, v : Int]
    \cup [k : {"time"}, of : {"time", "far"}, v : Int]

Trunc(halves) == IF halves >= 0 THEN halves \div 2 ELSE -((-halves) \div 2)

(* The results of amd64, of arm64, and of arm64 for a NaN. *)
Builds == {[int64 |-> -Wide, uint64 |-> Wide],
           [int64 |-> Wide - 1, uint64 |-> 2 * Wide - 1],
           [int64 |-> 0, uint64 |-> 0]}

-----------------------------------------------------------------------------
(* builtinConvert *)

(* A uint is converted without a test, and a float32 too. float64(maxInt64)*)
(* and float64(1<<64-1) are one more than the integers, and pass the test. *)
Unguarded(kind, c) ==
  IF c.k \in Floats
    THEN IF c.of = "nan" \/ Trunc(c.v) \notin Limits(Widest(kind))
           THEN build[Widest(kind)] ELSE Trunc(c.v)
    ELSE IF c.k = "uint" /\ kind \in DOMAIN Signed /\ c.v >= Wide THEN c.v - 2 * Wide ELSE c.v

Overflows(kind, c) ==
  \/ c.k = "float64" /\ c.of # "nan"
       /\ IF kind \in DOMAIN Signed THEN c.v > 2 * Wide \/ c.v < -2 * Wide
                                    ELSE c.v < 0 \/ c.v > 4 * Wide
  \/ c.k = "float32" /\ kind \in DOMAIN Unsigned /\ c.v < 0
  \/ c.k = "uint64" /\ kind \in DOMAIN Signed /\ c.v >= Wide
  \/ c.k = "int64" /\ kind \in DOMAIN Unsigned /\ c.v < 0
  \/ Unguarded(kind, c) \notin Limits(kind)

(* Mutant of convertToInt: the width of the target is not looked at. *)
convertToIntNoWidth(kind, c) ==
  IF c.k \in Texts \cup {"bool", "time"} THEN Failed ELSE Cell(kind, "int", Unguarded(kind, c))

(* convertToInt and convertToUint *)
convertToInt(kind, c) ==
  LET fits == IF c.k \in Texts THEN c.of = "int" /\ c.v \in Limits(kind)
              ELSE c.k \notin {"bool", "time"} /\ ~Overflows(kind, c)
  IN  IF fits THEN Cell(kind, "int", Unguarded(kind, c)) ELSE Failed

convertToFloat(c) ==
  IF c.of \in {"half", "nan"} THEN Cell("float64", c.of, c.v)
  ELSE IF c.of = "int" THEN Cell("float64", "half", 2 * c.v)
  ELSE Failed

ParsesAsBool(c) == c.of = "bool" \/ (c.of = "int" /\ c.v \in {0, 1})

convertToBool(c) ==
  IF c.k = "int64" THEN Cell("bool", "bool", IF c.v = 0 THEN 0 ELSE 1)
  ELSE IF c.k \in Texts \cup {"bool"} /\ ParsesAsBool(c) THEN Cell("bool", "bool", c.v)
  ELSE Failed

builtinConvert(kind, c) ==
  IF kind \in Texts /\ c.k \in Texts THEN Cell(kind, c.of, c.v)
  ELSE IF kind \in Integral THEN convertToInt(kind, c)
  ELSE IF kind = "float64" THEN convertToFloat(c)
  ELSE IF kind = "bool" THEN convertToBool(c)
  ELSE IF kind = "time" /\ c.k \in Texts /\ c.of = "time" THEN Cell("time", "time", c.v)
  ELSE Failed

-----------------------------------------------------------------------------
(* Functions of the application: a Scanner that keeps what it is given, and*)
(* a converter that does not take every text.                              *)
Scanned(c) == Cell("scanned", c.of, c.v)
Converted(c) == IF c.of = "word" THEN Failed ELSE Cell("converted", c.of, c.v)

(* Only a slice type with a name can be assigned from the one without. *)
Assignable(t, c) ==
  \/ t.kind = "any"
  \/ t.kind = c.k /\ (t.trait \in {"plain", "override"} \/ c.k = "bytes")

HasConverter(t) == t.trait \in {"registered", "override"}

assignNull(t, cfg) ==
  IF t.ptr THEN Null ELSE IF cfg.nullToZero THEN Zero(t.kind) ELSE Failed

convertAssign(t, c, cfg) ==
  IF t.trait = "scanner" /\ ~t.ptr THEN Scanned(c)
  ELSE IF c = Null THEN assignNull(t, cfg)
  ELSE IF t.trait = "scanner" THEN Scanned(c)
  ELSE IF Assignable(t, c) THEN c
  ELSE IF HasConverter(t) THEN Converted(c)
  ELSE builtinConvert(t.kind, c)

(* Mutant of SharesBuffer: text becomes bytes without a copy. *)
SharesText(t, c) == t.trait # "scanner" /\ t.kind \in {"bytes", "any"} /\ c.k \in Texts

(* The target is given the very slice of the cell, not a copy. *)
SharesBuffer(t, c) == t.trait # "scanner" /\ t.kind \in {"bytes", "any"} /\ c.k = "bytes"

-----------------------------------------------------------------------------
(* database/sql. *)

(* Mutant of canFastScan: a time is left to the library too. *)
canFastScanTime(t) ==
  t.trait = "scanner" \/ t.kind \in Integral \cup Texts \cup {"float64", "bool", "time"}

canFastScan(t) == t.trait = "scanner" \/ t.kind \in Integral \cup Texts \cup {"float64", "bool"}

(* How the library writes a cell, a large float with an exponent. *)
Written(kind, c) ==
  IF c.k \in Floats /\ c.of = "half" /\ c.v % 2 = 0 /\ c.v \div 2 \in 1 - Wide .. Wide - 1
    THEN Cell(kind, "int", c.v \div 2) ELSE Cell(kind, c.of, c.v)

(* Rows.Scan into the address of a field. *)
Named(t) == t.trait \in {"named", "registered"}

DirectNull(t) ==
  IF t.ptr THEN Null ELSE IF t.kind = "bytes" /\ ~Named(t) THEN Zero("bytes") ELSE Failed

Direct(t, c) ==
  LET text == Written("string", c)
  IN  IF t.trait = "scanner" /\ ~(t.ptr /\ c = Null) THEN Scanned(c)
      ELSE IF c = Null THEN DirectNull(t)
      ELSE IF t.kind \in Texts
             /\ (Named(t) => IF t.kind = "bytes" THEN c.k = "bytes" ELSE c.k \in Texts)
        THEN Written(t.kind, c)
      ELSE IF t.kind \in Integral THEN convertToInt(t.kind, text)
      ELSE IF t.kind = "float64" THEN convertToFloat(text)
      ELSE IF t.kind = "bool" /\ (Named(t) => c.k = "bool") /\ ParsesAsBool(c)
        THEN Cell("bool", "bool", c.v)
      ELSE Failed
=============================================================================
