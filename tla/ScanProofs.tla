----------------------------- MODULE ScanProofs -----------------------------
(***************************************************************************)
(* Proofs about Scan and the modules it is built from, for any structs,    *)
(* names, mappers, results, widths of integers and reads.                  *)
(*                                                                         *)
(* Of a single cell: an integer that is assigned is the one of the cell    *)
(* (IntegersAreKept), and the library and the code convert alike, but for  *)
(* what LibraryDiffers names (ConvertedAlike).  Of the metadata: a field   *)
(* that takes a placeholder takes the column of the same name              *)
(* (BoundIsReadBack), and a read uses the metadata of its own configuration*)
(* (MetadataIsOwn).  Of whole reads: one past the cache gives what a       *)
(* recorded one gives (FastPathChangesNothing), a hit gives what the       *)
(* database would (HitsAreFaithful), an integer is kept or the read fails  *)
(* (IntegersStay), and callers reach into entries through a []byte only    *)
(* (OnlyBytesAreShared).                                                   *)
(*                                                                         *)
(* Two invariants carry the last four.  ReadInv, CacheInv and OutInv: what *)
(* a read has given so far is what it makes of the rows of its source, with*)
(* the metadata that it found.  EntryInv and HitInv: in an entry that can  *)
(* be read, and in the source of a hit, each cell is at its place and is   *)
(* that of the database, unless a caller has written to bytes before it.   *)
(***************************************************************************)
EXTENDS Scan, Recursion

-----------------------------------------------------------------------------
(* The conversions of a cell. *)


LEMMA TruncFits ==
  ASSUME NEW halves \in Int
  PROVE  /\ -(2 * Wide) <= halves /\ halves < 2 * Wide => Trunc(halves) \in -Wide .. Wide - 1
         /\ 0 <= halves /\ halves < 4 * Wide => Trunc(halves) \in 0 .. 2 * Wide - 1
<1>1. CASE halves >= 0
  BY <1>1, Widths DEF Trunc
<1>2. CASE halves < 0
  <2> DEFINE over == -halves
  <2>2. over \in Nat /\ over \div 2 \in Nat /\ over \div 2 <= over /\ 2 * (over \div 2) <= over
    BY <1>2
  <2>3. Trunc(halves) = -(over \div 2)
    BY <1>2 DEF Trunc
  <2>4. -(2 * Wide) <= halves => over \div 2 <= Wide
    BY <2>2, Widths
  <2> QED BY <1>2, <2>2, <2>3, <2>4, Widths
<1> QED BY <1>1, <1>2

(* A float64 that is not one past the end, and passes the tests, lies in   *)
(* the widest type of the target.                                          *)
LEMMA FloatFits ==
  ASSUME NEW kind, NEW c, c.k = "float64", c.of # "nan", c.v \in Int,
         c.v \notin {2 * Wide, 4 * Wide}, ~Overflows(kind, c)
  PROVE  Trunc(c.v) \in Limits(Widest(kind))
<1>1. CASE kind \in DOMAIN Signed
  <2>1. ~(c.v > 2 * Wide) /\ ~(c.v < -2 * Wide)
    BY <1>1 DEF Overflows
  <2>2. -(2 * Wide) <= c.v /\ c.v < 2 * Wide
    BY <2>1, Widths
  <2>3. Limits(Widest(kind)) = -Wide .. Wide - 1
    BY <1>1 DEF Limits, Widest, Signed
  <2> QED BY <2>2, <2>3, TruncFits
<1>2. CASE kind \notin DOMAIN Signed
  <2>1. ~(c.v < 0) /\ ~(c.v > 4 * Wide)
    BY <1>2 DEF Overflows
  <2>2. 0 <= c.v /\ c.v < 4 * Wide
    BY <2>1, Widths
  <2>3. Limits(Widest(kind)) = 0 .. 2 * Wide - 1
    BY <1>2 DEF Limits, Widest, Signed, Unsigned
  <2> QED BY <2>2, <2>3, TruncFits
<1> QED BY <1>1, <1>2

(* A conversion to an integer type fails, or gives a value of the type, and*)
(* but for the cells that get by the tests it is the number of the cell    *)
(* (convert.go:185, :204, :263).                                           *)
THEOREM IntegersAreKept ==
  ASSUME NEW kind \in Integral, NEW c \in Cells, convertToInt(kind, c) # Failed
  PROVE  /\ convertToInt(kind, c) = Cell(kind, "int", convertToInt(kind, c).v)
         /\ convertToInt(kind, c).v \in Limits(kind)
         /\ \/ c.k \in {"uint", "float32"} \/ c.of = "nan"
            \/ c.k = "float64" /\ c.v \in {2 * Wide, 4 * Wide}
            \/ convertToInt(kind, c).v = Whole(c)
<1> DEFINE got == Unguarded(kind, c)
<1>1. /\ convertToInt(kind, c) = Cell(kind, "int", got)
      /\ IF c.k \in Texts THEN c.v \in Limits(kind) ELSE ~Overflows(kind, c)
  BY DEF convertToInt
<1>2. convertToInt(kind, c).v = got
  BY <1>1 DEF Cell
<1>3. CASE c.k \notin Floats /\ c.k # "uint"
  <2>1. got = c.v /\ Whole(c) = c.v
    BY <1>3 DEF Unguarded, Whole
  <2>2. got \in Limits(kind)
    BY <1>1, <2>1 DEF Overflows
  <2> QED BY <1>1, <1>2, <2>1, <2>2
<1>4. CASE c.k \in Floats \/ c.k = "uint"
  <2>1. c.k \notin Texts
    BY <1>4 DEF Floats, Texts
  <2>2. ~Overflows(kind, c) /\ got \in Limits(kind)
    BY <1>1, <2>1 DEF Overflows
  <2>3. ASSUME c.k = "float64", c.of # "nan", c.v \notin {2 * Wide, 4 * Wide}
        PROVE  got = Whole(c)
    <3>1. c.v \in Int
      BY <2>3 DEF Cells, Null, Cell, Floats, Texts
    <3>2. Trunc(c.v) \in Limits(Widest(kind))
      BY <2>2, <2>3, <3>1, FloatFits
    <3> QED BY <2>3, <3>2 DEF Unguarded, Whole, Floats
  <2>4. c.k \in {"float64", "float32", "uint"}
    BY <1>4 DEF Floats
  <2> QED BY <1>1, <1>2, <2>2, <2>3, <2>4
<1> QED BY <1>3, <1>4

-----------------------------------------------------------------------------
LEMMA CellParts ==
  ASSUME NEW c \in Cells
  PROVE  /\ c = Cell(c.k, c.of, c.v)
         /\ c.k \in Floats => c.of \in {"half", "nan"} /\ c.v \in Int
         /\ c.k \in {"int64", "uint64", "uint"} => c.of = "int" /\ c.v \in Int
         /\ c.k = "int64" => c.v \in Limits("int64")
         /\ c.k = "uint64" => c.v \in Limits("uint64")
         /\ c.k = "bool" => c.of = "bool" /\ c.v \in {0, 1}
         /\ c.k = "time" => c.of \in {"time", "far"}
         /\ c.k = "nil" => c = Null
         /\ c.k \in Texts => c.of \in {"int", "half", "bool", "time", "word"} /\ c.v \in Int
         /\ c.k \in {"nil", "bool", "int64", "uint64", "uint", "time"} \cup Floats \cup Texts
<1> USE DEF Cell, Floats, Texts
<1>1. CASE c = Null
  BY <1>1 DEF Null
<1>2. CASE c \in [k : {"bool"}, of : {"bool"}, v : {0, 1}]
  BY <1>2
<1>3. CASE c \in [k : {"int64"}, of : {"int"}, v : Limits("int64")]
  BY <1>3, Widths DEF Limits, Signed
<1>4. CASE c \in [k : {"uint64", "uint"}, of : {"int"}, v : Limits("uint64")]
  BY <1>4, Widths DEF Limits, Signed, Unsigned
<1>5. CASE c \in [k : Floats, of : {"half", "nan"}, v : Int]
  BY <1>5
<1>6. CASE c \in [k : Texts, of : {"int", "half", "bool", "time", "word"}, v : Int]
  BY <1>6
<1>7. CASE c \in [k : {"time"}, of : {"time", "far"}, v : Int]
  BY <1>7
<1> QED BY <1>1, <1>2, <1>3, <1>4, <1>5, <1>6, <1>7 DEF Cells

(* What is not a float is written with its value. *)
LEMMA WrittenText ==
  ASSUME NEW c, c.k \notin Floats, NEW kind
  PROVE  Written(kind, c) = Cell(kind, c.of, c.v)
BY DEF Written

(* A NULL, or a target that is a Scanner. *)
LEMMA NullsAlike ==
  ASSUME NEW t, NEW c \in Cells, NEW cfg, t.trait = "scanner" \/ c = Null
  PROVE  /\ ~LibraryDiffers(t, c) => Direct(t, c) = convertAssign(t, c, cfg)
         /\ Direct(t, c) # Failed /\ convertAssign(t, c, cfg) # Failed
              => Direct(t, c) = convertAssign(t, c, cfg)
<1>1. CASE t.trait = "scanner"
  BY <1>1 DEF Direct, convertAssign, DirectNull, assignNull
<1>2. CASE t.trait # "scanner" /\ c = Null /\ t.ptr
  BY <1>2 DEF Direct, convertAssign, DirectNull, assignNull
<1>3. CASE t.trait # "scanner" /\ c = Null /\ ~t.ptr
  <2>1. LibraryDiffers(t, c)
    BY <1>3 DEF LibraryDiffers
  <2>2. /\ Direct(t, c) \in {Failed, Zero(t.kind)}
        /\ convertAssign(t, c, cfg) \in {Failed, Zero(t.kind)}
    BY <1>3 DEF Direct, convertAssign, DirectNull, assignNull
  <2> QED BY <2>1, <2>2
<1> QED BY <1>1, <1>2, <1>3

(* A text, and the cells that are written as one. *)
LEMMA TextsAlike ==
  ASSUME NEW t, NEW c \in Cells, NEW cfg, t.trait # "scanner", c # Null,
         t.kind \in Texts, ~HasConverter(t), c.k \in Texts,
         Direct(t, c) # Failed \/ ~LibraryDiffers(t, c)
  PROVE  Direct(t, c) = convertAssign(t, c, cfg)
<1>1. c = Cell(c.k, c.of, c.v) /\ c.k \notin Floats
  BY CellParts DEF Texts, Floats
<1>2. Written(t.kind, c) = Cell(t.kind, c.of, c.v)
  BY <1>1, WrittenText
<1>3. convertAssign(t, c, cfg) = Cell(t.kind, c.of, c.v)
  <2>1. CASE Assignable(t, c)
    BY <1>1, <2>1 DEF convertAssign, Assignable, Texts
  <2>2. CASE ~Assignable(t, c)
    BY <2>2 DEF convertAssign, builtinConvert
  <2> QED BY <2>1, <2>2
<1>4. Direct(t, c) = Cell(t.kind, c.of, c.v)
  <2>1. t.kind \notin Integral \cup {"float64", "bool"}
    BY DEF Texts, Integral, Signed, Unsigned
  <2>2. ~LibraryDiffers(t, c) => (Named(t) /\ t.kind = "bytes" => c.k = "bytes")
    BY DEF LibraryDiffers, Named, HasConverter
  <2> QED BY <1>2, <2>1, <2>2 DEF Direct, Named, HasConverter
<1> QED BY <1>3, <1>4

(* How the library and the code assign to an integer that is no Scanner    *)
(* and has no converter.                                                   *)
LEMMA IntegerTargets ==
  ASSUME NEW t, NEW c \in Cells, NEW cfg, t.trait # "scanner", c # Null,
         t.kind \in Integral, ~HasConverter(t)
  PROVE  /\ Direct(t, c) = convertToInt(t.kind, Written("string", c))
         /\ convertAssign(t, c, cfg) = IF Assignable(t, c) THEN c ELSE convertToInt(t.kind, c)
         /\ Assignable(t, c) => c.k = t.kind
<1>1. t.kind \notin Texts /\ t.kind # "any"
  BY DEF Texts, Integral, Signed, Unsigned
<1> QED BY <1>1 DEF Direct, convertAssign, builtinConvert, Assignable, Texts

LEMMA TextToInt ==
  ASSUME NEW kind, NEW of, NEW v
  PROVE  convertToInt(kind, Cell("string", of, v)) =
           IF of = "int" /\ v \in Limits(kind) THEN Cell(kind, "int", v) ELSE Failed
BY DEF convertToInt, Unguarded, Cell, Texts, Floats

LEMMA IntegersAlike ==
  ASSUME NEW t, NEW c \in Cells, NEW cfg, t.trait # "scanner", c # Null,
         t.kind \in Integral, ~HasConverter(t)
  PROVE  /\ ~LibraryDiffers(t, c) => Direct(t, c) = convertAssign(t, c, cfg)
         /\ Direct(t, c) # Failed /\ convertAssign(t, c, cfg) # Failed
              => Direct(t, c) = convertAssign(t, c, cfg)
<1>1. CASE c.k \in Texts
  <2>1. ~Assignable(t, c) /\ c.k \notin Floats
    BY <1>1, IntegerTargets DEF Texts, Floats, Integral, Signed, Unsigned
  <2>2. convertToInt(t.kind, c) = IF c.of = "int" /\ c.v \in Limits(t.kind)
                                    THEN Cell(t.kind, "int", c.v) ELSE Failed
    BY <1>1 DEF convertToInt, Unguarded, Texts, Floats
  <2> QED BY <2>1, <2>2, IntegerTargets, WrittenText, TextToInt
<1>2. CASE c.k \in {"bool", "time"}
  <2>1. ~Assignable(t, c) /\ c.k \notin Floats /\ c.of # "int"
    BY <1>2, IntegerTargets, CellParts DEF Floats, Integral, Signed, Unsigned
  <2>2. convertToInt(t.kind, c) = Failed
    BY <1>2 DEF convertToInt, Texts
  <2> QED BY <2>1, <2>2, IntegerTargets, WrittenText, TextToInt
<1>3. CASE c.k \in {"int64", "uint64"}
  <2>1. c.k \notin Floats \cup Texts \cup {"bool", "time", "uint"} /\ c.of = "int" /\ c.v \in Int
    BY <1>3, CellParts DEF Floats, Texts
  <2>2. Direct(t, c) = IF c.v \in Limits(t.kind) THEN Cell(t.kind, "int", c.v) ELSE Failed
    BY <2>1, IntegerTargets, WrittenText, TextToInt
  <2>3. CASE Assignable(t, c)
    BY <1>3, <2>2, <2>3, IntegerTargets, CellParts
  <2>4. CASE ~Assignable(t, c)
    <3>1. Overflows(t.kind, c) <=> c.v \notin Limits(t.kind)
      <4>1. Unguarded(t.kind, c) = c.v
        BY <2>1 DEF Unguarded
      <4>2. c.k = "uint64" /\ t.kind \in DOMAIN Signed /\ c.v >= Wide => c.v \notin Limits(t.kind)
        BY <2>1, Widths DEF Limits, Signed
      <4>3. c.k = "int64" /\ t.kind \in DOMAIN Unsigned /\ c.v < 0 => c.v \notin Limits(t.kind)
        BY <2>1, Widths DEF Limits, Signed, Unsigned
      <4> QED BY <2>1, <4>1, <4>2, <4>3 DEF Overflows, Floats
    <3>2. convertToInt(t.kind, c) = IF c.v \in Limits(t.kind) THEN Cell(t.kind, "int", c.v) ELSE Failed
      BY <2>1, <3>1 DEF convertToInt, Unguarded
    <3> QED BY <2>2, <2>4, <3>2, IntegerTargets
  <2> QED BY <2>3, <2>4
<1>4. CASE c.k = "uint"
  <2>1. c.k \notin Floats \cup Texts /\ c.of = "int" /\ c.v \in Int /\ ~Assignable(t, c)
    BY <1>4, CellParts, IntegerTargets DEF Floats, Texts, Integral, Signed, Unsigned
  <2>2. Direct(t, c) = IF c.v \in Limits(t.kind) THEN Cell(t.kind, "int", c.v) ELSE Failed
    BY <2>1, IntegerTargets, WrittenText, TextToInt
  <2>3. c.v \in Limits(t.kind) => Unguarded(t.kind, c) = c.v
    BY <2>1, Widths DEF Unguarded, Limits, Signed
  <2>4. LibraryDiffers(t, c)
    BY <1>4 DEF LibraryDiffers
  <2> QED BY <2>1, <2>2, <2>3, <2>4, IntegerTargets DEF convertToInt
<1>5. CASE c.k \in Floats
  <2>1. c.of \in {"half", "nan"} /\ c.v \in Int /\ ~Assignable(t, c) /\ c.k \notin Texts
    BY <1>5, CellParts, IntegerTargets DEF Floats, Texts, Integral, Signed, Unsigned
  <2>2. LibraryDiffers(t, c)
    BY <1>5 DEF LibraryDiffers
  <2>3. ASSUME Direct(t, c) # Failed
        PROVE  /\ c.of = "half" /\ c.v % 2 = 0
               /\ c.v \div 2 \in Limits(t.kind) /\ c.v \div 2 \in 1 - Wide .. Wide - 1
               /\ Direct(t, c) = Cell(t.kind, "int", c.v \div 2)
    BY <1>5, <2>1, <2>3, IntegerTargets, TextToInt DEF Written
  <2>4. ASSUME Direct(t, c) # Failed
        PROVE  Unguarded(t.kind, c) = c.v \div 2
    <3>1. Trunc(c.v) = c.v \div 2
      BY <2>1, <2>3, <2>4 DEF Trunc
    <3>2. c.v \div 2 \in Limits(Widest(t.kind))
      BY <2>1, <2>3, <2>4, Widths DEF Limits, Widest, Integral, Signed, Unsigned
    <3> QED BY <1>5, <2>1, <2>3, <2>4, <3>1, <3>2 DEF Unguarded
  <2> QED BY <2>1, <2>2, <2>3, <2>4, IntegerTargets DEF convertToInt
<1> QED BY <1>1, <1>2, <1>3, <1>4, <1>5, CellParts

LEMMA FloatsAlike ==
  ASSUME NEW t, NEW c \in Cells, NEW cfg, t.trait # "scanner", c # Null,
         t.kind = "float64", ~HasConverter(t)
  PROVE  Direct(t, c) = convertAssign(t, c, cfg)
<1>1. t.kind \notin Integral \cup Texts \cup {"any"}
  BY DEF Texts, Integral, Signed, Unsigned
<1>2. /\ Direct(t, c) = convertToFloat(Written("string", c))
      /\ convertAssign(t, c, cfg) = IF Assignable(t, c) THEN c ELSE convertToFloat(c)
  BY <1>1 DEF Direct, convertAssign, builtinConvert
<1>3. CASE c.k \notin Floats
  <2>1. ~Assignable(t, c)
    BY <1>1, <1>3 DEF Assignable, Floats
  <2>2. Written("string", c) = Cell("string", c.of, c.v)
    BY <1>3, WrittenText
  <2> QED BY <1>2, <2>1, <2>2 DEF convertToFloat, Cell
<1>4. CASE c.k \in Floats
  <2>1. c = Cell(c.k, c.of, c.v) /\ c.of \in {"half", "nan"} /\ c.v \in Int
    BY <1>4, CellParts
  <2>2. convertAssign(t, c, cfg) = Cell("float64", c.of, c.v)
    BY <1>1, <1>2, <2>1 DEF Assignable, convertToFloat, Floats, Texts
  <2>3. CASE c.of = "half" /\ c.v % 2 = 0 /\ c.v \div 2 \in 1 - Wide .. Wide - 1
    <3>1. Written("string", c) = Cell("string", "int", c.v \div 2)
      BY <1>4, <2>3 DEF Written
    <3>2. 2 * (c.v \div 2) = c.v
      BY <2>1, <2>3
    <3> QED BY <1>2, <2>2, <2>3, <3>1, <3>2 DEF convertToFloat, Cell
  <2>4. CASE ~(c.of = "half" /\ c.v % 2 = 0 /\ c.v \div 2 \in 1 - Wide .. Wide - 1)
    <3>1. Written("string", c) = Cell("string", c.of, c.v)
      BY <2>4 DEF Written
    <3> QED BY <1>2, <2>1, <2>2, <3>1 DEF convertToFloat, Cell
  <2> QED BY <2>3, <2>4
<1> QED BY <1>3, <1>4

LEMMA BoolsAlike ==
  ASSUME NEW t, NEW c \in Cells, NEW cfg, t.trait # "scanner", c # Null,
         t.kind = "bool", ~HasConverter(t)
  PROVE  /\ ~LibraryDiffers(t, c) => Direct(t, c) = convertAssign(t, c, cfg)
         /\ Direct(t, c) # Failed /\ convertAssign(t, c, cfg) # Failed
              => Direct(t, c) = convertAssign(t, c, cfg)
<1>1. t.kind \notin Integral \cup Texts \cup {"any", "float64"}
  BY DEF Texts, Integral, Signed, Unsigned
<1>2. /\ Direct(t, c) = IF (Named(t) => c.k = "bool") /\ ParsesAsBool(c)
                         THEN Cell("bool", "bool", c.v) ELSE Failed
      /\ convertAssign(t, c, cfg) = IF Assignable(t, c) THEN c ELSE convertToBool(c)
      /\ Assignable(t, c) => c.k = "bool"
  BY <1>1 DEF Direct, convertAssign, builtinConvert, Assignable
<1>3. c = Cell(c.k, c.of, c.v)
  BY CellParts
<1>4. CASE c.k = "bool"
  <2>1. c.of = "bool"
    BY <1>4, CellParts
  <2> QED BY <1>2, <1>3, <1>4, <2>1 DEF convertToBool, ParsesAsBool
<1>5. CASE c.k \in Texts
  <2>1. c.k \notin {"bool", "int64"}
    BY <1>5 DEF Texts
  <2>2. convertAssign(t, c, cfg) = IF ParsesAsBool(c) THEN Cell("bool", "bool", c.v) ELSE Failed
    BY <1>2, <1>5, <2>1 DEF convertToBool
  <2>3. Named(t) => LibraryDiffers(t, c)
    BY DEF Named, HasConverter, LibraryDiffers
  <2> QED BY <1>2, <2>1, <2>2, <2>3
<1>6. CASE c.k \in {"int64", "uint64", "uint"}
  <2>1. c.of = "int" /\ c.v \in Int
    BY <1>6, CellParts
  <2>2. LibraryDiffers(t, c)
    BY <1>6 DEF LibraryDiffers
  <2>3. Direct(t, c) # Failed => c.v \in {0, 1} /\ Direct(t, c) = Cell("bool", "bool", c.v)
    BY <1>2, <2>1 DEF ParsesAsBool
  <2>4. convertAssign(t, c, cfg) # Failed
          => convertAssign(t, c, cfg) = Cell("bool", "bool", IF c.v = 0 THEN 0 ELSE 1)
    BY <1>2, <1>6 DEF convertToBool, Texts
  <2> QED BY <2>2, <2>3, <2>4
<1>7. CASE c.k \in Floats \cup {"time"}
  <2>1. ~ParsesAsBool(c)
    BY <1>7, CellParts DEF ParsesAsBool, Floats
  <2>2. ~Assignable(t, c) /\ c.k # "int64"
    BY <1>2, <1>7 DEF Floats
  <2> QED BY <1>2, <2>1, <2>2 DEF convertToBool
<1> QED BY <1>4, <1>5, <1>6, <1>7, CellParts

(* A field that is left to the library is given what the code would have   *)
(* given it, but for LibraryDiffers; and if both succeed only a converter  *)
(* makes a difference (scan.go:165, meta.go:256).                          *)
THEOREM ConvertedAlike ==
  ASSUME NEW t, NEW c \in Cells, NEW cfg, canFastScan(t)
  PROVE  /\ ~LibraryDiffers(t, c) => Direct(t, c) = convertAssign(t, c, cfg)
         /\ \/ Direct(t, c) = Failed \/ convertAssign(t, c, cfg) = Failed
            \/ HasConverter(t) \/ Direct(t, c) = convertAssign(t, c, cfg)
<1>1. CASE t.trait = "scanner" \/ c = Null
  BY <1>1, NullsAlike
<1>2. CASE t.trait # "scanner" /\ c # Null /\ HasConverter(t)
  BY <1>2 DEF LibraryDiffers
<1>3. ASSUME t.trait # "scanner", c # Null, ~HasConverter(t), t.kind \in Texts
      PROVE  /\ ~LibraryDiffers(t, c) => Direct(t, c) = convertAssign(t, c, cfg)
             /\ \/ Direct(t, c) = Failed \/ convertAssign(t, c, cfg) = Failed
                \/ Direct(t, c) = convertAssign(t, c, cfg)
  <2>1. CASE c.k \in Texts
    BY <1>3, <2>1, TextsAlike
  <2>2. CASE c.k \notin Texts
    <3>1. LibraryDiffers(t, c)
      BY <1>3, <2>2 DEF LibraryDiffers
    <3>2. t.kind \notin Integral \cup {"float64", "bool", "time", "any"} /\ ~Assignable(t, c)
      BY <1>3, <2>2 DEF Assignable, Integral, Signed, Unsigned, Texts
    <3>3. convertAssign(t, c, cfg) = Failed
      BY <1>3, <2>2, <3>2 DEF convertAssign, builtinConvert
    <3> QED BY <3>1, <3>3
  <2> QED BY <2>1, <2>2
<1>4. CASE t.trait # "scanner" /\ t.kind \in Integral \cup Texts \cup {"float64", "bool"}
  BY <1>1, <1>2, <1>3, <1>4, IntegersAlike, FloatsAlike, BoolsAlike
<1> QED BY <1>1, <1>4 DEF canFastScan
-----------------------------------------------------------------------------
(* The metadata and its lookups. *)


(* Two fields have one name, but for its case. *)
OneCase(fields) ==
  \A i, j \in DOMAIN fields :
    Lower[fields[i].name] = Lower[fields[j].name] => fields[i].name = fields[j].name

(* With a name that is the name of a field, the search that ignores the    *)
(* case finds what the other finds.                                        *)
LEMMA NamesFoundAlike ==
  ASSUME NEW fields, OneCase(fields), NEW n, byFieldName(fields, n) # 0
  PROVE  byName(fields, n) = byFieldName(fields, n)
<1> DEFINE exact == {i \in DOMAIN fields : fields[i].name = n}
<1> DEFINE alike == {i \in DOMAIN fields : Lower[fields[i].name] = Lower[n]}
<1>1. byFieldName(fields, n) = IF exact = {} THEN 0 ELSE Max(exact)
  BY DEF byFieldName, LastOf
<1>2. byName(fields, n) = IF alike = {} THEN 0 ELSE Max(alike)
  BY DEF byName, LastOf
<1>3. PICK k \in DOMAIN fields : fields[k].name = n
  BY <1>1
<1>4. alike = exact
  BY <1>3 DEF OneCase
<1> QED BY <1>1, <1>2, <1>4

(* The two lookups agree on a name that can be bound. *)
LEMMA LookupsFoundAlike ==
  ASSUME NEW fields, OneCase(fields), NEW n, lookupBind(fields, n) # 0
  PROVE  lookupScan(fields, n) = lookupBind(fields, n)
BY NamesFoundAlike DEF lookupBind, lookupScan, FirstFound

LEMMA LookupsHold == LookupsAgree
BY LookupsFoundAlike DEF LookupsAgree, OneCase

-----------------------------------------------------------------------------
(* A read that is under way, or over, was made by one of the calls. *)
ReadOf(call) ==
  read = [at |-> read.at, number |-> read.number, cfg |-> call.cfg, target |-> call.target,
          how |-> read.how, source |-> read.source, out |-> read.out]

ReadInv == read.at # "none" => \E call \in Calls(result) : ReadOf(call)

(* A key of the cache is the key of a call for a struct, and finds what    *)
(* was built for them.                                                     *)
BuiltFor(s, cfg, key) ==
  key = metaKey(s, cfg) /\ typeCache[key] = buildTypeInfo(s, cfg.tagName, cfg.mapper)

CacheInv ==
  \A key \in DOMAIN typeCache : \E s : \E call \in Calls(result) : BuiltFor(s, call.cfg, key)

MetaInv == ReadInv /\ CacheInv

LEMMA MetaInit == Init => MetaInv
BY DEF Init, MetaInv, ReadInv, CacheInv

(* What a call of a read finds or builds was built for a call of its key.  *)
LEMMA KnownWasBuilt ==
  ASSUME CacheInv, NEW call \in Calls(result), NEW s
  PROVE  \E other \in Calls(result) :
           /\ metaKey(s, other.cfg) = metaKey(s, call.cfg)
           /\ Known(s, call.cfg) = buildTypeInfo(s, other.cfg.tagName, other.cfg.mapper)
<1>1. CASE metaKey(s, call.cfg) \in DOMAIN typeCache
  <2>1. PICK t : \E other \in Calls(result) : BuiltFor(t, other.cfg, metaKey(s, call.cfg))
    BY <1>1 DEF CacheInv
  <2>2. PICK other \in Calls(result) : BuiltFor(t, other.cfg, metaKey(s, call.cfg))
    BY <2>1
  <2>3. t = s /\ metaKey(s, other.cfg) = metaKey(s, call.cfg)
    BY <2>2 DEF BuiltFor, metaKey
  <2> QED BY <1>1, <2>2, <2>3 DEF Known, BuiltFor
<1>2. CASE metaKey(s, call.cfg) \notin DOMAIN typeCache
  BY <1>2 DEF Known
<1> QED BY <1>1, <1>2

LEMMA LearnKeeps ==
  ASSUME CacheInv, UNCHANGED result, NEW call \in Calls(result), NEW s, Learn(s, call.cfg)
  PROVE  CacheInv'
<1>1. CASE ~Known(s, call.cfg).ok
  BY <1>1 DEF Learn, CacheInv, BuiltFor
<1>2. CASE Known(s, call.cfg).ok
  <2> DEFINE mine == metaKey(s, call.cfg)
  <2>1. /\ DOMAIN typeCache' = DOMAIN typeCache \cup {mine}
        /\ typeCache'[mine] = Known(s, call.cfg)
        /\ \A key \in DOMAIN typeCache : key # mine => typeCache'[key] = typeCache[key]
    BY <1>2 DEF Learn, Known
  <2>2. PICK other \in Calls(result) :
          /\ metaKey(s, other.cfg) = mine
          /\ Known(s, call.cfg) = buildTypeInfo(s, other.cfg.tagName, other.cfg.mapper)
    BY KnownWasBuilt
  <2>3. BuiltFor(s, other.cfg, mine)'
    BY <2>1, <2>2 DEF BuiltFor
  <2>4. ASSUME NEW key \in DOMAIN typeCache, key # mine
        PROVE  \E t : \E c \in Calls(result) : BuiltFor(t, c.cfg, key)'
    <3>1. PICK t : \E c \in Calls(result) : BuiltFor(t, c.cfg, key)
      BY DEF CacheInv
    <3>2. \A c \in Calls(result) : BuiltFor(t, c.cfg, key) => BuiltFor(t, c.cfg, key)'
      BY <2>1, <2>4 DEF BuiltFor
    <3> QED BY <3>1, <3>2
  <2> QED BY <2>1, <2>3, <2>4 DEF CacheInv
<1> QED BY <1>1, <1>2

LEMMA MetaStep == MetaInv /\ [Next]_vars => MetaInv'
<1> SUFFICES ASSUME MetaInv, [Next]_vars PROVE MetaInv'
  OBVIOUS
<1>1. ASSUME NEW call \in Calls(result), NEW cached \in BOOLEAN, Start(call, cached)
      PROVE  MetaInv'
  <2>1. UNCHANGED <<typeCache, result>>
    BY <1>1 DEF Start
  <2>2. ReadOf(call)'
    BY <1>1 DEF Start, ReadOf
  <2> QED BY <2>1, <2>2 DEF MetaInv, ReadInv, CacheInv, BuiltFor
<1>2. ASSUME ScanRow PROVE MetaInv'
  <2>1. PICK call \in Calls(result) : ReadOf(call)
    BY <1>2 DEF ScanRow, MetaInv, ReadInv
  <2>2. ReadOf(call)'
    <3>1. \/ read' = [read EXCEPT !.at = "failed"]
          \/ read' = [read EXCEPT !.at = "panicked"]
          \/ \E row : read' = [read EXCEPT !.out = Append(@, row)]
      <4>1. PICK row :
              read' = CASE row = <<Failed>> -> [read EXCEPT !.at = "failed"]
                        [] row = <<Panicked>> -> [read EXCEPT !.at = "panicked"]
                        [] OTHER -> [read EXCEPT !.out = Append(@, row)]
        BY <1>2, Zenon DEF ScanRow
      <4> DEFINE over == [read EXCEPT !.at = "failed"]
                 lost == [read EXCEPT !.at = "panicked"]
                 more == [read EXCEPT !.out = Append(@, row)]
      <4>2. read' \in {over, lost, more}
        <5> HIDE DEF over, lost, more
        <5>1. read' = CASE row = <<Failed>> -> over [] row = <<Panicked>> -> lost [] OTHER -> more
          BY <4>1, Zenon DEF over, lost, more
        <5> QED BY <5>1
      <4> QED BY <4>2, Zenon
    <3> QED BY <2>1, <3>1 DEF ReadOf
  <2>3. read.cfg = call.cfg /\ UNCHANGED result
    BY <1>2, <2>1 DEF ScanRow, ReadOf
  <2>4. CacheInv'
    <3>1. CASE Learn(read.target.type, read.cfg)
      BY <2>3, <3>1, LearnKeeps DEF MetaInv
    <3>2. CASE UNCHANGED typeCache
      BY <2>3, <3>2 DEF MetaInv, CacheInv, BuiltFor
    <3> QED BY <1>2, <3>1, <3>2 DEF ScanRow
  <2> QED BY <2>2, <2>3, <2>4 DEF MetaInv, ReadInv
<1>3. ASSUME Finish PROVE MetaInv'
  <2>1. PICK call \in Calls(result) : ReadOf(call)
    BY <1>3 DEF Finish, MetaInv, ReadInv
  <2>2. ReadOf(call)' /\ UNCHANGED <<typeCache, result>>
    BY <1>3, <2>1 DEF Finish, ReadOf
  <2> QED BY <2>2 DEF MetaInv, ReadInv, CacheInv, BuiltFor
<1>4. ASSUME SourceFails PROVE MetaInv'
  <2>1. PICK call \in Calls(result) : ReadOf(call)
    BY <1>4 DEF SourceFails, MetaInv, ReadInv
  <2>2. ReadOf(call)' /\ UNCHANGED <<typeCache, result>>
    BY <1>4, <2>1 DEF SourceFails, ReadOf
  <2> QED BY <2>2 DEF MetaInv, ReadInv, CacheInv, BuiltFor
<1>5. ASSUME Return PROVE MetaInv'
  BY <1>5 DEF Return, MetaInv, ReadInv, CacheInv, BuiltFor
<1>6. ASSUME UNCHANGED <<typeCache, result, read>> PROVE MetaInv'
  BY <1>6 DEF MetaInv, ReadInv, ReadOf, CacheInv, BuiltFor
<1>7. ASSUME NEW r, NEW i, Overwrite(r, i) PROVE MetaInv'
  BY <1>6, <1>7 DEF Overwrite
<1> QED BY <1>1, <1>2, <1>3, <1>4, <1>5, <1>6, <1>7 DEF Next, vars

LEMMA MetaFits == MetaInv => MetadataFits
<1> SUFFICES ASSUME MetaInv, OfStruct
             PROVE  \E mapper \in {call.cfg.mapper : call \in Calls(result)} :
                      /\ mapper.code = read.cfg.mapper.code
                      /\ Info = buildTypeInfo(read.target.type, read.cfg.tagName, mapper)
  BY DEF MetadataFits
<1>1. PICK mine \in Calls(result) : read.cfg = mine.cfg
  BY DEF OfStruct, Over, MetaInv, ReadInv, ReadOf
<1>2. PICK call \in Calls(result) :
        /\ metaKey(read.target.type, call.cfg) = metaKey(read.target.type, read.cfg)
        /\ Known(read.target.type, read.cfg)
             = buildTypeInfo(read.target.type, call.cfg.tagName, call.cfg.mapper)
  BY <1>1, KnownWasBuilt DEF MetaInv
<1>3. call.cfg.tagName = read.cfg.tagName /\ call.cfg.mapper.code = read.cfg.mapper.code
  BY <1>2 DEF metaKey
<1> QED BY <1>2, <1>3 DEF Info

-----------------------------------------------------------------------------
(* The outcome of a row is wrong when a column is, and else has a value    *)
(* for each column.                                                        *)
LEMMA RowFromColumns ==
  ASSUME NEW info, NEW cols, NEW row, NEW cfg, NEW recorded \in BOOLEAN,
         DOMAIN cols = 1 .. Len(cols), Len(cols) \in Nat, info.ok
  PROVE  LET value(i) == ColumnValue(info, cols[i], row[i], cfg, recorded)
             whole == scanStructRow(info, cols, row, cfg, recorded)
         IN  /\ Wrong(whole) <=> \E i \in DOMAIN cols : value(i) \in {Failed, Panicked}
             /\ ~Wrong(whole) => whole = [i \in DOMAIN cols |-> value(i)]
<1> DEFINE at(i) == lookupScan(info.fields, cols[i])
           fast(i) == ~info.fields[at(i)].json /\ canFastScan(info.fields[at(i)].type)
           values == [i \in DOMAIN cols |-> ColumnValue(info, cols[i], row[i], cfg, recorded)]
           turn == [i \in DOMAIN cols |->
                      IF recorded \/ at(i) = 0 \/ (fast(i) /\ values[i] = Panicked) THEN i
                      ELSE IF fast(i) THEN Len(cols) + i ELSE 2 * Len(cols) + i]
           wrong == {i \in DOMAIN values : values[i] \in {Failed, Panicked}}
           whole == scanStructRow(info, cols, row, cfg, recorded)
<1>1. whole = FirstWrong(values, turn)
  BY DEF scanStructRow
<1>2. DOMAIN values = DOMAIN cols /\ turn \in [DOMAIN cols -> Nat]
  <2> HIDE DEF at, fast
  <2> QED OBVIOUS
<1> HIDE DEF values, turn, whole
<1>3. CASE wrong # {}
  <2> DEFINE first == CHOOSE i \in wrong : \A j \in wrong : turn[i] <= turn[j]
  <2>1. \E i \in wrong : \A j \in wrong : turn[i] <= turn[j]
    <3> DEFINE turns == {turn[i] : i \in wrong}
    <3>1. turns \in SUBSET Nat /\ turns # {}
      BY <1>2, <1>3
    <3>2. PICK x \in turns : \A y \in turns : x <= y
      BY <3>1, LeastNumber
    <3> QED BY <3>2
  <2>2. first \in wrong
    BY <2>1
  <2>3. whole = <<values[first]>>
    BY <1>1, <1>3 DEF FirstWrong
  <2>4. Wrong(whole)
    BY <2>2, <2>3 DEF Wrong
  <2> QED BY <1>2, <1>3, <2>4 DEF values, whole
<1>4. CASE wrong = {}
  <2>1. whole = values
    BY <1>1, <1>4 DEF FirstWrong
  <2>2. ~Wrong(whole)
    BY <1>2, <1>4, <2>1 DEF Wrong
  <2> QED BY <1>2, <1>4, <2>1, <2>2 DEF values, whole
<1> QED BY <1>3, <1>4

(* A field that the library may treat otherwise. *)
Differs(info, column, c) ==
  LET at == lookupScan(info.fields, column)
  IN  /\ at # 0
      /\ canFastScan(info.fields[at].type) /\ ~info.fields[at].json
      /\ LibraryDiffers(info.fields[at].type, c)

(* A column read directly and recorded. *)
LEMMA ColumnsAlike ==
  ASSUME NEW info, NEW column, NEW c \in Cells, NEW cfg
  PROVE  LET direct == ColumnValue(info, column, c, cfg, FALSE)
             recorded == ColumnValue(info, column, c, cfg, TRUE)
             type == info.fields[lookupScan(info.fields, column)].type
         IN  /\ ~Differs(info, column, c) => direct = recorded
             /\ \/ direct = Failed \/ recorded = Failed
                \/ HasConverter(type) \/ direct = recorded
<1> DEFINE at == lookupScan(info.fields, column)
           field == info.fields[at]
           direct == ColumnValue(info, column, c, cfg, FALSE)
           recorded == ColumnValue(info, column, c, cfg, TRUE)
<1>1. CASE at = 0 \/ field.link = "pointer" \/ field.json \/ ~canFastScan(field.type)
  <2>1. direct = recorded
    BY <1>1 DEF ColumnValue, FieldValue
  <2> QED BY <2>1
<1>2. CASE at # 0 /\ field.link # "pointer" /\ ~field.json /\ canFastScan(field.type)
  <2>1. direct = Direct(field.type, c) /\ recorded = convertAssign(field.type, c, cfg)
    BY <1>2 DEF ColumnValue, FieldValue, assignFieldValue
  <2>2. Differs(info, column, c) <=> LibraryDiffers(field.type, c)
    BY <1>2 DEF Differs
  <2>3. /\ ~LibraryDiffers(field.type, c) => Direct(field.type, c) = convertAssign(field.type, c, cfg)
        /\ \/ Direct(field.type, c) = Failed \/ convertAssign(field.type, c, cfg) = Failed
           \/ HasConverter(field.type)
           \/ Direct(field.type, c) = convertAssign(field.type, c, cfg)
    BY <1>2, ConvertedAlike
  <2> QED BY <2>1, <2>2, <2>3
<1> QED BY <1>1, <1>2

(* The cells of a row. *)
RowOf(cols, row) ==
  DOMAIN cols = 1 .. Len(cols) /\ Len(cols) \in Nat /\ \A i \in DOMAIN cols : row[i] \in Cells

(* A row of a struct read directly and recorded: what is right in one and  *)
(* wrong in the other has a field that differs, and what is right in both  *)
(* is the same but for converters.                                         *)
LEMMA StructRowsAlike ==
  ASSUME NEW info, NEW cols, NEW row, NEW cfg, RowOf(cols, row)
  PROVE  LET direct == scanStructRow(info, cols, row, cfg, FALSE)
             recorded == scanStructRow(info, cols, row, cfg, TRUE)
         IN  /\ \/ Wrong(direct) <=> Wrong(recorded)
                \/ \E i \in DOMAIN cols : Differs(info, cols[i], row[i])
             /\ ~Wrong(direct) /\ ~Wrong(recorded) =>
                  \A i \in DOMAIN cols :
                    \/ direct[i] = recorded[i]
                    \/ HasConverter(info.fields[lookupScan(info.fields, cols[i])].type)
<1> DEFINE direct == scanStructRow(info, cols, row, cfg, FALSE)
           recorded == scanStructRow(info, cols, row, cfg, TRUE)
           left(i) == ColumnValue(info, cols[i], row[i], cfg, FALSE)
           right(i) == ColumnValue(info, cols[i], row[i], cfg, TRUE)
<1>1. CASE ~info.ok
  <2>1. direct = recorded
    BY <1>1 DEF scanStructRow
  <2> QED BY <2>1
<1>2. CASE info.ok
  <2>1. \A i \in DOMAIN cols :
          /\ ~Differs(info, cols[i], row[i]) => left(i) = right(i)
          /\ \/ left(i) = Failed \/ right(i) = Failed
             \/ HasConverter(info.fields[lookupScan(info.fields, cols[i])].type)
             \/ left(i) = right(i)
    BY ColumnsAlike DEF RowOf
  <2>2. /\ Wrong(direct) <=> \E i \in DOMAIN cols : left(i) \in {Failed, Panicked}
        /\ ~Wrong(direct) => direct = [i \in DOMAIN cols |-> left(i)]
    BY <1>2, RowFromColumns DEF RowOf
  <2>3. /\ Wrong(recorded) <=> \E i \in DOMAIN cols : right(i) \in {Failed, Panicked}
        /\ ~Wrong(recorded) => recorded = [i \in DOMAIN cols |-> right(i)]
    BY <1>2, RowFromColumns DEF RowOf
  <2> HIDE DEF direct, recorded, left, right
  <2>4. ~Wrong(direct) /\ ~Wrong(recorded) =>
          \A i \in DOMAIN cols :
            \/ direct[i] = recorded[i]
            \/ HasConverter(info.fields[lookupScan(info.fields, cols[i])].type)
    BY <2>1, <2>2, <2>3
  <2>5. \/ Wrong(direct) <=> Wrong(recorded)
        \/ \E i \in DOMAIN cols : Differs(info, cols[i], row[i])
    BY <2>1, <2>2, <2>3
  <2> QED BY <2>4, <2>5 DEF direct, recorded
<1> QED BY <1>1, <1>2

-----------------------------------------------------------------------------
(* Entries. *)

LEMMA FunctionIsSeq ==
  ASSUME NEW S, NEW n \in Nat, NEW f \in [1 .. n -> S]
  PROVE  f \in Seq(S) /\ Len(f) = n /\ DOMAIN f = 1 .. n
OBVIOUS

LEMMA Joined ==
  ASSUME NEW s \in Seq(Cells), NEW t \in Seq(Cells), NEW k \in Nat, k = Len(s)
  PROVE  /\ s \o t \in Seq(Cells) /\ Len(s \o t) = k + Len(t)
         /\ \A j \in 1 .. k : (s \o t)[j] = s[j]
         /\ \A j \in 1 .. Len(t) : (s \o t)[k + j] = t[j]
OBVIOUS

LEMMA Products ==
  ASSUME NEW a \in Nat, NEW b \in Nat, NEW n \in Nat
  PROVE  /\ a * n \in Nat /\ (a + 1) * n = a * n + n
         /\ a <= b => a * n <= b * n
<1>1. a * n \in Nat /\ (a + 1) * n = a * n + n
  OBVIOUS
<1>2. ASSUME a <= b PROVE a * n <= b * n
  <2>1. PICK d \in Nat : b = a + d
    BY <1>2, b - a \in Nat
  <2>2. b * n = a * n + d * n /\ d * n \in Nat
    BY <2>1
  <2> QED BY <1>1, <2>2
<1> QED BY <1>1, <1>2

(* m rows of n cells, one after the other. *)
Flat(flat, rows, m, n) ==
  /\ flat \in Seq(Cells) /\ Len(flat) = m * n
  /\ \A r \in 1 .. m : \A i \in 1 .. n : flat[(r - 1) * n + i] = rows[r][i]

LEMMA FlatGrows ==
  ASSUME NEW rows \in Seq(Seq(Cells)), NEW n \in Nat, \A r \in DOMAIN rows : Len(rows[r]) = n,
         NEW m \in Nat, m + 1 <= Len(rows), NEW flat, Flat(flat, rows, m, n)
  PROVE  Flat(flat \o rows[m + 1], rows, m + 1, n)
<1> DEFINE row == rows[m + 1]
           more == flat \o row
<1>1. row \in Seq(Cells) /\ Len(row) = n
  BY m + 1 \in DOMAIN rows
<1>2. flat \in Seq(Cells) /\ Len(flat) = m * n /\ m * n \in Nat /\ (m + 1) * n = m * n + n
  BY Products DEF Flat
<1> HIDE DEF row
<1>3. /\ more \in Seq(Cells) /\ Len(more) = (m + 1) * n
      /\ \A k \in 1 .. m * n : more[k] = flat[k]
      /\ \A i \in 1 .. n : more[m * n + i] = row[i]
  <2> PICK k : k = m * n
    OBVIOUS
  <2>1. k \in Nat /\ k = Len(flat) /\ flat \in Seq(Cells) /\ (m + 1) * n = k + n
    BY <1>2
  <2>2. /\ more \in Seq(Cells) /\ Len(more) = k + n
        /\ \A j \in 1 .. k : more[j] = flat[j]
        /\ \A j \in 1 .. n : more[k + j] = row[j]
    <3>1. /\ more \in Seq(Cells) /\ Len(more) = k + Len(row)
          /\ \A j \in 1 .. k : more[j] = flat[j]
          /\ \A j \in 1 .. Len(row) : more[k + j] = row[j]
      BY <1>1, <2>1, Joined
    <3> QED BY <1>1, <3>1
  <2> HIDE DEF more
  <2> QED BY <2>1, <2>2
<1> HIDE DEF more
<1>4. ASSUME NEW r \in 1 .. m + 1, NEW i \in 1 .. n
      PROVE  more[(r - 1) * n + i] = rows[r][i]
  <2>1. CASE r = m + 1
    <3>1. (r - 1) * n = m * n
      BY <2>1
    <3> QED BY <1>3, <2>1, <3>1 DEF row
  <2>2. CASE r \in 1 .. m
    <3>1. r - 1 \in Nat /\ r \in Nat /\ r - 1 + 1 = r /\ r <= m
      BY <2>2
    <3>2. (r - 1) * n \in Nat /\ r * n = (r - 1) * n + n /\ r * n <= m * n
      BY <3>1, Products
    <3>3. (r - 1) * n + i \in 1 .. m * n
      <4>0. PICK a, b, c : a = (r - 1) * n /\ b = r * n /\ c = m * n
        OBVIOUS
      <4>1. a \in Nat /\ c \in Nat /\ b = a + n /\ b <= c
        BY <1>2, <3>2, <4>0
      <4>2. a + i \in 1 .. c
        BY <4>1
      <4> QED BY <4>0, <4>2, Zenon
    <3>4. flat[(r - 1) * n + i] = rows[r][i]
      BY <2>2 DEF Flat
    <3> QED BY <1>3, <3>3, <3>4
  <2> QED BY <2>1, <2>2
<1> QED BY <1>3, <1>4 DEF Flat, more, row

(* What FlattenSeq makes of rows of one length. *)
LEMMA FlattenIs ==
  ASSUME NEW rows \in Seq(Seq(Cells)), NEW n \in Nat, \A r \in DOMAIN rows : Len(rows[r]) = n
  PROVE  Flat(Codec!FlattenSeq(rows), rows, Len(rows), n)
<1> DEFINE m == Len(rows)
           Rule(f) == f = [k \in 1 .. m |-> IF k = 1 THEN rows[k] ELSE f[k - 1] \o rows[k]]
           flatten == CHOOSE f : Rule(f)
<1>1. m \in Nat /\ DOMAIN rows = 1 .. m /\ \A k \in 1 .. m : rows[k] \in Seq(Cells)
  OBVIOUS
<1>2. CASE m = 0
  <2>1. Codec!FlattenSeq(rows) = <<>> /\ 0 * n = 0
    BY <1>2 DEF Codec!FlattenSeq
  <2> QED BY <1>2, <2>1 DEF Flat
<1>3. CASE m # 0
  <2>1. Codec!FlattenSeq(rows) = flatten[m]
    BY <1>3 DEF Codec!FlattenSeq
  <2>2. \E f : Rule(f)
    <3> DEFINE step == [k \in 1 .. m - 1 |-> [s \in Seq(Cells) |-> s \o rows[k + 1]]]
    <3>1. step \in [1 .. m - 1 -> [Seq(Cells) -> Seq(Cells)]]
      <4>1. ASSUME NEW k \in 1 .. m - 1, NEW s \in Seq(Cells) PROVE s \o rows[k + 1] \in Seq(Cells)
        <5>1. rows[k + 1] \in Seq(Cells)
          BY <1>1
        <5> QED BY <5>1
      <4> QED BY <4>1
    <3>2. m - 1 \in Nat /\ rows[1] \in Seq(Cells)
      BY <1>1, <1>3
    <3> HIDE DEF step
    <3>3. PICK g \in [0 .. m - 1 -> Seq(Cells)] : Follows(g, m - 1, rows[1], step)
      BY <3>1, <3>2, RecursionExists
    <3> DEFINE f == [k \in 1 .. m |-> g[k - 1]]
    <3>4. ASSUME NEW k \in 1 .. m
          PROVE  f[k] = IF k = 1 THEN rows[k] ELSE f[k - 1] \o rows[k]
      <4>1. CASE k = 1
        BY <1>1, <3>3, <4>1 DEF Follows
      <4>2. CASE k # 1
        <5>1. k - 1 \in 1 .. m - 1 /\ k - 1 \in 1 .. m /\ k - 1 - 1 \in 0 .. m - 1 /\ k - 1 + 1 = k
          BY <1>1, <4>2
        <5>2. f[k] = g[k - 1] /\ f[k - 1] = g[k - 1 - 1]
          BY <5>1
        <5>3. g[k - 1] = step[k - 1][g[k - 1 - 1]] /\ g[k - 1 - 1] \in Seq(Cells)
          BY <3>3, <5>1 DEF Follows
        <5>4. step[k - 1][g[k - 1 - 1]] = g[k - 1 - 1] \o rows[k]
          BY <5>1, <5>3 DEF step
        <5> QED BY <4>2, <5>2, <5>3, <5>4
      <4> QED BY <4>1, <4>2
    <3>5. Rule(f)
      BY <3>4
    <3> QED BY <3>5
  <2>3. Rule(flatten)
    BY <2>2, Zenon
  <2> HIDE DEF flatten
  <2> DEFINE Bad == {k \in 1 .. m : ~Flat(flatten[k], rows, k, n)}
  <2>4. Bad = {}
    <3> SUFFICES ASSUME Bad # {} PROVE FALSE
      OBVIOUS
    <3>1. PICK k \in Bad : \A j \in Bad : k <= j
      <4>1. Bad \in SUBSET Nat
        OBVIOUS
      <4> HIDE DEF Bad
      <4> QED BY <4>1, LeastNumber
    <3>2. CASE k = 1
      <4>1. flatten[1] = rows[1] /\ rows[1] \in Seq(Cells) /\ Len(rows[1]) = n
        BY <1>1, <2>3, <3>1, <3>2
      <4>2. \A i \in 1 .. n : (1 - 1) * n + i = i
        OBVIOUS
      <4>3. Flat(flatten[1], rows, 1, n)
        BY <4>1, <4>2, 1 * n = n DEF Flat
      <4> QED BY <3>1, <3>2, <4>3
    <3>3. CASE k # 1
      <4> PICK j \in Nat : j = k - 1
        BY <3>1
      <4>1. j \in 1 .. m /\ j \notin Bad /\ j + 1 = k /\ k \in 1 .. m
        BY <3>1, <3>3
      <4>2. Flat(flatten[j], rows, j, n)
        BY <4>1
      <4>3. flatten[k] = flatten[j] \o rows[j + 1]
        BY <2>3, <3>3, <4>1
      <4>4. Flat(flatten[j] \o rows[j + 1], rows, j + 1, n)
        <5> PICK flat : flat = flatten[j]
          OBVIOUS
        <5>1. j + 1 <= Len(rows) /\ Flat(flat, rows, j, n)
          BY <1>1, <4>1, <4>2
        <5> QED BY <5>1, FlatGrows
      <4> QED BY <3>1, <4>1, <4>3, <4>4
    <3> QED BY <3>2, <3>3
  <2>5. Flat(flatten[m], rows, m, n)
    BY <1>1, <1>3, <2>4
  <2> QED BY <2>1, <2>5
<1> QED BY <1>2, <1>3

Tokens == Nat \cup STRING \cup Cells

(* The place of a cell in an entry of n columns. *)
Spot(n, r, i) == 2 + n + (r - 1) * n + i

LEMMA Spots ==
  ASSUME NEW n \in Nat, NEW q \in Nat \ {0}, NEW j \in 1 .. n, NEW r \in Nat \ {0}, NEW i \in 1 .. n
  PROVE  /\ Spot(n, r, i) \in Nat /\ 2 + n < Spot(n, r, i)
         /\ Spot(n, q, j) <= Spot(n, r, i) => q <= r
         /\ Spot(n, q, j) = Spot(n, r, i) => q = r /\ j = i
         /\ \A m \in Nat : r <= m => Spot(n, r, i) <= 2 + n + m * n
<1>0. PICK a, b \in Nat : a = q - 1 /\ b = r - 1
  OBVIOUS
<1>1. PICK x, y \in Nat : x = a * n /\ y = b * n
  BY <1>0, Products
<1>2. Spot(n, q, j) = 2 + n + x + j /\ Spot(n, r, i) = 2 + n + y + i
  BY <1>0, <1>1 DEF Spot
<1>3. a + 1 <= b => x + n <= y
  <2>1. (a + 1) * n = x + n
    BY <1>1, Products
  <2>2. a + 1 <= b => (a + 1) * n <= b * n
    BY a + 1 \in Nat, Products
  <2> QED BY <1>1, <2>1, <2>2
<1>4. b + 1 <= a => y + n <= x
  <2>1. (b + 1) * n = y + n
    BY <1>1, Products
  <2>2. b + 1 <= a => (b + 1) * n <= a * n
    BY b + 1 \in Nat, Products
  <2> QED BY <1>1, <2>1, <2>2
<1>5. ASSUME NEW m \in Nat, r <= m PROVE y + n <= m * n
  <2>1. (b + 1) * n = y + n
    BY <1>1, Products
  <2>2. b + 1 \in Nat /\ b + 1 <= m
    BY <1>0, <1>5
  <2>3. (b + 1) * n <= m * n
    BY <2>2, Products
  <2> QED BY <2>1, <2>3
<1>6. ASSUME NEW m \in Nat, r <= m PROVE Spot(n, r, i) <= 2 + n + m * n
  <2>1. PICK z \in Nat : z = m * n
    BY Products
  <2>2. y + n <= z
    BY <1>5, <1>6, <2>1
  <2>3. 2 + n + y + i <= 2 + n + z
    BY <2>2
  <2> QED BY <1>2, <2>1, <2>3
<1>7. a = b => x = y
  BY <1>1
<1>8. /\ Spot(n, r, i) \in Nat /\ 2 + n < Spot(n, r, i)
      /\ Spot(n, q, j) <= Spot(n, r, i) => a <= b
      /\ Spot(n, q, j) = Spot(n, r, i) => a = b /\ j = i
  BY <1>2, <1>3, <1>4, <1>7
<1> QED BY <1>0, <1>6, <1>8

(* The database had a []byte at place k or before. *)
BytesUpTo(res, k) ==
  \E q \in DOMAIN res.rows : \E j \in DOMAIN res.cols :
    res.rows[q][j].k = "bytes" /\ Spot(Len(res.cols), q, j) <= k

(* A cell at place k is the one of the database, d, unless a caller may    *)
(* have written to it.                                                     *)
Sound(res, written, c, d, k) == c \in Cells /\ (c = d \/ (written /\ BytesUpTo(res, k)))

(* An entry of the first m rows.  A caller that appends to its slice may   *)
(* have cut it.                                                            *)
Laid(res, written, data, m) ==
  LET n == Len(res.cols)
  IN  /\ data \in Seq(Tokens) /\ 2 + n <= Len(data)
      /\ data[1] = n /\ data[2 + n] = m
      /\ \A i \in 1 .. n : data[1 + i] = res.cols[i]
      /\ m \in 0 .. Len(res.rows) /\ (m = 0 => Len(res.rows) = 0)
      /\ Len(data) = 2 + n + m * n =>
           \A r \in 1 .. m : \A i \in 1 .. n :
             Sound(res, written, data[Spot(n, r, i)], res.rows[r][i], Spot(n, r, i))

(* What a hit reads. *)
Replayed(res, written, data, m, source) ==
  LET n == Len(res.cols)
  IN  /\ source.cols = res.cols
      /\ source.rows \in Seq(Seq(Cells)) /\ Len(source.rows) = m
      /\ \A r \in 1 .. m : Len(source.rows[r]) = n
      /\ \A r \in 1 .. m : \A i \in 1 .. n :
           /\ Sound(res, written, source.rows[r][i], Reads(res.rows[r][i]), Spot(n, r, i))
           /\ source.rows[r][i].k = "bytes" /\ Len(data) = 2 + n + m * n =>
                data[Spot(n, r, i)].k = "bytes"

LEMMA ResultShape ==
  ASSUME NEW res \in Results
  PROVE  /\ res.cols \in Seq(STRING) /\ Len(res.cols) \in Nat /\ DOMAIN res.cols = 1 .. Len(res.cols)
         /\ res.rows \in Seq(Seq(Cells)) /\ Len(res.rows) \in Nat /\ DOMAIN res.rows = 1 .. Len(res.rows)
         /\ \A r \in DOMAIN res.rows :
              /\ res.rows[r] \in Seq(Cells) /\ Len(res.rows[r]) = Len(res.cols)
              /\ \A i \in 1 .. Len(res.cols) : res.rows[r][i] \in Cells
<1>1. /\ res.cols \in Seq(STRING) /\ res.rows \in Seq(Seq(Cells))
      /\ \A r \in DOMAIN res.rows : Len(res.rows[r]) = Len(res.cols)
  BY ResultsAssumption
<1>2. ASSUME NEW r \in DOMAIN res.rows
      PROVE  /\ res.rows[r] \in Seq(Cells)
             /\ \A i \in 1 .. Len(res.cols) : res.rows[r][i] \in Cells
  <2>1. res.rows[r] \in Seq(Cells) /\ Len(res.rows[r]) = Len(res.cols)
    BY <1>1
  <2> QED BY <2>1
<1> QED BY <1>1, <1>2

LEMMA JoinedTokens ==
  ASSUME NEW s \in Seq(Tokens), NEW t \in Seq(Tokens), NEW k \in Nat, k = Len(s)
  PROVE  /\ s \o t \in Seq(Tokens) /\ Len(s \o t) = k + Len(t)
         /\ \A j \in 1 .. k : (s \o t)[j] = s[j]
         /\ \A j \in 1 .. Len(t) : (s \o t)[k + j] = t[j]
OBVIOUS

(* A header of names and the number of rows, and the cells. *)
Headed(data, n, m, names, flat) ==
  /\ data \in Seq(Tokens) /\ Len(data) = 2 + n + Len(flat)
  /\ data[1] = n /\ data[2 + n] = m
  /\ \A i \in 1 .. n : data[1 + i] = names[i]
  /\ \A k \in 1 .. Len(flat) : data[2 + n + k] = flat[k]

LEMMA Header ==
  ASSUME NEW n \in Nat, NEW m \in Nat, NEW names \in Seq(Tokens), Len(names) = n,
         NEW flat \in Seq(Tokens)
  PROVE  Headed(<<n>> \o names \o <<m>> \o flat, n, m, names, flat)
<1> PICK width, height, data : /\ width = <<n>> /\ height = <<m>>
                               /\ data = width \o names \o height \o flat
  OBVIOUS
<1>1. width \in Seq(Tokens) /\ height \in Seq(Tokens)
  BY DEF Tokens
<1>2. PICK c : c = width \o names
  OBVIOUS
<1>3. /\ c \in Seq(Tokens) /\ Len(c) = 1 + n
      /\ c[1] = n /\ \A i \in 1 .. n : c[1 + i] = names[i]
  BY <1>1, <1>2
<1>4. PICK d : d = c \o height
  OBVIOUS
<1>5. /\ d \in Seq(Tokens) /\ Len(d) = 2 + n
      /\ d[2 + n] = m /\ \A k \in 1 .. 1 + n : d[k] = c[k]
  BY <1>1, <1>3, <1>4
<1>6. d[1] = n /\ \A i \in 1 .. n : d[1 + i] = names[i]
  BY <1>3, <1>5
<1>7. data = d \o flat
  BY <1>2, <1>4
<1>8. /\ data \in Seq(Tokens) /\ Len(data) = 2 + n + Len(flat)
      /\ \A k \in 1 .. 2 + n : data[k] = d[k]
      /\ \A k \in 1 .. Len(flat) : data[2 + n + k] = flat[k]
  <2> PICK k : k = 2 + n
    OBVIOUS
  <2>1. k \in Nat /\ d \in Seq(Tokens) /\ k = Len(d)
    BY <1>5
  <2>2. /\ d \o flat \in Seq(Tokens) /\ Len(d \o flat) = k + Len(flat)
        /\ \A j \in 1 .. k : (d \o flat)[j] = d[j]
        /\ \A j \in 1 .. Len(flat) : (d \o flat)[k + j] = flat[j]
    BY <2>1, JoinedTokens
  <2> QED BY <1>7, <2>2
<1>9. data[1] = n /\ data[2 + n] = m /\ \A i \in 1 .. n : data[1 + i] = names[i]
  <2>1. 1 \in 1 .. 2 + n /\ 2 + n \in 1 .. 2 + n /\ \A i \in 1 .. n : 1 + i \in 1 .. 2 + n
    OBVIOUS
  <2>2. \A k \in 1 .. 2 + n : data[k] = d[k]
    BY <1>8
  <2>3. data[1] = d[1] /\ data[2 + n] = d[2 + n] /\ \A i \in 1 .. n : data[1 + i] = d[1 + i]
    BY <2>1, <2>2, Zenon
  <2> QED BY <1>5, <1>6, <2>3, Zenon
<1> QED BY <1>8, <1>9 DEF Headed

(* What is encoded is laid out. *)
LEMMA EncodedIsLaid ==
  ASSUME NEW res \in Results, NEW m \in 0 .. Len(res.rows), m = 0 => Len(res.rows) = 0,
         NEW data, data = Codec!Encode(res.cols, SubSeq(res.rows, 1, m)), data # NoEntry,
         NEW written \in BOOLEAN
  PROVE  Laid(res, written, data, m)
<1>0. PICK n, some : n = Len(res.cols) /\ some = SubSeq(res.rows, 1, m)
  OBVIOUS
<1>1. /\ res.cols \in Seq(STRING) /\ n \in Nat /\ res.rows \in Seq(Seq(Cells)) /\ m \in Nat
      /\ \A r \in 1 .. Len(res.rows) : Len(res.rows[r]) = n
      /\ \A r \in 1 .. Len(res.rows) : \A i \in 1 .. n : res.rows[r][i] \in Cells
  BY <1>0, ResultShape
<1>2. /\ some \in Seq(Seq(Cells)) /\ Len(some) = m /\ DOMAIN some = 1 .. m
      /\ \A r \in 1 .. m : some[r] = res.rows[r]
  BY <1>0, <1>1
<1>9. PICK flat : flat = Codec!FlattenSeq(some)
  OBVIOUS
<1>3. data = <<n>> \o res.cols \o <<m>> \o flat
  BY <1>0, <1>2, <1>9 DEF Codec!Encode
<1>4. Flat(flat, some, m, n)
  <2>1. \A r \in DOMAIN some : Len(some[r]) = n
    BY <1>1, <1>2, \A r \in 1 .. m : r \in 1 .. Len(res.rows)
  <2>2. Flat(Codec!FlattenSeq(some), some, Len(some), n)
    BY <1>1, <1>2, <2>1, FlattenIs
  <2> QED BY <1>2, <1>9, <2>2
<1>5. flat \in Seq(Cells) /\ Len(flat) = m * n
  BY <1>4 DEF Flat
<1>6. /\ data \in Seq(Tokens) /\ Len(data) = 2 + n + Len(flat)
      /\ data[1] = n /\ data[2 + n] = m
      /\ \A i \in 1 .. n : data[1 + i] = res.cols[i]
      /\ \A k \in 1 .. Len(flat) : data[2 + n + k] = flat[k]
  <2>1. res.cols \in Seq(Tokens) /\ flat \in Seq(Tokens)
    BY <1>1, <1>5 DEF Tokens
  <2>2. PICK names : names = res.cols
    OBVIOUS
  <2>3. names \in Seq(Tokens) /\ Len(names) = n /\ data = <<n>> \o names \o <<m>> \o flat
    BY <1>0, <1>3, <2>1, <2>2
  <2>4. Headed(<<n>> \o names \o <<m>> \o flat, n, m, names, flat)
    BY <1>1, <2>1, <2>3, Header, Zenon
  <2>5. Headed(data, n, m, names, flat)
    BY <2>3, <2>4, Zenon
  <2> QED BY <2>2, <2>5 DEF Headed
<1>7. ASSUME NEW r \in 1 .. m, NEW i \in 1 .. n
      PROVE  data[Spot(n, r, i)] = res.rows[r][i]
  <2>1. flat[(r - 1) * n + i] = res.rows[r][i]
    BY <1>2, <1>4 DEF Flat
  <2>2. r \in Nat \ {0} /\ r <= m
    OBVIOUS
  <2>3. 2 + n < Spot(n, r, i) /\ Spot(n, r, i) <= 2 + n + m * n
    BY <1>1, <2>2, Spots
  <2>9. PICK y \in Nat : y = (r - 1) * n
    BY <1>1, <2>2, r - 1 \in Nat, Products
  <2>4. PICK k \in Nat : k = y + i
    OBVIOUS
  <2>5. PICK l \in Nat : l = m * n
    BY <1>1, Products
  <2>6. Spot(n, r, i) = 2 + n + k /\ (r - 1) * n + i = k
    BY <1>1, <2>9, <2>4 DEF Spot
  <2>7. k \in 1 .. l
    BY <1>1, <2>3, <2>5, <2>6
  <2>8. data[2 + n + k] = flat[k]
    BY <1>5, <1>6, <2>5, <2>7
  <2> QED BY <2>1, <2>6, <2>8
<1>8. \A r \in 1 .. m : \A i \in 1 .. n :
        Sound(res, written, data[Spot(n, r, i)], res.rows[r][i], Spot(n, r, i))
  <2> SUFFICES ASSUME NEW r \in 1 .. m, NEW i \in 1 .. n
               PROVE  Sound(res, written, data[Spot(n, r, i)], res.rows[r][i], Spot(n, r, i))
    OBVIOUS
  <2>1. data[Spot(n, r, i)] = res.rows[r][i] /\ res.rows[r][i] \in Cells
    BY <1>1, <1>7
  <2> QED BY <2>1 DEF Sound
<1> QED BY <1>0, <1>1, <1>5, <1>6, <1>8 DEF Laid

LEMMA ReadBack ==
  ASSUME NEW c \in Cells
  PROVE  Reads(c) \in Cells /\ Reads(c).k = c.k
<1>1. CASE c.of # "far"
  BY <1>1 DEF Reads
<1>2. CASE c.of = "far"
  <2>1. c.k = "time" /\ c.v \in Int
    BY <1>2 DEF Cells, Null, Cell
  <2>2. Reads(c) = [k |-> "time", of |-> "time", v |-> 0 - c.v]
    BY <1>2 DEF Reads, Cell
  <2>3. 0 - c.v \in Int
    BY <2>1
  <2> QED BY <2>1, <2>2, <2>3 DEF Cells
<1> QED BY <1>1, <1>2

LEMMA CutColumns ==
  ASSUME NEW data \in Seq(Tokens), NEW cols \in Seq(STRING), NEW n \in Nat, n = Len(cols),
         1 + n <= Len(data), \A i \in 1 .. n : data[1 + i] = cols[i]
  PROVE  SubSeq(data, 2, 1 + n) = cols
<1> PICK cut : cut = SubSeq(data, 2, 1 + n)
  OBVIOUS
<1>1. cut \in Seq(Tokens) /\ Len(cut) = n /\ \A i \in 1 .. n : cut[i] = data[1 + i]
  <2>1. cut \in Seq(Tokens)
    OBVIOUS
  <2>2. Len(cut) = n /\ \A i \in 1 .. n : cut[i] = data[2 + i - 1]
    OBVIOUS
  <2>3. \A i \in 1 .. n : 2 + i - 1 = 1 + i
    OBVIOUS
  <2> QED BY <2>1, <2>2, <2>3
<1>2. Len(cut) = Len(cols) /\ \A i \in 1 .. Len(cols) : cut[i] = cols[i]
  BY <1>1
<1> HIDE DEF Tokens
<1> QED BY <1>1, <1>2

(* What an entry is decoded to. *)
LEMMA DecodedIs ==
  ASSUME NEW res \in Results, NEW written \in BOOLEAN, NEW data, NEW m, Laid(res, written, data, m),
         Codec!Decode(data) # NoEntry
  PROVE  LET n == Len(res.cols)
         IN  /\ Len(data) = 2 + n + m * n
             /\ Codec!Decode(data) =
                  [cols |-> res.cols,
                   rows |-> [r \in 1 .. m |-> [i \in 1 .. n |-> Reads(data[Spot(n, r, i)])]]]
             /\ \A r, i : Codec!Place(data, r, i) = Spot(n, r, i)
<1> PICK n : n = Len(res.cols)
  OBVIOUS
<1>1. res.cols \in Seq(STRING) /\ n \in Nat
  BY ResultShape
<1>2. /\ data \in Seq(Tokens) /\ 2 + n <= Len(data) /\ data[1] = n /\ data[2 + n] = m
      /\ \A i \in 1 .. n : data[1 + i] = res.cols[i]
  BY DEF Laid
<1>3. \A r, i : Codec!Place(data, r, i) = Spot(n, r, i)
  BY <1>2 DEF Codec!Place, Spot
<1>4. /\ Len(data) = 2 + n + m * n
      /\ Codec!Decode(data) =
           [cols |-> SubSeq(data, 2, 1 + n),
            rows |-> [r \in 1 .. m |-> [i \in 1 .. n |-> Reads(data[Codec!Place(data, r, i)])]]]
  BY <1>2 DEF Codec!Decode
<1>5. SubSeq(data, 2, 1 + n) = res.cols
  <2> PICK cols : cols = res.cols
    OBVIOUS
  <2>1. cols \in Seq(STRING) /\ n = Len(cols) /\ 1 + n <= Len(data)
        /\ \A i \in 1 .. n : data[1 + i] = cols[i]
    BY <1>1, <1>2
  <2>2. SubSeq(data, 2, 1 + n) = cols
    BY <1>1, <1>2, <2>1, CutColumns
  <2> QED BY <2>2
<1>6. [r \in 1 .. m |-> [i \in 1 .. n |-> Reads(data[Codec!Place(data, r, i)])]]
        = [r \in 1 .. m |-> [i \in 1 .. n |-> Reads(data[Spot(n, r, i)])]]
  BY <1>3
<1> QED BY <1>3, <1>4, <1>5, <1>6

(* A hit replays what is laid out. *)
LEMMA DecodedIsReplayed ==
  ASSUME NEW res \in Results, NEW written \in BOOLEAN, NEW data, NEW m, Laid(res, written, data, m),
         NEW source, source = Codec!Decode(data), source # NoEntry
  PROVE  Replayed(res, written, data, m, source)
<1> PICK n : n = Len(res.cols)
  OBVIOUS
<1>1. /\ Len(data) = 2 + n + m * n /\ source.cols = res.cols
      /\ source.rows = [r \in 1 .. m |-> [i \in 1 .. n |-> Reads(data[Spot(n, r, i)])]]
  <2>1. Codec!Decode(data) # NoEntry
    OBVIOUS
  <2>2. /\ Len(data) = 2 + n + m * n
        /\ Codec!Decode(data) =
             [cols |-> res.cols,
              rows |-> [r \in 1 .. m |-> [i \in 1 .. n |-> Reads(data[Spot(n, r, i)])]]]
    BY <2>1, DecodedIs
  <2> QED BY <2>2
<1>2. n \in Nat /\ m \in Nat
  <2>1. Len(res.rows) \in Nat /\ n \in Nat
    BY ResultShape
  <2> QED BY <2>1 DEF Laid
<1>3. ASSUME NEW r \in 1 .. m, NEW i \in 1 .. n
      PROVE  /\ Sound(res, written, Reads(data[Spot(n, r, i)]), Reads(res.rows[r][i]), Spot(n, r, i))
             /\ Reads(data[Spot(n, r, i)]).k = "bytes" => data[Spot(n, r, i)].k = "bytes"
  <2>1. Sound(res, written, data[Spot(n, r, i)], res.rows[r][i], Spot(n, r, i))
    BY <1>1 DEF Laid
  <2> QED BY <2>1, ReadBack DEF Sound
<1> PICK rows : rows = source.rows
  OBVIOUS
<1> DEFINE row(r) == [i \in 1 .. n |-> Reads(data[Spot(n, r, i)])]
<1>4. ASSUME NEW r \in 1 .. m
      PROVE  row(r) \in Seq(Cells) /\ Len(row(r)) = n
  <2>1. \A i \in 1 .. n : Reads(data[Spot(n, r, i)]) \in Cells
    BY <1>3 DEF Sound
  <2>2. row(r) \in [1 .. n -> Cells]
    BY <2>1
  <2> HIDE DEF row
  <2> QED BY <1>2, <2>2, FunctionIsSeq
<1>5. rows = [r \in 1 .. m |-> row(r)]
  BY <1>1
<1>6. rows \in Seq(Seq(Cells)) /\ Len(rows) = m
  <2>1. rows \in [1 .. m -> Seq(Cells)]
    BY <1>4, <1>5
  <2> QED BY <1>2, <2>1, FunctionIsSeq
<1>7. \A r \in 1 .. m : Len(rows[r]) = n
  BY <1>4, <1>5
<1>8. \A r \in 1 .. m : \A i \in 1 .. n :
        /\ Sound(res, written, rows[r][i], Reads(res.rows[r][i]), Spot(n, r, i))
        /\ rows[r][i].k = "bytes" /\ Len(data) = 2 + n + m * n => data[Spot(n, r, i)].k = "bytes"
  BY <1>3, <1>5
<1> QED BY <1>1, <1>6, <1>7, <1>8 DEF Replayed

LEMMA ReplacedToken ==
  ASSUME NEW s \in Seq(Tokens), NEW l \in Nat, l = Len(s), NEW at \in 1 .. l, NEW x \in Tokens
  PROVE  LET new == [s EXCEPT ![at] = x]
         IN  new \in Seq(Tokens) /\ Len(new) = l /\ \A k \in 1 .. l : new[k] = s[k] \/ (k = at /\ new[k] = x)
<1> HIDE DEF Tokens
<1> QED OBVIOUS

(* What the caller of a hit writes. *)
Word == Cell("bytes", "word", 9)

LEMMA WordIsCell == Word \in Cells /\ Word.k = "bytes"
BY DEF Word, Cell, Cells, Texts

LEMMA FurtherBytes ==
  ASSUME NEW res \in Results, NEW k \in Nat, NEW l \in Nat, k <= l, BytesUpTo(res, k)
  PROVE  BytesUpTo(res, l)
<1> PICK n : n = Len(res.cols)
  OBVIOUS
<1>1. PICK q \in DOMAIN res.rows : \E j \in DOMAIN res.cols :
        res.rows[q][j].k = "bytes" /\ Spot(n, q, j) <= k
  BY DEF BytesUpTo
<1>2. PICK j \in DOMAIN res.cols : res.rows[q][j].k = "bytes" /\ Spot(n, q, j) <= k
  BY <1>1
<1>3. Spot(n, q, j) \in Nat
  <2>1. n \in Nat /\ q \in Nat \ {0} /\ j \in 1 .. n
    BY ResultShape
  <2> QED BY <2>1, Spots
<1>4. Spot(n, q, j) <= l
  BY <1>2, <1>3
<1> QED BY <1>2, <1>4 DEF BytesUpTo

(* Bytes at a place may be those of the database, or come after such. *)
LEMMA BytesAreSomewhere ==
  ASSUME NEW res \in Results, NEW written \in BOOLEAN, NEW r \in DOMAIN res.rows, NEW i \in DOMAIN res.cols,
         NEW c, c.k = "bytes", Sound(res, written, c, res.rows[r][i], Spot(Len(res.cols), r, i))
  PROVE  BytesUpTo(res, Spot(Len(res.cols), r, i))
<1> PICK k : k = Spot(Len(res.cols), r, i)
  OBVIOUS
<1>1. k \in Nat
  <2>1. Len(res.cols) \in Nat /\ r \in Nat \ {0} /\ i \in 1 .. Len(res.cols)
    BY ResultShape
  <2> QED BY <2>1, Spots
<1>2. CASE c = res.rows[r][i]
  <2>1. res.rows[r][i].k = "bytes" /\ Spot(Len(res.cols), r, i) <= k
    BY <1>1, <1>2
  <2> QED BY <2>1 DEF BytesUpTo
<1>3. CASE BytesUpTo(res, k)
  BY <1>3
<1> QED BY <1>2, <1>3 DEF Sound

(* The entry keeps its length, and is another from a place on at which, or *)
(* before which, the database has bytes.                                   *)
LEMMA RewritingKeeps ==
  ASSUME NEW res \in Results, NEW written \in BOOLEAN, NEW data, NEW m, Laid(res, written, data, m),
         NEW at \in Nat, BytesUpTo(res, at), 2 + Len(res.cols) < at,
         NEW new \in Seq(Tokens), Len(new) = Len(data),
         \A k \in 1 .. Len(data) : new[k] = data[k] \/ (at <= k /\ new[k] = Word)
  PROVE  /\ Laid(res, TRUE, new, m)
         /\ \A source : Replayed(res, written, data, m, source) => Replayed(res, TRUE, new, m, source)
<1> PICK n : n = Len(res.cols)
  OBVIOUS
<1>1. /\ n \in Nat /\ data \in Seq(Tokens) /\ 2 + n <= Len(data) /\ data[1] = n /\ data[2 + n] = m
      /\ \A i \in 1 .. n : data[1 + i] = res.cols[i]
      /\ m \in Nat /\ m \in 0 .. Len(res.rows) /\ (m = 0 => Len(res.rows) = 0)
  <2>1. n \in Nat /\ Len(res.rows) \in Nat
    BY ResultShape
  <2>2. /\ data \in Seq(Tokens) /\ 2 + n <= Len(data) /\ data[1] = n /\ data[2 + n] = m
        /\ \A i \in 1 .. n : data[1 + i] = res.cols[i]
        /\ m \in 0 .. Len(res.rows) /\ (m = 0 => Len(res.rows) = 0)
    BY DEF Laid
  <2> QED BY <2>1, <2>2
<1>2. PICK l \in Nat : l = Len(data)
  BY <1>1
<1>3. \A k \in 1 .. 2 + n : new[k] = data[k]
  <2> SUFFICES ASSUME NEW k \in 1 .. 2 + n PROVE new[k] = data[k]
    OBVIOUS
  <2>1. k \in 1 .. l /\ ~(at <= k)
    BY <1>1, <1>2
  <2> QED BY <1>2, <2>1
<1>4. /\ 2 + n <= Len(new) /\ new[1] = n /\ new[2 + n] = m
      /\ \A i \in 1 .. n : new[1 + i] = res.cols[i]
  <2>1. 1 \in 1 .. 2 + n /\ 2 + n \in 1 .. 2 + n /\ \A i \in 1 .. n : 1 + i \in 1 .. 2 + n
    BY <1>1
  <2>2. new[1] = data[1] /\ new[2 + n] = data[2 + n] /\ \A i \in 1 .. n : new[1 + i] = data[1 + i]
    BY <1>3, <2>1, Zenon
  <2> QED BY <1>1, <2>2
<1>5. ASSUME l = 2 + n + m * n, NEW r \in 1 .. m, NEW i \in 1 .. n
      PROVE  \/ new[Spot(n, r, i)] = data[Spot(n, r, i)]
             \/ new[Spot(n, r, i)] = Word /\ BytesUpTo(res, Spot(n, r, i))
  <2> PICK k : k = Spot(n, r, i)
    OBVIOUS
  <2>1. k \in 1 .. l
    <3>1. n \in Nat /\ m \in Nat /\ r \in Nat \ {0} /\ i \in 1 .. n /\ r <= m
      BY <1>1
    <3>2. 2 + n < Spot(n, r, i) /\ Spot(n, r, i) <= 2 + n + m * n /\ Spot(n, r, i) \in Nat
      BY <3>1, Spots
    <3>3. k \in Nat /\ 2 + n < k /\ k <= l
      BY <1>5, <3>2
    <3> QED BY <1>1, <3>3
  <2>2. new[k] = data[k] \/ (at <= k /\ new[k] = Word)
    BY <1>2, <2>1
  <2>3. k \in Nat
    BY <2>1
  <2>4. at <= k => BytesUpTo(res, k)
    BY <2>3, FurtherBytes
  <2> QED BY <2>2, <2>4
<1>6. Laid(res, TRUE, new, m)
  <2>1. ASSUME l = 2 + n + m * n, NEW r \in 1 .. m, NEW i \in 1 .. n
        PROVE  Sound(res, TRUE, new[Spot(n, r, i)], res.rows[r][i], Spot(n, r, i))
    <3>1. Sound(res, written, data[Spot(n, r, i)], res.rows[r][i], Spot(n, r, i))
      BY <1>2, <2>1 DEF Laid
    <3> QED BY <1>5, <2>1, <3>1, WordIsCell DEF Sound
  <2> QED BY <1>1, <1>2, <1>4, <2>1 DEF Laid
<1>7. ASSUME NEW source, Replayed(res, written, data, m, source)
      PROVE  Replayed(res, TRUE, new, m, source)
  <2>1. /\ source.cols = res.cols /\ source.rows \in Seq(Seq(Cells)) /\ Len(source.rows) = m
        /\ \A r \in 1 .. m : Len(source.rows[r]) = n
    BY <1>7 DEF Replayed
  <2>2. ASSUME NEW r \in 1 .. m, NEW i \in 1 .. n
        PROVE  /\ Sound(res, TRUE, source.rows[r][i], Reads(res.rows[r][i]), Spot(n, r, i))
               /\ source.rows[r][i].k = "bytes" /\ Len(new) = 2 + n + m * n =>
                    new[Spot(n, r, i)].k = "bytes"
    <3>1. /\ Sound(res, written, source.rows[r][i], Reads(res.rows[r][i]), Spot(n, r, i))
          /\ source.rows[r][i].k = "bytes" /\ l = 2 + n + m * n => data[Spot(n, r, i)].k = "bytes"
      BY <1>2, <1>7 DEF Replayed
    <3>2. Sound(res, TRUE, source.rows[r][i], Reads(res.rows[r][i]), Spot(n, r, i))
      BY <3>1 DEF Sound
    <3>3. ASSUME source.rows[r][i].k = "bytes", l = 2 + n + m * n
          PROVE  new[Spot(n, r, i)].k = "bytes"
      BY <1>5, <3>1, <3>3, WordIsCell
    <3> QED BY <1>2, <3>2, <3>3
  <2> QED BY <2>1, <2>2 DEF Replayed
<1> QED BY <1>6, <1>7

(* The caller of a hit overwrites bytes that it was given, or appends to   *)
(* them.                                                                   *)
LEMMA OverwritingKeeps ==
  ASSUME NEW res \in Results, NEW written \in BOOLEAN, NEW data, NEW m, Laid(res, written, data, m),
         Codec!Decode(data) # NoEntry, NEW source, Replayed(res, written, data, m, source),
         NEW r \in 1 .. m, NEW i \in 1 .. Len(res.cols), source.rows[r][i].k = "bytes",
         NEW new, new \in Overwritten(data, Codec!Place(data, r, i))
  PROVE  Laid(res, TRUE, new, m) /\ Replayed(res, TRUE, new, m, source)
<1> PICK n, at : n = Len(res.cols) /\ at = Spot(n, r, i)
  OBVIOUS
<1>1. /\ n \in Nat /\ data \in Seq(Tokens) /\ m \in Nat /\ m \in 0 .. Len(res.rows)
      /\ DOMAIN res.cols = 1 .. n /\ DOMAIN res.rows = 1 .. Len(res.rows) /\ Len(res.rows) \in Nat
  BY ResultShape DEF Laid
<1>2. Len(data) = 2 + n + m * n /\ Codec!Place(data, r, i) = at
  BY DecodedIs
<1>3. PICK l \in Nat : l = Len(data)
  BY <1>1
<1>4. at \in Nat /\ 2 + n < at /\ at <= l
  <2>1. r \in Nat \ {0} /\ r <= m
    BY <1>1
  <2>2. at \in Nat /\ 2 + n < at /\ at <= 2 + n + m * n
    BY <1>1, <2>1, Spots
  <2> QED BY <1>2, <1>3, <2>2
<1>5. data[at].k = "bytes" /\ Sound(res, written, data[at], res.rows[r][i], at)
  <2>1. source.rows[r][i].k = "bytes" /\ Len(data) = 2 + n + m * n => data[Spot(n, r, i)].k = "bytes"
    BY DEF Replayed
  <2>2. Sound(res, written, data[Spot(n, r, i)], res.rows[r][i], Spot(n, r, i))
    BY <1>2 DEF Laid
  <2> QED BY <1>2, <2>1, <2>2
<1>6. BytesUpTo(res, at)
  <2>1. r \in DOMAIN res.rows /\ i \in DOMAIN res.cols
    BY <1>1
  <2> QED BY <1>5, <2>1, BytesAreSomewhere
<1>7. ASSUME new \in Seq(Tokens), Len(new) = l,
             \A k \in 1 .. l : new[k] = data[k] \/ (at <= k /\ new[k] = Word)
      PROVE  Laid(res, TRUE, new, m) /\ Replayed(res, TRUE, new, m, source)
  BY <1>3, <1>4, <1>6, <1>7, RewritingKeeps
<1>8. CASE new = [data EXCEPT ![at].of = "word", ![at].v = 9]
  <2>1. data[at] \in Cells /\ data[at].k = "bytes"
    BY <1>5 DEF Sound
  <2>2. [[data[at] EXCEPT !.of = "word"] EXCEPT !.v = 9] = Word
    <3> PICK c : c = data[at]
      OBVIOUS
    <3>1. c \in [k : Texts, of : {"int", "half", "bool", "time", "word"}, v : Int] /\ c.k = "bytes"
      BY <2>1 DEF Cells, Null, Cell, Floats
    <3>2. [[c EXCEPT !.of = "word"] EXCEPT !.v = 9] = [k |-> "bytes", of |-> "word", v |-> 9]
      <4>1. PICK of, v : c = [k |-> "bytes", of |-> of, v |-> v]
        BY <3>1
      <4>2. [c EXCEPT !.of = "word"] = [k |-> "bytes", of |-> "word", v |-> v]
        BY <4>1
      <4>3. [[k |-> "bytes", of |-> "word", v |-> v] EXCEPT !.v = 9] = [k |-> "bytes", of |-> "word", v |-> 9]
        OBVIOUS
      <4> QED BY <4>2, <4>3
    <3> QED BY <3>2 DEF Word, Cell
  <2>3. new = [data EXCEPT ![at] = Word]
    <3>1. at \in DOMAIN data
      BY <1>1, <1>3, <1>4
    <3>2. new = [data EXCEPT ![at] = [[data[at] EXCEPT !.of = "word"] EXCEPT !.v = 9]]
      BY <1>8, <3>1
    <3> QED BY <2>2, <3>2
  <2>4. Word \in Tokens
    BY WordIsCell DEF Tokens
  <2>5. new \in Seq(Tokens) /\ Len(new) = l /\ \A k \in 1 .. l : new[k] = data[k] \/ (k = at /\ new[k] = Word)
    BY <1>1, <1>3, <1>4, <2>3, <2>4, ReplacedToken
  <2>6. \A k \in 1 .. l : k = at => at <= k
    BY <1>4
  <2> QED BY <1>7, <2>5, <2>6
<1>9. CASE at < l /\ new = [data EXCEPT ![at + 1] = Word]
  <2>1. Word \in Tokens
    BY WordIsCell DEF Tokens
  <2>2. new \in Seq(Tokens) /\ Len(new) = l /\ \A k \in 1 .. l : new[k] = data[k] \/ (k = at + 1 /\ new[k] = Word)
    BY <1>1, <1>3, <1>4, <1>9, <2>1, ReplacedToken
  <2>3. \A k \in 1 .. l : k = at + 1 => at <= k
    BY <1>4
  <2> QED BY <1>7, <2>2, <2>3
<1>10. CASE new = SubSeq(data, 1, at)
  <2>1. new \in Seq(Tokens) /\ Len(new) = at /\ \A k \in 1 .. at : new[k] = data[k]
    BY <1>1, <1>3, <1>4, <1>10
  <2>2. CASE at = l
    BY <1>7, <2>1, <2>2
  <2>3. CASE at # l
    <3>1. Len(new) # 2 + n + m * n
      BY <1>2, <1>3, <2>1, <2>3
    <3>2. /\ data[1] = n /\ data[2 + n] = m
          /\ \A j \in 1 .. n : data[1 + j] = res.cols[j]
          /\ (m = 0 => Len(res.rows) = 0)
      BY DEF Laid
    <3>3. 1 \in 1 .. at /\ 2 + n \in 1 .. at /\ \A j \in 1 .. n : 1 + j \in 1 .. at
      BY <1>1, <1>4
    <3>4. new[1] = data[1] /\ new[2 + n] = data[2 + n] /\ \A j \in 1 .. n : new[1 + j] = data[1 + j]
      BY <2>1, <3>3, Zenon
    <3>5. 2 + n <= Len(new)
      BY <1>1, <1>4, <2>1
    <3>6. Laid(res, TRUE, new, m)
      BY <1>1, <2>1, <3>1, <3>2, <3>4, <3>5 DEF Laid
    <3>7. Replayed(res, TRUE, new, m, source)
      <4>1. /\ source.cols = res.cols /\ source.rows \in Seq(Seq(Cells)) /\ Len(source.rows) = m
            /\ \A q \in 1 .. m : Len(source.rows[q]) = n
        BY DEF Replayed
      <4>2. \A q \in 1 .. m : \A j \in 1 .. n :
              Sound(res, TRUE, source.rows[q][j], Reads(res.rows[q][j]), Spot(n, q, j))
        BY DEF Replayed, Sound
      <4> QED BY <3>1, <4>1, <4>2 DEF Replayed
    <3> QED BY <3>6, <3>7
  <2> QED BY <2>2, <2>3
<1> QED BY <1>2, <1>3, <1>8, <1>9, <1>10 DEF Overwritten, Word

-----------------------------------------------------------------------------
(* What a read has given so far is what it makes of the rows of its source.*)
InfoNow ==
  IF read.target.shape = "struct" THEN Known(read.target.type, read.cfg) ELSE [ok |-> TRUE]
RowNow(r) ==
  scanOneValue(read.target, InfoNow, read.source.cols, read.source.rows[r], read.cfg,
               read.how # "direct")

GivenSoFar ==
  /\ read.how # "hit" => read.source = result
  /\ read.out \in Seq({RowNow(r) : r \in DOMAIN read.source.rows})
  /\ \A r \in DOMAIN read.out :
       r \in DOMAIN read.source.rows /\ read.out[r] = RowNow(r) /\ ~Wrong(read.out[r])
  /\ \A r : Refused(r) => r \in DOMAIN read.source.rows /\ Wrong(RowNow(r))

OutInv ==
  /\ result \in Results
  /\ read.at # "none" => GivenSoFar

(* In the entry, and in what a hit reads, each cell is at its place and is *)
(* that of the database, unless a caller has written to bytes before it.   *)
EntryInv == entry # NoEntry => \E m : Laid(result, touched, entry, m)
HitInv ==
  read.at # "none" /\ read.how = "hit" =>
    \E m : Laid(result, touched, entry, m) /\ Replayed(result, touched, entry, m, read.source)

CopyInv == touched \in BOOLEAN /\ EntryInv /\ HitInv

LEMMA ReadsInit == Init => OutInv /\ CopyInv
<1> SUFFICES ASSUME Init PROVE OutInv /\ CopyInv
  OBVIOUS
<1>1. result \in Results /\ entry = NoEntry /\ read.at = "none" /\ touched \in BOOLEAN
  BY DEF Init
<1> QED BY <1>1 DEF OutInv, CopyInv, EntryInv, HitInv

(* The rows that a read has in front of it. *)
LEMMA SourceRows ==
  ASSUME OutInv, CopyInv, read.at # "none"
  PROVE  /\ Len(read.source.rows) \in Nat /\ DOMAIN read.source.rows = 1 .. Len(read.source.rows)
         /\ Len(read.source.rows) <= Len(result.rows)
         /\ Len(read.source.rows) = 0 => Len(result.rows) = 0
         /\ Len(result.rows) \in Nat /\ DOMAIN result.rows = 1 .. Len(result.rows)
         /\ read.source.cols = result.cols
<1>1. Len(result.rows) \in Nat /\ DOMAIN result.rows = 1 .. Len(result.rows)
  BY ResultShape DEF OutInv
<1>2. CASE read.how # "hit"
  BY <1>1, <1>2 DEF OutInv, GivenSoFar
<1>3. CASE read.how = "hit"
  <2>1. PICK m : Laid(result, touched, entry, m) /\ Replayed(result, touched, entry, m, read.source)
    BY <1>3 DEF CopyInv, HitInv
  <2>2. m \in 0 .. Len(result.rows) /\ (m = 0 => Len(result.rows) = 0)
    BY <2>1 DEF Laid
  <2>3. /\ read.source.rows \in Seq(Seq(Cells)) /\ Len(read.source.rows) = m
        /\ read.source.cols = result.cols
    BY <2>1 DEF Replayed
  <2> QED BY <1>1, <2>2, <2>3
<1> QED BY <1>2, <1>3

(* Metadata that a read has learnt stays what the read knows. *)
LEMMA LearnsWhatItKnows ==
  ASSUME NEW s, NEW cfg, Learn(s, cfg)
  PROVE  Known(s, cfg)' = Known(s, cfg)
BY DEF Learn, Known

(* The code makes the same of a row as long as the build stays. *)
LEMMA SameConversion ==
  ASSUME UNCHANGED build, NEW CONSTANT t, NEW CONSTANT c, NEW CONSTANT cfg
  PROVE  /\ convertAssign(t, c, cfg)' = convertAssign(t, c, cfg)
         /\ Direct(t, c)' = Direct(t, c)
<1>1. \A kind, d : convertToInt(kind, d)' = convertToInt(kind, d)
  BY DEF convertToInt, Overflows, Unguarded
<1> QED BY <1>1 DEF convertAssign, builtinConvert, Direct

LEMMA SameColumn ==
  ASSUME UNCHANGED build, NEW CONSTANT info, NEW CONSTANT column, NEW CONSTANT c,
         NEW CONSTANT cfg, NEW CONSTANT recorded
  PROVE  ColumnValue(info, column, c, cfg, recorded)' = ColumnValue(info, column, c, cfg, recorded)
BY SameConversion DEF ColumnValue, FieldValue, assignFieldValue, unmarshalJSONField

LEMMA SameRow ==
  ASSUME UNCHANGED build, NEW CONSTANT target, NEW CONSTANT info, NEW CONSTANT cols,
         NEW CONSTANT row, NEW CONSTANT cfg, NEW CONSTANT recorded
  PROVE  scanOneValue(target, info, cols, row, cfg, recorded)'
           = scanOneValue(target, info, cols, row, cfg, recorded)
<1> DEFINE at(i) == lookupScan(info.fields, cols[i])
           fast(i) == ~info.fields[at(i)].json /\ canFastScan(info.fields[at(i)].type)
           values == [i \in DOMAIN cols |-> ColumnValue(info, cols[i], row[i], cfg, recorded)]
           turn == [i \in DOMAIN cols |->
                      IF recorded \/ at(i) = 0 \/ (fast(i) /\ values[i] = Panicked) THEN i
                      ELSE IF fast(i) THEN Len(cols) + i ELSE 2 * Len(cols) + i]
<1>1. values' = values
  BY SameColumn
<1>2. turn' = turn
  BY <1>1
<1>3. scanStructRow(info, cols, row, cfg, recorded)' = scanStructRow(info, cols, row, cfg, recorded)
  BY <1>1, <1>2 DEF scanStructRow
<1>4. setMapRow(target.type, cols, row, cfg)' = setMapRow(target.type, cols, row, cfg)
  BY SameConversion DEF setMapRow
<1>5. scanScalarRow(Pointee(target.type), cols, row, cfg)'
          = scanScalarRow(Pointee(target.type), cols, row, cfg)
  BY SameConversion DEF scanScalarRow
<1> QED BY <1>3, <1>4, <1>5 DEF scanOneValue

LEMMA SameRowNow ==
  ASSUME UNCHANGED build, InfoNow' = InfoNow, read'.source = read.source, read'.how = read.how,
         read'.target = read.target, read'.cfg = read.cfg, NEW CONSTANT r
  PROVE  RowNow(r)' = RowNow(r)
<1>1. \A target, info, cols, row, cfg, recorded :
        scanOneValue(target, info, cols, row, cfg, recorded)' = scanOneValue(target, info, cols, row, cfg, recorded)
  BY SameRow
<1>2. read'.source.cols = read.source.cols /\ read'.source.rows[r] = read.source.rows[r]
  OBVIOUS
<1> QED BY <1>1, <1>2, ZenonT(90) DEF RowNow

(* The next row of a read. *)
LEMMA OutRow ==
  ASSUME MetaInv, OutInv, CopyInv, ScanRow
  PROVE  /\ OutInv'
         /\ read'.at # "none" /\ read'.how = read.how /\ read'.source = read.source
         /\ UNCHANGED <<result, entry, touched>>
<1> DEFINE next == Len(read.out) + 1
           rows == {RowNow(r) : r \in DOMAIN read.source.rows}
<1>1. PICK call \in Calls(result) : ReadOf(call)
  BY DEF ScanRow, MetaInv, ReadInv
<1>2. /\ GivenSoFar /\ result \in Results /\ read.at = "rows"
      /\ UNCHANGED <<build, result, entry, touched>>
  BY DEF ScanRow, OutInv
<1>3. /\ read.out \in Seq(rows)
      /\ DOMAIN read.out = 1 .. Len(read.out) /\ Len(read.out) \in Nat
      /\ next \in DOMAIN read.source.rows
  <2>1. Len(read.source.rows) \in Nat /\ DOMAIN read.source.rows = 1 .. Len(read.source.rows)
    BY <1>2, SourceRows
  <2>2. read.out \in Seq(rows) /\ Len(read.out) < Len(read.source.rows)
    BY <1>2 DEF GivenSoFar, ScanRow, MoreRows
  <2> HIDE DEF rows
  <2> QED BY <2>1, <2>2
<1>4. /\ \/ read' = [read EXCEPT !.at = "failed"] /\ Wrong(RowNow(next))
         \/ read' = [read EXCEPT !.at = "panicked"] /\ Wrong(RowNow(next))
         \/ read' = [read EXCEPT !.out = Append(@, RowNow(next))] /\ ~Wrong(RowNow(next))
      /\ read.target.shape = "struct" => Learn(read.target.type, read.cfg)
      /\ read.target.shape # "struct" => UNCHANGED typeCache
  <2> DEFINE over == [read EXCEPT !.at = "failed"]
             lost == [read EXCEPT !.at = "panicked"]
             more == [read EXCEPT !.out = Append(@, RowNow(next))]
  <2>2. /\ read' = CASE RowNow(next) = <<Failed>> -> over
                     [] RowNow(next) = <<Panicked>> -> lost
                     [] OTHER -> more
        /\ read.target.shape = "struct" => Learn(read.target.type, read.cfg)
        /\ read.target.shape # "struct" => UNCHANGED typeCache
    BY Zenon DEF ScanRow, RowNow, InfoNow
  <2> HIDE DEF over, lost, more, next
  <2>3. <<Failed>> # <<Panicked>>
    BY DEF Failed, Panicked, Cell
  <2>4. \/ read' = over /\ RowNow(next) = <<Failed>>
        \/ read' = lost /\ RowNow(next) = <<Panicked>>
        \/ read' = more /\ RowNow(next) # <<Failed>> /\ RowNow(next) # <<Panicked>>
    BY <2>2, <2>3, Zenon
  <2> QED BY <2>2, <2>4 DEF Wrong, over, lost, more
<1>5. /\ read'.cfg = read.cfg /\ read'.target = read.target /\ read'.source = read.source
      /\ read'.how = read.how
      /\ \/ read'.at \in {"failed", "panicked"} /\ read'.out = read.out /\ Wrong(RowNow(next))
         \/ read'.at = "rows" /\ read'.out = Append(read.out, RowNow(next)) /\ ~Wrong(RowNow(next))
  <2> HIDE DEF next
  <2> QED BY <1>1, <1>2, <1>4 DEF ReadOf
<1>6. InfoNow' = InfoNow
  BY <1>4, <1>5, LearnsWhatItKnows DEF InfoNow
<1>7. \A r : RowNow(r)' = RowNow(r)
  BY <1>2, <1>5, <1>6, SameRowNow
<1> HIDE DEF next
<1>9. rows' = rows
  BY <1>5, <1>7
<1>8. GivenSoFar'
  <2>1. CASE read'.out = read.out /\ read'.at \in {"failed", "panicked"} /\ Wrong(RowNow(next))
    <3>1. \A r : Refused(r)' => r = next
      BY <2>1 DEF Refused, next
    <3>2. \A r : Refused(r)' => r \in DOMAIN read'.source.rows /\ Wrong(RowNow(r))'
      BY <1>3, <1>5, <1>7, <2>1, <3>1 DEF Wrong
    <3>3. \A r \in DOMAIN read'.out :
            r \in DOMAIN read'.source.rows /\ read'.out[r] = RowNow(r)' /\ ~Wrong(read'.out[r])
      BY <1>2, <1>5, <1>7, <2>1 DEF GivenSoFar, Wrong
    <3>4. read'.out \in Seq(rows)' /\ (read'.how # "hit" => read'.source = result')
      BY <1>2, <1>3, <1>5, <1>9, <2>1 DEF GivenSoFar
    <3> QED BY <3>2, <3>3, <3>4 DEF GivenSoFar, Wrong
  <2>2. CASE read'.out = Append(read.out, RowNow(next)) /\ read'.at = "rows" /\ ~Wrong(RowNow(next))
    <3>1. /\ read'.out \in Seq(rows)
          /\ DOMAIN read'.out = 1 .. next
          /\ \A r \in 1 .. Len(read.out) : read'.out[r] = read.out[r]
          /\ read'.out[next] = RowNow(next)
      <4>1. RowNow(next) \in rows
        BY <1>3
      <4> HIDE DEF rows
      <4> QED BY <1>3, <2>2, <4>1 DEF next
    <3>2. \A r \in DOMAIN read'.out :
            r \in DOMAIN read.source.rows /\ read'.out[r] = RowNow(r) /\ ~Wrong(read'.out[r])
      <4> SUFFICES ASSUME NEW r \in 1 .. next
                   PROVE  r \in DOMAIN read.source.rows /\ read'.out[r] = RowNow(r) /\ ~Wrong(read'.out[r])
        BY <3>1
      <4>1. CASE r = next
        BY <1>3, <2>2, <3>1, <4>1
      <4>2. CASE r # next
        <5>1. r \in DOMAIN read.out /\ read'.out[r] = read.out[r]
          BY <1>3, <3>1, <4>2 DEF next
        <5> QED BY <1>2, <5>1 DEF GivenSoFar
      <4> QED BY <4>1, <4>2
    <3>3. \A r : ~Refused(r)'
      BY <2>2 DEF Refused
    <3>4. read'.out \in Seq(rows)' /\ (read'.how # "hit" => read'.source = result')
      BY <1>2, <1>5, <1>9, <3>1 DEF GivenSoFar
    <3>5. \A r \in DOMAIN read'.out :
            r \in DOMAIN read'.source.rows /\ read'.out[r] = RowNow(r)' /\ ~Wrong(read'.out[r])
      BY <1>5, <1>7, <3>2
    <3> QED BY <3>3, <3>4, <3>5 DEF GivenSoFar, Wrong
  <2> QED BY <1>5, <2>1, <2>2
<1>10. OutInv'
  BY <1>2, <1>8 DEF OutInv
<1>11. read'.at # "none"
  BY <1>5
<1> QED BY <1>2, <1>5, <1>10, <1>11

(* A step that does not read leaves what was given. *)
LEMMA OutStays ==
  ASSUME OutInv, UNCHANGED <<build, typeCache, result>>, read.at # "none", read'.at # "none",
         read'.target = read.target, read'.cfg = read.cfg, read'.how = read.how,
         read'.source = read.source, read'.out = read.out,
         \A r : Refused(r)' => Refused(r)
  PROVE  OutInv'
<1> DEFINE rows == {RowNow(r) : r \in DOMAIN read.source.rows}
<1>1. GivenSoFar
  BY DEF OutInv
<1>2. InfoNow' = InfoNow
  BY DEF InfoNow, Known
<1>3. \A r : RowNow(r)' = RowNow(r)
  BY <1>2, SameRowNow
<1>4. rows' = rows
  BY <1>3
<1>5. read'.out \in Seq(rows)' /\ (read'.how # "hit" => read'.source = result')
  BY <1>1, <1>4 DEF GivenSoFar
<1>6. /\ \A r \in DOMAIN read'.out :
           r \in DOMAIN read'.source.rows /\ read'.out[r] = RowNow(r)' /\ ~Wrong(read'.out[r])
      /\ \A r : Refused(r)' => r \in DOMAIN read'.source.rows /\ Wrong(RowNow(r)')
  BY <1>1, <1>3 DEF GivenSoFar
<1>7. GivenSoFar'
  BY <1>5, <1>6 DEF GivenSoFar, Wrong
<1> QED BY <1>7 DEF OutInv

(* The copies stay when nothing is written to the entry. *)
LEMMA CopiesStay ==
  ASSUME CopyInv, UNCHANGED <<result, entry, touched>>,
         read'.at # "none" /\ read'.how = "hit" =>
           read.at # "none" /\ read.how = "hit" /\ read'.source = read.source
  PROVE  CopyInv'
<1>1. \A data, m : Laid(result, touched, data, m)' <=> Laid(result, touched, data, m)
  BY DEF Laid, Sound, BytesUpTo
<1>2. \A data, m, source :
        Replayed(result, touched, data, m, source)' <=> Replayed(result, touched, data, m, source)
  BY DEF Replayed, Sound, BytesUpTo
<1> QED BY <1>1, <1>2 DEF CopyInv, EntryInv, HitInv

LEMMA ReadsStart ==
  ASSUME OutInv, CopyInv, NEW call \in Calls(result), NEW cached \in BOOLEAN, Start(call, cached)
  PROVE  OutInv' /\ CopyInv'
<1> PICK found : found = IF cached /\ entry # NoEntry THEN Codec!Decode(entry) ELSE NoEntry
  OBVIOUS
<1>1. /\ read' = [at |-> "rows", number |-> read.number + 1, cfg |-> call.cfg, target |-> call.target,
                  how |-> IF found # NoEntry THEN "hit" ELSE IF cached THEN "miss" ELSE "direct",
                  source |-> IF found # NoEntry THEN found ELSE result, out |-> <<>>]
      /\ UNCHANGED <<build, typeCache, result, entry, touched>>
  BY DEF Start
<1>2. /\ read'.at = "rows" /\ read'.out = <<>>
      /\ read'.how = "hit" <=> found # NoEntry
      /\ read'.source = IF found # NoEntry THEN found ELSE result
  BY <1>1
<1>3. OutInv'
  <2> DEFINE rows == {RowNow(r) : r \in DOMAIN read.source.rows}
  <2>1. read'.out \in Seq(rows)' /\ \A r : ~Refused(r)'
    BY <1>2 DEF Refused
  <2>2. read'.how # "hit" => read'.source = result'
    BY <1>1, <1>2
  <2>3. \A r \in DOMAIN read'.out : FALSE
    BY <1>2
  <2> QED BY <1>1, <2>1, <2>2, <2>3 DEF OutInv, GivenSoFar
<1>4. CopyInv'
  <2>1. CASE found = NoEntry
    BY <1>1, <1>2, <2>1, CopiesStay
  <2>2. CASE found # NoEntry
    <3>1. entry # NoEntry /\ found = Codec!Decode(entry)
      BY <2>2
    <3>2. PICK m : Laid(result, touched, entry, m)
      BY <3>1 DEF CopyInv, EntryInv
    <3>3. Replayed(result, touched, entry, m, found)
      BY <2>2, <3>1, <3>2, DecodedIsReplayed DEF OutInv, CopyInv
    <3>4. Laid(result, touched, entry, m)' /\ Replayed(result, touched, entry, m, read.source)'
      BY <1>1, <1>2, <2>2, <3>2, <3>3 DEF Laid, Replayed, Sound, BytesUpTo
    <3> QED BY <1>1, <3>4 DEF CopyInv, EntryInv, HitInv
  <2> QED BY <2>1, <2>2
<1> QED BY <1>3, <1>4

LEMMA ReadsFinish ==
  ASSUME MetaInv, OutInv, CopyInv, Finish
  PROVE  OutInv' /\ CopyInv'
<1>1. PICK call \in Calls(result) : ReadOf(call)
  BY DEF Finish, MetaInv, ReadInv
<1>2. /\ UNCHANGED <<build, typeCache, result, touched>> /\ read.at = "rows"
      /\ read'.target = read.target /\ read'.cfg = read.cfg /\ read'.how = read.how
      /\ read'.source = read.source /\ read'.out = read.out
      /\ read'.at \in {"failed", "done"}
      /\ read'.at = "failed" => ~read.target.many /\ read.out = <<>> /\ UNCHANGED entry
      /\ read'.at = "done" => read.target.many \/ read.out # <<>>
  BY <1>1 DEF Finish, ReadOf
<1>3. /\ GivenSoFar
      /\ Len(read.source.rows) \in Nat /\ DOMAIN read.source.rows = 1 .. Len(read.source.rows)
      /\ Len(read.source.rows) <= Len(result.rows)
      /\ Len(read.source.rows) = 0 => Len(result.rows) = 0
      /\ Len(result.rows) \in Nat /\ DOMAIN result.rows = 1 .. Len(result.rows)
  BY <1>2, SourceRows DEF OutInv
<1>4. read.out = <<>> /\ (read.target.many \/ read'.at = "failed") => Len(result.rows) = 0
  <2> SUFFICES ASSUME read.out = <<>> PROVE Len(result.rows) = 0
    OBVIOUS
  <2>1. Len(read.out) = 0 /\ ~(Len(read.out) < Len(read.source.rows))
    BY DEF Finish, MoreRows
  <2> QED BY <1>3, <2>1
<1>5. OutInv'
  <2>1. \A r : ~Refused(r)'
    <3>1. ASSUME NEW r, Refused(r)' PROVE FALSE
      <4>1. read'.at = "failed" /\ r \in DOMAIN result.rows
        BY <1>2, <3>1 DEF Refused
      <4> QED BY <1>2, <1>3, <1>4, <4>1
    <3> QED BY <3>1
  <2> QED BY <1>2, <2>1, OutStays
<1>6. CASE UNCHANGED entry
  BY <1>2, <1>5, <1>6, CopiesStay
<1>7. CASE entry' # entry
  <2> PICK m, data : m = Len(read.out) /\ data = Codec!Encode(result.cols, SubSeq(result.rows, 1, m))
    OBVIOUS
  <2>1. read'.at = "done" /\ read.how = "miss" /\ data # NoEntry /\ entry' = data
    BY <1>2, <1>7 DEF Finish
  <2>2. m \in 0 .. Len(result.rows) /\ (m = 0 => Len(result.rows) = 0)
    <3>1. read.source = result
      BY <1>3, <2>1 DEF GivenSoFar
    <3>2. /\ m \in Nat /\ DOMAIN read.out = 1 .. m /\ (m = 0 => read.out = <<>>)
          /\ \A r \in DOMAIN read.out : r \in DOMAIN read.source.rows
      <4> DEFINE rows == {RowNow(r) : r \in DOMAIN read.source.rows}
      <4>1. read.out \in Seq(rows)
        BY <1>3 DEF GivenSoFar
      <4> HIDE DEF rows
      <4>2. m \in Nat /\ DOMAIN read.out = 1 .. m /\ (m = 0 => read.out = <<>>)
        BY <4>1
      <4> QED BY <1>3, <4>2 DEF GivenSoFar
    <3>3. m # 0 => m \in DOMAIN read.out
      BY <3>2
    <3>4. m <= Len(result.rows)
      BY <1>3, <3>1, <3>2, <3>3
    <3>5. m = 0 => Len(result.rows) = 0
      BY <1>2, <1>4, <2>1, <3>2
    <3> QED BY <3>2, <3>4, <3>5, <1>3
  <2>3. Laid(result, touched, data, m)
    BY <2>1, <2>2, EncodedIsLaid DEF OutInv, CopyInv
  <2>4. Laid(result, touched, entry, m)'
    BY <1>2, <2>1, <2>3 DEF Laid, Sound, BytesUpTo
  <2>5. touched' \in BOOLEAN /\ read'.how # "hit"
    BY <1>2, <2>1 DEF CopyInv
  <2>6. EntryInv' /\ HitInv'
    BY <2>4, <2>5 DEF EntryInv, HitInv
  <2> QED BY <1>5, <2>5, <2>6 DEF CopyInv
<1> QED BY <1>5, <1>6, <1>7

LEMMA ReadsOverwritten ==
  ASSUME MetaInv, OutInv, CopyInv, NEW r \in DOMAIN result.rows, NEW i \in DOMAIN result.cols, Overwrite(r, i)
  PROVE  OutInv' /\ CopyInv'
<1>1. /\ UNCHANGED <<build, typeCache, result, read>> /\ touched' = TRUE
      /\ read.at = "done" /\ read.how = "hit" /\ Codec!Decode(entry) # NoEntry
      /\ read.source.rows[r][i].k = "bytes" /\ r \in DOMAIN read.out
      /\ entry' \in Overwritten(entry, Codec!Place(entry, r, i))
  BY DEF Overwrite, SharesBuffer
<1>2. OutInv'
  BY <1>1, OutStays DEF Refused
<1>3. PICK m : Laid(result, touched, entry, m) /\ Replayed(result, touched, entry, m, read.source)
  BY <1>1 DEF CopyInv, HitInv
<1>4. r \in 1 .. m /\ i \in 1 .. Len(result.cols)
  <2>1. r \in DOMAIN read.source.rows
    BY <1>1 DEF OutInv, GivenSoFar
  <2>2. DOMAIN read.source.rows = 1 .. m
    BY <1>1, <1>3, SourceRows DEF Replayed
  <2> QED BY <2>1, <2>2, ResultShape DEF OutInv
<1>5. Laid(result, TRUE, entry', m) /\ Replayed(result, TRUE, entry', m, read.source)
  BY <1>1, <1>3, <1>4, OverwritingKeeps DEF OutInv, CopyInv
<1>6. Laid(result, touched, entry, m)' /\ Replayed(result, touched, entry, m, read.source)'
  BY <1>1, <1>5 DEF Laid, Replayed, Sound, BytesUpTo
<1> QED BY <1>1, <1>2, <1>6 DEF CopyInv, EntryInv, HitInv

LEMMA ReadsStep == MetaInv /\ OutInv /\ CopyInv /\ [Next]_vars => OutInv' /\ CopyInv'
<1> SUFFICES ASSUME MetaInv, OutInv, CopyInv, [Next]_vars PROVE OutInv' /\ CopyInv'
  OBVIOUS
<1>1. ASSUME NEW call \in Calls(result), NEW cached \in BOOLEAN, Start(call, cached)
      PROVE  OutInv' /\ CopyInv'
  BY <1>1, ReadsStart
<1>2. ASSUME ScanRow PROVE OutInv' /\ CopyInv'
  <2>1. /\ OutInv' /\ read'.how = read.how /\ read'.source = read.source
        /\ UNCHANGED <<result, entry, touched>> /\ read.at # "none"
    BY <1>2, OutRow DEF ScanRow
  <2> QED BY <2>1, CopiesStay
<1>3. ASSUME Finish PROVE OutInv' /\ CopyInv'
  BY <1>3, ReadsFinish
<1>4. ASSUME SourceFails PROVE OutInv' /\ CopyInv'
  <2>1. PICK call \in Calls(result) : ReadOf(call)
    BY <1>4 DEF SourceFails, MetaInv, ReadInv
  <2>2. /\ UNCHANGED <<build, typeCache, result, entry, touched>> /\ read.at # "none"
        /\ read'.target = read.target /\ read'.cfg = read.cfg /\ read'.how = read.how
        /\ read'.source = read.source /\ read'.out = read.out /\ read'.at = "lost"
    BY <1>4, <2>1 DEF SourceFails, ReadOf
  <2>3. \A r : ~Refused(r)'
    BY <2>2 DEF Refused
  <2>4. read'.at # "none"
    BY <2>2
  <2> QED BY <2>2, <2>3, <2>4, OutStays, CopiesStay
<1>5. ASSUME Return PROVE OutInv' /\ CopyInv'
  <2>1. read'.at = "none" /\ UNCHANGED <<result, entry, touched>>
    BY <1>5 DEF Return
  <2> QED BY <2>1, CopiesStay DEF OutInv
<1>6. ASSUME NEW r \in DOMAIN result.rows, NEW i \in DOMAIN result.cols, Overwrite(r, i)
      PROVE  OutInv' /\ CopyInv'
  BY <1>6, ReadsOverwritten
<1>7. ASSUME UNCHANGED vars PROVE OutInv' /\ CopyInv'
  <2>1. UNCHANGED <<build, typeCache, result, entry, touched, read>>
    BY <1>7 DEF vars
  <2>2. CASE read.at = "none"
    BY <2>1, <2>2, CopiesStay DEF OutInv
  <2>3. CASE read.at # "none"
    BY <2>1, <2>3, OutStays, CopiesStay DEF Refused
  <2> QED BY <2>2, <2>3
<1> QED BY <1>1, <1>2, <1>3, <1>4, <1>5, <1>6, <1>7 DEF Next

-----------------------------------------------------------------------------
(* A direct read and a recorded one. *)

(* The outcome of a row that is not read by the recorder, and of one that  *)
(* is.                                                                     *)
LEMMA RowsAlike ==
  ASSUME Over, result \in Results, read.how = "direct", read.source = result, NEW r \in DOMAIN result.rows
  PROVE  /\ (Wrong(RowNow(r)) <=> Wrong(Recorded(r))) \/ MayDiffer(r)
         /\ ~Wrong(RowNow(r)) /\ ~Wrong(Recorded(r)) =>
              \A i \in DOMAIN result.cols :
                \/ RowNow(r)[i] = Recorded(r)[i]
                \/ OfStruct /\ HasConverter(Info.fields[lookupScan(Info.fields, result.cols[i])].type)
<1>1. InfoNow = Info /\ (read.how # "direct") = FALSE
  BY DEF InfoNow, Info, OfStruct
<1>2. CASE read.target.shape # "struct"
  <2>1. RowNow(r) = Recorded(r)
    BY <1>1, <1>2 DEF RowNow, Recorded, scanOneValue
  <2> QED BY <2>1
<1>3. CASE read.target.shape = "struct"
  <2> DEFINE direct == scanStructRow(Info, result.cols, result.rows[r], read.cfg, FALSE)
             recorded == scanStructRow(Info, result.cols, result.rows[r], read.cfg, TRUE)
  <2>1. RowNow(r) = direct /\ Recorded(r) = recorded
    BY <1>1, <1>3 DEF RowNow, Recorded, scanOneValue
  <2>2. /\ \/ Wrong(direct) <=> Wrong(recorded)
           \/ \E i \in DOMAIN result.cols : Differs(Info, result.cols[i], result.rows[r][i])
        /\ ~Wrong(direct) /\ ~Wrong(recorded) =>
             \A i \in DOMAIN result.cols :
               \/ direct[i] = recorded[i]
               \/ HasConverter(Info.fields[lookupScan(Info.fields, result.cols[i])].type)
    <3>1. RowOf(result.cols, result.rows[r])
      BY ResultShape DEF RowOf
    <3> QED BY <3>1, StructRowsAlike, ZenonT(60)
  <2>3. OfStruct
    BY <1>3 DEF OfStruct
  <2>4. (\E i \in DOMAIN result.cols : Differs(Info, result.cols[i], result.rows[r][i]))
          => MayDiffer(r)
    BY <2>3 DEF MayDiffer, Differs
  <2> HIDE DEF direct, recorded
  <2> QED BY <2>1, <2>2, <2>3, <2>4
<1> QED BY <1>2, <1>3

LEMMA DirectFits == OutInv => DirectAgrees
<1> SUFFICES ASSUME OutInv, Over, read.how = "direct", NEW r \in DOMAIN result.rows
             PROVE  /\ Got(r) =>
                         \/ Wrong(Recorded(r)) /\ MayDiffer(r)
                         \/ /\ ~Wrong(Recorded(r))
                            /\ \A i \in DOMAIN result.cols :
                                 \/ read.out[r][i] = Recorded(r)[i]
                                 \/ OfStruct /\ HasConverter(Info.fields[lookupScan(Info.fields, result.cols[i])].type)
                    /\ Refused(r) => Wrong(Recorded(r)) \/ MayDiffer(r)
  BY DEF DirectAgrees
<1>1. GivenSoFar /\ result \in Results /\ read.source = result
  BY DEF OutInv, Over, GivenSoFar
<1>2. Got(r) => read.out[r] = RowNow(r) /\ ~Wrong(RowNow(r))
  BY <1>1 DEF GivenSoFar, Got
<1>3. Refused(r) => Wrong(RowNow(r))
  BY <1>1 DEF GivenSoFar
<1> QED BY <1>1, <1>2, <1>3, RowsAlike

-----------------------------------------------------------------------------
(* A hit and a recorded read. *)

(* A time that is far from 1970 is another time when it is read back, and  *)
(* is converted, or not, as the one that it was.                           *)
LEMMA FarAlike ==
  ASSUME NEW t, NEW c \in Cells, NEW cfg, c.of = "far"
  PROVE  /\ convertAssign(t, Reads(c), cfg) = Failed <=> convertAssign(t, c, cfg) = Failed
         /\ convertAssign(t, Reads(c), cfg) # Panicked /\ convertAssign(t, c, cfg) # Panicked
         /\ c # Null /\ c.k \notin Texts /\ Reads(c) # Null /\ Reads(c).k \notin Texts
<1>1. c.k = "time"
  BY CellParts DEF Floats, Texts, Null, Cell
<1>2. Reads(c).k = "time" /\ Reads(c).of = "time"
  BY DEF Reads, Cell
<1>3. ASSUME NEW d, d.k = "time", d.of \in {"time", "far"}
      PROVE  /\ convertAssign(t, d, cfg) = Failed <=>
                  ~(t.trait = "scanner" \/ t.kind = "any" \/ HasConverter(t)
                      \/ (t.kind = "time" /\ t.trait \in {"plain", "override"}))
             /\ convertAssign(t, d, cfg) # Panicked
             /\ d # Null /\ d.k \notin Texts
  <2>1. d # Null /\ d.k \notin Texts /\ d # Failed /\ d # Panicked
    BY <1>3 DEF Null, Failed, Panicked, Cell, Texts
  <2>2. CASE t.trait = "scanner"
    BY <2>1, <2>2 DEF convertAssign, Scanned, Failed, Panicked, Cell
  <2>3. CASE t.trait # "scanner" /\ Assignable(t, d)
    BY <1>3, <2>1, <2>3 DEF convertAssign, Assignable
  <2>4. CASE t.trait # "scanner" /\ ~Assignable(t, d) /\ HasConverter(t)
    BY <1>3, <2>1, <2>4 DEF convertAssign, Converted, Failed, Panicked, Cell
  <2>5. CASE t.trait # "scanner" /\ ~Assignable(t, d) /\ ~HasConverter(t)
    <3>1. builtinConvert(t.kind, d) = Failed
      BY <1>3, <2>1 DEF builtinConvert, convertToInt, convertToFloat, convertToBool, Texts
    <3>2. convertAssign(t, d, cfg) = Failed
      BY <2>1, <2>5, <3>1 DEF convertAssign
    <3> QED BY <1>3, <2>1, <2>5, <3>2 DEF Assignable, Failed, Panicked, Cell
  <2> QED BY <2>1, <2>2, <2>3, <2>4, <2>5
<1>4. c.of \in {"time", "far"} /\ Reads(c).of \in {"time", "far"}
  BY <1>2
<1> QED BY <1>1, <1>2, <1>3, <1>4

LEMMA NearIsItself ==
  ASSUME NEW c, c.of # "far"
  PROVE  Reads(c) = c
BY DEF Reads

LEMMA FieldsReplayed ==
  ASSUME NEW info, NEW column, NEW c \in Cells, NEW cfg
  PROVE  LET now == ColumnValue(info, column, Reads(c), cfg, TRUE)
             then == ColumnValue(info, column, c, cfg, TRUE)
         IN  /\ now \in {Failed, Panicked} <=> then \in {Failed, Panicked}
             /\ now = then \/ c.of = "far"
<1> DEFINE now == ColumnValue(info, column, Reads(c), cfg, TRUE)
           then == ColumnValue(info, column, c, cfg, TRUE)
           field == info.fields[lookupScan(info.fields, column)]
<1>1. CASE c.of # "far"
  BY <1>1, NearIsItself
<1>2. CASE lookupScan(info.fields, column) = 0 \/ field.link = "pointer"
  BY <1>2 DEF ColumnValue
<1>3. CASE c.of = "far" /\ lookupScan(info.fields, column) # 0 /\ field.link # "pointer"
  <2>1. now = assignFieldValue(field, Reads(c), cfg) /\ then = assignFieldValue(field, c, cfg)
    BY <1>3 DEF ColumnValue, FieldValue
  <2> PICK t : t = field.type
    OBVIOUS
  <2>4. /\ convertAssign(t, Reads(c), cfg) = Failed <=> convertAssign(t, c, cfg) = Failed
        /\ convertAssign(t, Reads(c), cfg) # Panicked /\ convertAssign(t, c, cfg) # Panicked
        /\ c # Null /\ c.k \notin Texts /\ Reads(c) # Null /\ Reads(c).k \notin Texts
    BY <1>3, FarAlike
  <2>2. CASE field.json
    BY <2>1, <2>2, <2>4 DEF assignFieldValue, unmarshalJSONField
  <2>3. CASE ~field.json
    <3>1. now = convertAssign(t, Reads(c), cfg) /\ then = convertAssign(t, c, cfg)
      BY <2>1, <2>3 DEF assignFieldValue
    <3> QED BY <1>3, <2>4, <3>1
  <2> QED BY <2>2, <2>3
<1> QED BY <1>1, <1>2, <1>3

LEMMA OneLong ==
  ASSUME NEW x
  PROVE  [i \in {1} |-> x] = <<x>>
OBVIOUS

(* A row of the database, and what is read back of it. *)
ReadBackRow(cols, src, db) == RowOf(cols, db) /\ \A i \in DOMAIN cols : src[i] = Reads(db[i])

GivesAlike(now, then, db) ==
  /\ Wrong(now) <=> Wrong(then)
  /\ ~Wrong(now) => \A i \in DOMAIN now : now[i] = then[i] \/ db[i].of = "far"

LEMMA RowsReplayed ==
  ASSUME NEW target, NEW info, NEW cols, NEW src, NEW db, NEW cfg, ReadBackRow(cols, src, db)
  PROVE  GivesAlike(scanOneValue(target, info, cols, src, cfg, TRUE),
                    scanOneValue(target, info, cols, db, cfg, TRUE), db)
<1> DEFINE now == scanOneValue(target, info, cols, src, cfg, TRUE)
           then == scanOneValue(target, info, cols, db, cfg, TRUE)
<1>0. /\ DOMAIN cols = 1 .. Len(cols) /\ Len(cols) \in Nat
      /\ \A i \in DOMAIN cols : db[i] \in Cells /\ src[i] = Reads(db[i])
  BY DEF ReadBackRow, RowOf
<1>1. CASE target.shape = "struct" /\ ~info.ok
  BY <1>1 DEF GivesAlike, scanOneValue, scanStructRow
<1>2. CASE target.shape = "struct" /\ info.ok
  <2> DEFINE left(i) == ColumnValue(info, cols[i], src[i], cfg, TRUE)
             right(i) == ColumnValue(info, cols[i], db[i], cfg, TRUE)
  <2>1. \A i \in DOMAIN cols :
          /\ left(i) \in {Failed, Panicked} <=> right(i) \in {Failed, Panicked}
          /\ left(i) = right(i) \/ db[i].of = "far"
    <3> SUFFICES ASSUME NEW i \in DOMAIN cols
                 PROVE  /\ left(i) \in {Failed, Panicked} <=> right(i) \in {Failed, Panicked}
                        /\ left(i) = right(i) \/ db[i].of = "far"
      OBVIOUS
    <3> PICK c : c = db[i]
      OBVIOUS
    <3> DEFINE new == ColumnValue(info, cols[i], Reads(c), cfg, TRUE)
               old == ColumnValue(info, cols[i], c, cfg, TRUE)
    <3>1. c \in Cells /\ left(i) = new /\ right(i) = old
      BY <1>0
    <3>2. /\ new \in {Failed, Panicked} <=> old \in {Failed, Panicked}
          /\ new = old \/ c.of = "far"
      BY <3>1, FieldsReplayed
    <3> HIDE DEF new, old
    <3> QED BY <3>1, <3>2
  <2>2. /\ Wrong(now) <=> \E i \in DOMAIN cols : left(i) \in {Failed, Panicked}
        /\ ~Wrong(now) => now = [i \in DOMAIN cols |-> left(i)]
    BY <1>0, <1>2, RowFromColumns DEF scanOneValue
  <2>3. /\ Wrong(then) <=> \E i \in DOMAIN cols : right(i) \in {Failed, Panicked}
        /\ ~Wrong(then) => then = [i \in DOMAIN cols |-> right(i)]
    BY <1>0, <1>2, RowFromColumns DEF scanOneValue
  <2> HIDE DEF now, then, left, right
  <2>4. Wrong(now) <=> Wrong(then)
    BY <2>1, <2>2, <2>3
  <2>5. ~Wrong(now) => \A i \in DOMAIN now : now[i] = then[i] \/ db[i].of = "far"
    BY <2>1, <2>2, <2>3, <2>4
  <2> QED BY <2>4, <2>5 DEF now, then, GivesAlike
<1>3. CASE target.shape = "map"
  <2> DEFINE value(c) == IF c = Null \/ convertAssign(target.type, c, cfg) = Failed
                           THEN Zero(target.type.kind) ELSE convertAssign(target.type, c, cfg)
  <2>1. now = [i \in DOMAIN cols |-> value(src[i])] /\ then = [i \in DOMAIN cols |-> value(db[i])]
    BY <1>3 DEF scanOneValue, setMapRow
  <2>2. ASSUME NEW i \in DOMAIN cols
        PROVE  \/ value(src[i]) = value(db[i])
               \/ /\ db[i].of = "far"
                  /\ value(src[i]) \notin {Failed, Panicked} /\ value(db[i]) \notin {Failed, Panicked}
    <3>1. CASE db[i].of # "far"
      BY <1>0, <3>1, NearIsItself
    <3>2. CASE db[i].of = "far"
      <4>1. Zero(target.type.kind) \notin {Failed, Panicked}
        BY DEF Zero, Failed, Panicked, Cell
      <4> QED BY <1>0, <3>2, <4>1, FarAlike
    <3> QED BY <3>1, <3>2
  <2> HIDE DEF now, then, value
  <2>3. Wrong(now) <=> Wrong(then)
    <3>1. Wrong(now) \/ Wrong(then) => DOMAIN cols = {1}
      BY <2>1 DEF Wrong
    <3>2. ASSUME DOMAIN cols = {1} PROVE Wrong(now) <=> Wrong(then)
      <4>1. now = <<value(src[1])>> /\ then = <<value(db[1])>>
        <5>1. /\ now = [i \in {1} |-> value(src[1])] /\ then = [i \in {1} |-> value(db[1])]
          BY <2>1, <3>2
        <5> QED BY <5>1, OneLong
      <4>2. \/ value(src[1]) = value(db[1])
            \/ value(src[1]) \notin {Failed, Panicked} /\ value(db[1]) \notin {Failed, Panicked}
        BY <1>0, <2>2, <3>2
      <4> QED BY <4>1, <4>2 DEF Wrong
    <3> QED BY <3>1, <3>2
  <2>4. \A i \in DOMAIN now : now[i] = then[i] \/ db[i].of = "far"
    BY <2>1, <2>2
  <2> QED BY <2>3, <2>4 DEF now, then, GivesAlike
<1>4. CASE target.shape \notin {"struct", "map"}
  <2>1. /\ now = scanScalarRow(Pointee(target.type), cols, src, cfg)
        /\ then = scanScalarRow(Pointee(target.type), cols, db, cfg)
    BY <1>4 DEF scanOneValue
  <2>2. CASE Len(cols) # 1
    BY <2>1, <2>2 DEF scanScalarRow, GivesAlike
  <2>3. CASE Len(cols) = 1
    <3> DEFINE value(c) == convertAssign(Pointee(target.type), c, cfg)
    <3>1. now = <<value(src[1])>> /\ then = <<value(db[1])>>
      BY <2>1, <2>3 DEF scanScalarRow
    <3>2. db[1] \in Cells /\ src[1] = Reads(db[1])
      BY <1>0, <2>3
    <3>3. \/ value(src[1]) = value(db[1])
          \/ /\ db[1].of = "far" /\ value(src[1]) # Panicked /\ value(db[1]) # Panicked
             /\ value(src[1]) = Failed <=> value(db[1]) = Failed
      BY <3>2, NearIsItself, FarAlike
    <3> HIDE DEF now, then, value
    <3>4. Wrong(now) <=> Wrong(then)
      BY <3>1, <3>3 DEF Wrong
    <3>5. \A i \in DOMAIN now : now[i] = then[i] \/ db[i].of = "far"
      BY <3>1, <3>3
    <3> QED BY <3>4, <3>5 DEF now, then, GivesAlike
  <2> QED BY <2>2, <2>3
<1> QED BY <1>1, <1>2, <1>3, <1>4

LEMMA HitsFit == OutInv /\ CopyInv => HitsAgree
<1> SUFFICES ASSUME OutInv, CopyInv, Over, read.how = "hit", ~touched, NEW r \in DOMAIN read.source.rows
             PROVE  /\ Got(r) => \A i \in DOMAIN read.out[r] :
                                    \/ ~Wrong(Recorded(r)) /\ read.out[r][i] = Recorded(r)[i]
                                    \/ result.rows[r][i].of = "far"
                    /\ Refused(r) => Wrong(Recorded(r))
  BY DEF HitsAgree
<1>1. read.at # "none" /\ GivenSoFar /\ result \in Results
  BY DEF Over, OutInv
<1>2. PICK m : Laid(result, touched, entry, m) /\ Replayed(result, touched, entry, m, read.source)
  BY <1>1 DEF CopyInv, HitInv
<1>3. /\ read.source.cols = result.cols /\ r \in 1 .. m /\ r \in DOMAIN result.rows
      /\ DOMAIN result.cols = 1 .. Len(result.cols) /\ Len(result.cols) \in Nat
  <2>1. /\ r \in 1 .. Len(read.source.rows) /\ Len(read.source.rows) = m
        /\ Len(read.source.rows) <= Len(result.rows) /\ Len(result.rows) \in Nat
        /\ Len(read.source.rows) \in Nat
        /\ DOMAIN result.rows = 1 .. Len(result.rows) /\ read.source.cols = result.cols
    BY <1>1, <1>2, SourceRows DEF Replayed
  <2>2. r \in 1 .. Len(result.rows)
    BY <2>1
  <2> QED BY <1>1, <2>1, <2>2, ResultShape
<1>4. \A i \in DOMAIN result.cols :
        result.rows[r][i] \in Cells /\ read.source.rows[r][i] = Reads(result.rows[r][i])
  <2>1. \A i \in DOMAIN result.cols : result.rows[r][i] \in Cells
    BY <1>1, <1>3, ResultShape
  <2>2. \A i \in DOMAIN result.cols : read.source.rows[r][i] = Reads(result.rows[r][i])
    BY <1>2, <1>3 DEF Replayed, Sound
  <2> QED BY <2>1, <2>2
<1> DEFINE now == scanOneValue(read.target, Info, result.cols, read.source.rows[r], read.cfg, TRUE)
           then == scanOneValue(read.target, Info, result.cols, result.rows[r], read.cfg, TRUE)
<1>5. RowNow(r) = now /\ Recorded(r) = then
  <2>1. InfoNow = Info /\ (read.how # "direct") = TRUE
    BY DEF InfoNow, Info, OfStruct
  <2> QED BY <1>3, <2>1 DEF RowNow, Recorded
<1>6. /\ Wrong(now) <=> Wrong(then)
      /\ ~Wrong(now) => \A i \in DOMAIN now : now[i] = then[i] \/ result.rows[r][i].of = "far"
  <2>1. ReadBackRow(result.cols, read.source.rows[r], result.rows[r])
    BY <1>3, <1>4 DEF ReadBackRow, RowOf
  <2>2. GivesAlike(now, then, result.rows[r])
    BY <2>1, RowsReplayed, Zenon
  <2> HIDE DEF now, then
  <2> QED BY <2>2 DEF GivesAlike
<1> HIDE DEF now, then
<1>7. Got(r) => read.out[r] = now /\ ~Wrong(now)
  BY <1>1, <1>5 DEF GivenSoFar, Got
<1>8. Refused(r) => Wrong(now)
  BY <1>1, <1>5 DEF GivenSoFar
<1> QED BY <1>5, <1>6, <1>7, <1>8

-----------------------------------------------------------------------------
(* Where the callers of hits reach. *)
LEMMA BytesFit == OutInv /\ CopyInv => OnlyBytesShared
<1> SUFFICES ASSUME OutInv, CopyInv, entry # NoEntry, Codec!Decode(entry) # NoEntry,
                    NEW r \in DOMAIN Codec!Decode(entry).rows, NEW i \in DOMAIN result.cols
             PROVE  \/ Codec!Decode(entry).rows[r][i] = Reads(result.rows[r][i])
                    \/ touched /\ \E q \in 1 .. r : \E j \in DOMAIN result.cols :
                                    /\ result.rows[q][j].k = "bytes"
                                    /\ Codec!Place(entry, q, j) <= Codec!Place(entry, r, i)
  BY DEF OnlyBytesShared
<1> PICK n, source : n = Len(result.cols) /\ source = Codec!Decode(entry)
  OBVIOUS
<1>1. PICK m : Laid(result, touched, entry, m)
  BY DEF CopyInv, EntryInv
<1>2. result \in Results /\ touched \in BOOLEAN
  BY DEF OutInv, CopyInv
<1>3. Replayed(result, touched, entry, m, source)
  BY <1>1, <1>2, DecodedIsReplayed
<1>4. \A q, j : Codec!Place(entry, q, j) = Spot(n, q, j)
  BY <1>1, <1>2, DecodedIs
<1>5. /\ n \in Nat /\ DOMAIN result.cols = 1 .. n
      /\ Len(result.rows) \in Nat /\ DOMAIN result.rows = 1 .. Len(result.rows)
  BY <1>2, ResultShape
<1>6. r \in 1 .. m /\ m \in Nat
  <2>1. source.rows \in Seq(Seq(Cells)) /\ Len(source.rows) = m /\ r \in DOMAIN source.rows
    BY <1>3 DEF Replayed
  <2> QED BY <2>1
<1>7. \/ source.rows[r][i] = Reads(result.rows[r][i])
      \/ touched /\ BytesUpTo(result, Spot(n, r, i))
  BY <1>3, <1>5, <1>6 DEF Replayed, Sound
<1>8. ASSUME BytesUpTo(result, Spot(n, r, i))
      PROVE  \E q \in 1 .. r : \E j \in DOMAIN result.cols :
               result.rows[q][j].k = "bytes" /\ Spot(n, q, j) <= Spot(n, r, i)
  <2>1. PICK q \in DOMAIN result.rows : \E j \in DOMAIN result.cols :
          result.rows[q][j].k = "bytes" /\ Spot(n, q, j) <= Spot(n, r, i)
    BY <1>8 DEF BytesUpTo
  <2>2. PICK j \in DOMAIN result.cols :
          result.rows[q][j].k = "bytes" /\ Spot(n, q, j) <= Spot(n, r, i)
    BY <2>1
  <2>3. q \in Nat \ {0} /\ r \in Nat \ {0} /\ i \in 1 .. n /\ j \in 1 .. n
    BY <1>5, <1>6
  <2>4. q <= r
    BY <1>5, <2>2, <2>3, Spots
  <2>5. q \in 1 .. r
    BY <2>3, <2>4
  <2> QED BY <2>2, <2>5
<1> QED BY <1>4, <1>7, <1>8

-----------------------------------------------------------------------------
(* Integers in whole reads. *)

(* An integer x that a cell c was assigned to. *)
Kept(c, x) ==
  x.k \in Integral /\ x.of = "int" /\ x # c =>
    \/ c.k \in {"uint", "float32"} \/ c.of = "nan"
    \/ c.k = "float64" /\ c.v \in {2 * Wide, 4 * Wide}
    \/ x.v = Whole(c)

LEMMA OthersAreKept ==
  ASSUME NEW c, NEW x, x.k \notin Integral \/ x.of # "int" \/ x = c
  PROVE  Kept(c, x)
BY DEF Kept

LEMMA NoIntegers ==
  /\ Failed.k \notin Integral /\ Panicked.k \notin Integral /\ Skipped.k \notin Integral
  /\ Null.k \notin Integral
  /\ \A kind : Zero(kind).of # "int"
  /\ \A c : Scanned(c).k \notin Integral /\ Converted(c).k \notin Integral
  /\ \A k, of, v : Cell(k, of, v).k = k
  /\ Texts \cap Integral = {} /\ {"float64", "bool", "time", "json"} \cap Integral = {}
BY DEF Failed, Panicked, Skipped, Null, Zero, Scanned, Converted, Cell, Integral, Signed, Unsigned, Texts

LEMMA ConvertedKept ==
  ASSUME NEW t, NEW c \in Cells, NEW cfg
  PROVE  Kept(c, convertAssign(t, c, cfg))
<1> PICK x : x = convertAssign(t, c, cfg)
  OBVIOUS
<1>1. CASE t.trait = "scanner" \/ c = Null \/ Assignable(t, c) \/ HasConverter(t)
  <2>1. x.k \notin Integral \/ x.of # "int" \/ x = c
    BY <1>1, NoIntegers DEF convertAssign, assignNull
  <2> QED BY <2>1, OthersAreKept
<1>2. CASE ~(t.trait = "scanner" \/ c = Null \/ Assignable(t, c) \/ HasConverter(t))
  <2>1. x = builtinConvert(t.kind, c)
    BY <1>2 DEF convertAssign
  <2>2. CASE t.kind \in Integral /\ x # Failed
    <3>1. x = convertToInt(t.kind, c)
      BY <2>1, <2>2, NoIntegers DEF builtinConvert
    <3> QED BY <2>2, <3>1, IntegersAreKept DEF Kept
  <2>3. CASE ~(t.kind \in Integral /\ x # Failed)
    <3>1. x.k \notin Integral
      BY <2>1, <2>3, NoIntegers DEF builtinConvert, convertToFloat, convertToBool
    <3> QED BY <3>1, OthersAreKept
  <2> QED BY <2>2, <2>3
<1> QED BY <1>1, <1>2

LEMMA EvenHalves ==
  ASSUME NEW halves \in Int, halves % 2 = 0
  PROVE  Trunc(halves) = halves \div 2
BY DEF Trunc

LEMMA DirectKept ==
  ASSUME NEW t, NEW c \in Cells
  PROVE  Kept(c, Direct(t, c))
<1> PICK x : x = Direct(t, c)
  OBVIOUS
<1>1. CASE t.kind \notin Integral \/ t.trait = "scanner" \/ c = Null
  <2>1. \A kind : Written(kind, c).k = kind
    BY DEF Written, Cell
  <2>2. x.k \notin Integral \/ x.of # "int"
    BY <1>1, <2>1, NoIntegers DEF Direct, DirectNull, convertToFloat
  <2> QED BY <2>2, OthersAreKept
<1>2. CASE t.kind \in Integral /\ t.trait # "scanner" /\ c # Null
  <2>1. x = convertToInt(t.kind, Written("string", c))
    BY <1>2, NoIntegers DEF Direct
  <2>2. CASE c.k \in Floats /\ c.of = "half" /\ c.v % 2 = 0 /\ c.v \div 2 \in 1 - Wide .. Wide - 1
    <3>1. Written("string", c) = Cell("string", "int", c.v \div 2)
      BY <2>2 DEF Written
    <3>2. x = Failed \/ x = Cell(t.kind, "int", c.v \div 2)
      BY <2>1, <3>1, TextToInt
    <3>3. Whole(c) = c.v \div 2
      BY <2>2, CellParts, EvenHalves DEF Whole
    <3>4. x = Failed \/ x.v = Whole(c)
      BY <3>2, <3>3 DEF Cell
    <3> QED BY <3>4, NoIntegers DEF Kept
  <2>3. CASE ~(c.k \in Floats /\ c.of = "half" /\ c.v % 2 = 0 /\ c.v \div 2 \in 1 - Wide .. Wide - 1)
    <3>1. Written("string", c) = Cell("string", c.of, c.v)
      BY <2>3 DEF Written
    <3>2. x = Failed \/ (c.of = "int" /\ x = Cell(t.kind, "int", c.v))
      BY <2>1, <3>1, TextToInt
    <3>3. c.of = "int" => Whole(c) = c.v
      BY CellParts DEF Whole
    <3>4. x = Failed \/ x.v = Whole(c)
      BY <3>2, <3>3 DEF Cell
    <3> QED BY <3>4, NoIntegers DEF Kept
  <2> QED BY <2>2, <2>3
<1> QED BY <1>1, <1>2

LEMMA ColumnKept ==
  ASSUME NEW info, NEW column, NEW c \in Cells, NEW cfg, NEW recorded \in BOOLEAN
  PROVE  Kept(c, ColumnValue(info, column, c, cfg, recorded))
<1> DEFINE field == info.fields[lookupScan(info.fields, column)]
<1> PICK x : x = ColumnValue(info, column, c, cfg, recorded)
  OBVIOUS
<1>1. CASE x \in {Failed, Panicked, Skipped}
  BY <1>1, NoIntegers, OthersAreKept
<1>2. CASE x = FieldValue(field, c, cfg, recorded)
  <2> PICK t : t = field.type
    OBVIOUS
  <2>1. \/ x = Direct(t, c) \/ x = convertAssign(t, c, cfg)
        \/ x = Failed \/ x = Cell("json", c.of, c.v)
    BY <1>2 DEF FieldValue, assignFieldValue, unmarshalJSONField
  <2>2. x = Failed \/ x = Cell("json", c.of, c.v) => x.k \notin Integral
    BY NoIntegers
  <2> QED BY <2>1, <2>2, DirectKept, ConvertedKept, OthersAreKept
<1> QED BY <1>1, <1>2 DEF ColumnValue

LEMMA RowKept ==
  ASSUME NEW target, NEW info, NEW cols, NEW row, NEW cfg, NEW recorded \in BOOLEAN, RowOf(cols, row),
         NEW out, out = scanOneValue(target, info, cols, row, cfg, recorded), ~Wrong(out), NEW i \in DOMAIN out
  PROVE  Kept(row[i], out[i])
<1>1. DOMAIN cols = 1 .. Len(cols) /\ Len(cols) \in Nat /\ \A j \in DOMAIN cols : row[j] \in Cells
  BY DEF RowOf
<1>2. CASE target.shape = "struct"
  <2>1. info.ok
    <3>1. ~info.ok => out = <<Failed>>
      BY <1>2 DEF scanOneValue, scanStructRow
    <3> QED BY <3>1 DEF Wrong
  <2>2. out = [j \in DOMAIN cols |-> ColumnValue(info, cols[j], row[j], cfg, recorded)]
    BY <1>1, <1>2, <2>1, RowFromColumns DEF scanOneValue
  <2> QED BY <1>1, <2>2, ColumnKept
<1>3. CASE target.shape = "map"
  <2>1. /\ i \in DOMAIN cols
        /\ out[i] = Zero(target.type.kind) \/ out[i] = convertAssign(target.type, row[i], cfg)
    BY <1>3 DEF scanOneValue, setMapRow
  <2> QED BY <1>1, <2>1, NoIntegers, OthersAreKept, ConvertedKept
<1>4. CASE target.shape \notin {"struct", "map"}
  <2>1. out = scanScalarRow(Pointee(target.type), cols, row, cfg)
    BY <1>4 DEF scanOneValue
  <2>2. Len(cols) = 1 /\ out = <<convertAssign(Pointee(target.type), row[1], cfg)>>
    BY <2>1 DEF scanScalarRow, Wrong
  <2>3. i = 1 /\ row[1] \in Cells
    BY <1>1, <2>2
  <2> QED BY <2>2, <2>3, ConvertedKept
<1> QED BY <1>2, <1>3, <1>4

LEMMA IntegersFit == OutInv /\ CopyInv => IntegersKept
<1> SUFFICES ASSUME OutInv, CopyInv, Over, NEW r \in DOMAIN read.out, NEW i \in DOMAIN read.out[r]
             PROVE  Kept(read.source.rows[r][i], read.out[r][i])
  BY DEF IntegersKept, Kept
<1>1. read.at # "none" /\ GivenSoFar /\ result \in Results
  BY DEF Over, OutInv
<1>2. r \in DOMAIN read.source.rows /\ read.out[r] = RowNow(r) /\ ~Wrong(read.out[r])
  BY <1>1 DEF GivenSoFar
<1>3. RowOf(read.source.cols, read.source.rows[r])
  <2>1. /\ DOMAIN read.source.rows = 1 .. Len(read.source.rows)
        /\ read.source.cols = result.cols
    BY <1>1, SourceRows
  <2>2. DOMAIN result.cols = 1 .. Len(result.cols) /\ Len(result.cols) \in Nat
    BY <1>1, ResultShape
  <2>3. \A j \in DOMAIN result.cols : read.source.rows[r][j] \in Cells
    <3>1. CASE read.how # "hit"
      BY <1>1, <1>2, <2>2, <3>1, ResultShape DEF GivenSoFar
    <3>2. CASE read.how = "hit"
      <4>1. PICK m : Replayed(result, touched, entry, m, read.source)
        BY <1>1, <3>2 DEF CopyInv, HitInv
      <4> QED BY <1>2, <2>1, <2>2, <4>1 DEF Replayed, Sound
    <3> QED BY <3>1, <3>2
  <2> QED BY <2>1, <2>2, <2>3 DEF RowOf
<1>4. (read.how # "direct") \in BOOLEAN
  OBVIOUS
<1> QED BY <1>2, <1>3, <1>4, RowKept DEF RowNow

-----------------------------------------------------------------------------
(* What is bound by a name is read back into the same field (meta.go:218,  *)
(* :233).                                                                  *)
THEOREM BoundIsReadBack == Spec => []LookupsAgree
BY LookupsHold, PTL DEF Spec

(* A read uses metadata that was built from its own type, for its own tag  *)
(* name, and by its own mapper or another one with the same code           *)
(* (meta.go:61).                                                           *)
THEOREM MetadataIsOwn == Spec => []MetadataFits
BY MetaInit, MetaStep, MetaFits, PTL DEF Spec

(* Where a direct read and a recorded one both succeed they agree, but for *)
(* converters, and one fails alone only for the cells of LibraryDiffers    *)
(* (scan.go:165, meta.go:256).                                             *)
THEOREM FastPathChangesNothing == Spec => []DirectAgrees
BY MetaInit, MetaStep, ReadsInit, ReadsStep, DirectFits, PTL DEF Spec

(* A hit gives what the database would have given through the recorder, for*)
(* any target and configuration, whoever has filled the entry, but for a   *)
(* time that is far from 1970 (cache.go:302, core.go:359).                 *)
THEOREM HitsAreFaithful == Spec => []HitsAgree
BY MetaInit, MetaStep, ReadsInit, ReadsStep, HitsFit, PTL DEF Spec

(* An integer target holds the number of the cell, or the read fails, but  *)
(* for the cells that get by the tests (convert.go:185, :204, :263).       *)
THEOREM IntegersStay == Spec => []IntegersKept
BY MetaInit, MetaStep, ReadsInit, ReadsStep, IntegersFit, PTL DEF Spec

(* A caller that writes to what it was given changes an entry only where   *)
(* the database had a []byte, or after it (codec.go:234, convert.go:85,    *)
(* :155).                                                                  *)
THEOREM OnlyBytesAreShared == Spec => []OnlyBytesShared
BY MetaInit, MetaStep, ReadsInit, ReadsStep, BytesFit, PTL DEF Spec
=============================================================================
