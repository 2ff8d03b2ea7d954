-------------------------------- MODULE Scan --------------------------------
(***************************************************************************)
(* The way of a result from the database to the variable of the caller     *)
(* (scan.go), directly, or recorded for the cache, or replayed from it: a  *)
(* read of a query follows another, with targets and configurations of     *)
(* their own, and any of them may find the entry that an earlier one left. *)
(* What else happens to the entry is the subject of module CachePlugin.    *)
(***************************************************************************)
EXTENDS Convert, TypeInfo

CONSTANTS
  Results,  \* results the query may have: the columns, and rows of cells
  Calls(_),  \* Calls(r) : configurations and targets that r is read with, see Call
  MaxReads,  \* bound: the reads of a behaviour
  NoEntry

ASSUME ResultsAssumption ==
  \A r \in Results :
    /\ r.cols \in Seq(STRING) /\ r.rows \in Seq(Seq(Cells))
    /\ \A k \in DOMAIN r.rows : Len(r.rows[k]) = Len(r.cols)

VARIABLES
  result,  \* the result of the query, which does not change
  entry,   \* the entry of the query in a memory store
  read,    \* the read that is under way, or the last one
  touched  \* history: whether a caller has written to what a hit gave it

vars == <<build, typeCache, result, entry, read, touched>>

(* A read is made by an instance of the library, which has a tagName, a    *)
(* mapper, strict and nullToZero.  The target is a struct type, or a map or *)
(* a scalar with its element type, of one row or of many, or a pointer to  *)
(* one.  A time is a struct, of no field that a column can be read into.   *)
Call(cfg, shape, type, many) ==
  [cfg |-> cfg, target |-> [shape |-> shape, type |-> type, many |-> many]]

-----------------------------------------------------------------------------
(* writeCell and readCell know nil and six types. UnixNano of a time that  *)
(* is far from 1970, the zero time included, is another time.              *)
Writes(c) == c.k \in {"nil", "int64", "float64", "bool", "string", "bytes", "time"}
Reads(c) == IF c.of = "far" THEN Cell("time", "time", 0 - c.v) ELSE c

Codec == INSTANCE Codec

-----------------------------------------------------------------------------
(* One row: its values by column, or the one word that it went wrong.      *)

Panicked == Cell("panic", "none", 0)
Skipped == Cell("skipped", "none", 0)

unmarshalJSONField(t, c, cfg) ==
  IF c = Null THEN convertAssign(t, c, cfg)
  ELSE IF c.k \in Texts /\ c.of \in {"int", "half", "bool"} THEN Cell("json", c.of, c.v)
  ELSE Failed

assignFieldValue(f, c, cfg) ==
  IF f.json THEN unmarshalJSONField(f.type, c, cfg) ELSE convertAssign(f.type, c, cfg)

(* A read with a recorder, which a hit has too, assigns every field from   *)
(* the cell; the others leave the fast fields to the library.              *)
FieldValue(f, c, cfg, recorded) ==
  IF recorded \/ f.json \/ ~canFastScan(f.type) THEN assignFieldValue(f, c, cfg)
  ELSE Direct(f.type, c)

(* A new value has nil pointers: a field behind one cannot be addressed.   *)
ColumnValue(info, column, c, cfg, recorded) ==
  LET at == lookupScan(info.fields, column)
  IN  IF at = 0 THEN IF cfg.strict THEN Failed ELSE Skipped
      ELSE IF info.fields[at].link = "pointer" THEN Panicked
      ELSE FieldValue(info.fields[at], c, cfg, recorded)

(* The values of a row by column, or what goes wrong first. *)
FirstWrong(values, turn) ==
  LET wrong == {i \in DOMAIN values : values[i] \in {Failed, Panicked}}
  IN  IF wrong = {} THEN values
      ELSE <<values[CHOOSE i \in wrong : \A j \in wrong : turn[i] <= turn[j]]>>

(* The direct read addresses its fast fields first, then lets the library  *)
(* fill them, then assigns the others.                                     *)
scanStructRow(info, cols, row, cfg, recorded) ==
  LET at(i) == lookupScan(info.fields, cols[i])
      fast(i) == ~info.fields[at(i)].json /\ canFastScan(info.fields[at(i)].type)
      values == [i \in DOMAIN cols |-> ColumnValue(info, cols[i], row[i], cfg, recorded)]
      turn == [i \in DOMAIN cols |->
                 IF recorded \/ at(i) = 0 \/ (fast(i) /\ values[i] = Panicked) THEN i
                 ELSE IF fast(i) THEN Len(cols) + i ELSE 2 * Len(cols) + i]
  IN  IF info.ok THEN FirstWrong(values, turn) ELSE <<Failed>>

(* An element that cannot be converted is left zero. *)
setMapRow(t, cols, row, cfg) ==
  [i \in DOMAIN cols |->
    IF row[i] = Null \/ convertAssign(t, row[i], cfg) = Failed
      THEN Zero(t.kind) ELSE convertAssign(t, row[i], cfg)]

scanScalarRow(t, cols, row, cfg) ==
  IF Len(cols) # 1 THEN <<Failed>> ELSE <<convertAssign(t, row[1], cfg)>>

(* What a pointer of this type points to. *)
Pointee(t) == Type(t.kind, FALSE, t.trait)

(* A target that is a pointer is given a new value, and the row goes there *)
(* (for a struct or a map that is all one).                                *)
scanOneValue(target, info, cols, row, cfg, recorded) ==
  IF target.shape = "struct" THEN scanStructRow(info, cols, row, cfg, recorded)
  ELSE IF target.shape = "map" THEN setMapRow(target.type, cols, row, cfg)
  ELSE scanScalarRow(Pointee(target.type), cols, row, cfg)

-----------------------------------------------------------------------------
(* Reads. *)

Init ==
  /\ build \in Builds
  /\ typeCache = <<>>
  /\ result \in Results
  /\ entry = NoEntry
  /\ read = [at |-> "none", number |-> 0]
  /\ touched = FALSE

(* Before: a read that may use the cache and finds an entry replays it.    *)
Start(call, cached) ==
  /\ read.at = "none" /\ read.number < MaxReads
  /\ LET found == IF cached /\ entry # NoEntry THEN Codec!Decode(entry) ELSE NoEntry
     IN  read' = [at |-> "rows", number |-> read.number + 1, cfg |-> call.cfg, target |-> call.target,
                  how |-> IF found # NoEntry THEN "hit" ELSE IF cached THEN "miss" ELSE "direct",
                  source |-> IF found # NoEntry THEN found ELSE result,
                  out |-> <<>>]
  /\ UNCHANGED <<build, typeCache, result, entry, touched>>

MoreRows ==
  /\ Len(read.out) < Len(read.source.rows)
  /\ read.target.many \/ read.out = <<>>

(* Next and Scan. *)
ScanRow ==
  /\ read.at = "rows" /\ MoreRows
  /\ LET struct == read.target.shape = "struct"
         info == IF struct THEN Known(read.target.type, read.cfg) ELSE [ok |-> TRUE]
         row == scanOneValue(read.target, info, read.source.cols,
                             read.source.rows[Len(read.out) + 1], read.cfg, read.how # "direct")
     IN  /\ read' = CASE row = <<Failed>> -> [read EXCEPT !.at = "failed"]
                      [] row = <<Panicked>> -> [read EXCEPT !.at = "panicked"]
                      [] OTHER -> [read EXCEPT !.out = Append(@, row)]
         /\ IF struct THEN Learn(read.target.type, read.cfg) ELSE UNCHANGED typeCache
  /\ UNCHANGED <<build, result, entry, touched>>

(* The scan ends, and After stores what was recorded. *)
Finish ==
  /\ read.at = "rows" /\ ~MoreRows
  /\ IF ~read.target.many /\ read.out = <<>>
       THEN read' = [read EXCEPT !.at = "failed"] /\ UNCHANGED entry
       ELSE /\ read' = [read EXCEPT !.at = "done"]
            /\ LET data == Codec!Encode(result.cols, SubSeq(result.rows, 1, Len(read.out)))
               IN  entry' = IF read.how = "miss" /\ data # NoEntry THEN data ELSE entry
  /\ UNCHANGED <<build, typeCache, result, touched>>

(* The database fails, between rows or after the last. *)
SourceFails ==
  /\ read.at = "rows" /\ read.how # "hit"
  /\ read' = [read EXCEPT !.at = "lost"]
  /\ UNCHANGED <<build, typeCache, result, entry, touched>>

(* A caller overwrites a value that it was given, and with it the entry if *)
(* the value is a part of it.  When it appends to the value, the capacity  *)
(* of the slice reaches into what follows in the entry: the next cell is   *)
(* another one, or nothing that can be read comes after.                   *)
Overwritten(data, at) ==
  {[data EXCEPT ![at].of = "word", ![at].v = 9], SubSeq(data, 1, at)}
    \cup (IF at < Len(data) THEN {[data EXCEPT ![at + 1] = Cell("bytes", "word", 9)]} ELSE {})

ElementType(i) ==
  IF read.target.shape = "struct"
    THEN LET fields == Known(read.target.type, read.cfg).fields
         IN  fields[lookupScan(fields, result.cols[i])].type
    ELSE read.target.type

Overwrite(r, i) ==
  /\ read.at = "done" /\ read.how = "hit" /\ Codec!Decode(entry) # NoEntry
  /\ r \in DOMAIN read.out /\ i \in DOMAIN read.out[r]
  /\ read.out[r][i] \notin {Skipped, Null} /\ read.out[r][i].k # "json"
  /\ SharesBuffer(ElementType(i), read.source.rows[r][i])
  /\ entry' \in Overwritten(entry, Codec!Place(entry, r, i))
  /\ touched' = TRUE
  /\ UNCHANGED <<build, typeCache, result, read>>

Return ==
  /\ read.at \notin {"none", "rows"}
  /\ read' = [at |-> "none", number |-> read.number]
  /\ UNCHANGED <<build, typeCache, result, entry, touched>>

Next ==
  \/ \E call \in Calls(result), cached \in BOOLEAN : Start(call, cached)
  \/ ScanRow \/ Finish \/ SourceFails \/ Return
  \/ \E r \in DOMAIN result.rows, i \in DOMAIN result.cols : Overwrite(r, i)

Spec == Init /\ [][Next]_vars

-----------------------------------------------------------------------------
(***************************************************************************)
(* Properties.                                                             *)
(***************************************************************************)

Over == read.at \in {"done", "failed", "panicked"}
OfStruct == Over /\ read.target.shape = "struct"

(* The outcome of a row if it is recorded, and whether the read got it.    *)
Info == IF OfStruct THEN Known(read.target.type, read.cfg) ELSE [ok |-> TRUE]
Recorded(r) == scanOneValue(read.target, Info, result.cols, result.rows[r], read.cfg, TRUE)
Wrong(row) == row \in {<<Failed>>, <<Panicked>>}

Got(r) == r \in DOMAIN read.out
Refused(r) == read.at \in {"failed", "panicked"} /\ r = Len(read.out) + 1 /\ r \in DOMAIN result.rows

(* A hit gives the caller what the database would have given it through    *)
(* the recorder, for any target and configuration, whoever has filled the  *)
(* entry, but for a time that is far from 1970 (cache.go:302,              *)
(* core.go:359).                                                           *)
HitsAgree ==
  Over /\ read.how = "hit" /\ ~touched =>
    \A r \in DOMAIN read.source.rows :
      /\ Got(r) => \A i \in DOMAIN read.out[r] :
                     \/ ~Wrong(Recorded(r)) /\ read.out[r][i] = Recorded(r)[i]
                     \/ result.rows[r][i].of = "far"
      /\ Refused(r) => Wrong(Recorded(r))

(* What the library does with a cell and the code does not, or the reverse.*)
LibraryDiffers(t, c) ==
  /\ t.trait # "scanner"
  /\ \/ HasConverter(t)
     \/ c = Null /\ ~t.ptr
     \/ c.k \in Floats \cup {"uint"} /\ t.kind \in Integral
     \/ c.k \in {"int64", "uint64", "uint"} /\ t.kind = "bool"
     \/ c.k \notin Texts /\ t.kind \in Texts
     \/ t.trait = "named" /\ t.kind \in {"bytes", "bool"}

(* The fields of a row for which that may be so. *)
MayDiffer(r) ==
  /\ OfStruct
  /\ \E i \in DOMAIN result.cols :
       LET at == lookupScan(Info.fields, result.cols[i])
       IN  /\ at # 0
           /\ canFastScan(Info.fields[at].type) /\ ~Info.fields[at].json
           /\ LibraryDiffers(Info.fields[at].type, result.rows[r][i])

(* The fast path changes no value: where a direct read and a recorded one  *)
(* both succeed they agree, unless a converter is registered for a type of *)
(* a basic kind, and one fails alone only for the cells of LibraryDiffers  *)
(* (scan.go:165, meta.go:256).                                             *)
DirectAgrees ==
  Over /\ read.how = "direct" =>
    \A r \in DOMAIN result.rows :
      /\ Got(r) =>
           \/ Wrong(Recorded(r)) /\ MayDiffer(r)
           \/ /\ ~Wrong(Recorded(r))
              /\ \A i \in DOMAIN result.cols :
                   \/ read.out[r][i] = Recorded(r)[i]
                   \/ OfStruct /\ HasConverter(Info.fields[lookupScan(Info.fields, result.cols[i])].type)
      /\ Refused(r) => Wrong(Recorded(r)) \/ MayDiffer(r)

Whole(c) == IF c.k \in Floats THEN Trunc(c.v) ELSE c.v

(* An integer target holds the number of the cell, or the read fails: only *)
(* a uint, a float32, a NaN and the float one past the end get by the      *)
(* tests (convert.go:185, :204, :263).                                     *)
IntegersKept ==
  Over =>
    \A r \in DOMAIN read.out : \A i \in DOMAIN read.out[r] :
      LET c == read.source.rows[r][i]
      IN  read.out[r][i].k \in Integral /\ read.out[r][i].of = "int" /\ read.out[r][i] # c =>
            \/ c.k \in {"uint", "float32"} \/ c.of = "nan"
            \/ c.k = "float64" /\ c.v \in {2 * Wide, 4 * Wide}
            \/ read.out[r][i].v = Whole(c)

(* A caller that writes to what it was given changes an entry only where   *)
(* the database had a []byte, or after it; text and the rest are copied    *)
(* (codec.go:234, convert.go:85, :155).                                    *)
OnlyBytesShared ==
  entry # NoEntry /\ Codec!Decode(entry) # NoEntry =>
    \A r \in DOMAIN Codec!Decode(entry).rows : \A i \in DOMAIN result.cols :
      \/ Codec!Decode(entry).rows[r][i] = Reads(result.rows[r][i])
      \/ touched /\ \E q \in 1 .. r : \E j \in DOMAIN result.cols :
                      /\ result.rows[q][j].k = "bytes"
                      /\ Codec!Place(entry, q, j) <= Codec!Place(entry, r, i)

(* A read uses metadata that was built from its own type, for its own tag  *)
(* name, and by its own mapper or another one with the same code, whoever  *)
(* has used the type before (meta.go:61).                                  *)
MetadataFits ==
  OfStruct =>
    \E mapper \in {call.cfg.mapper : call \in Calls(result)} :
      /\ mapper.code = read.cfg.mapper.code
      /\ Info = buildTypeInfo(read.target.type, read.cfg.tagName, mapper)

(* What is bound by a name is read back from the column of that name into  *)
(* the same field, unless two fields have names that differ in case only   *)
(* (meta.go:218, :233).                                                    *)
LookupsAgree ==
  OfStruct /\ Info.ok =>
    LET fields == Info.fields
    IN  (\A i, j \in DOMAIN fields : Lower[fields[i].name] = Lower[fields[j].name] =>
                                       fields[i].name = fields[j].name)
        => \A n \in DOMAIN Lower :
             lookupBind(fields, n) # 0 => lookupScan(fields, n) = lookupBind(fields, n)

-----------------------------------------------------------------------------
(* What the comments say and the code does not do. *)

(* "WithNullToZeroValue sets NULL -> zero value for basic types, default    *)
(* true" (config.go:124): a row that is one NULL can be read.              *)
NullsBecomeZero ==
  OfStruct /\ read.cfg.nullToZero /\ ~read.cfg.strict /\ Len(Info.fields) = 1 =>
    \A r \in DOMAIN result.rows : result.rows[r] = <<Null>> => ~Refused(r)
=============================================================================
