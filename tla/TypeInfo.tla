------------------------------ MODULE TypeInfo ------------------------------
(***************************************************************************)
(* The metadata of a struct type (meta.go): its fields, flattened, the     *)
(* maps that find one by the name of a column or of a placeholder, and the *)
(* cache of it that all instances of the library in a process share.       *)
(*                                                                         *)
(* A name mapper is a record: the address of its code, and the names it    *)
(* gives.  Two closures of one function have the same code.                *)
(***************************************************************************)
EXTENDS Integers, Sequences, SequencesExt

CONSTANTS
  Structs,  \* Structs[s] : the fields of a struct type, in their order
  Lower     \* Lower[n] : a name in lower case

VARIABLE
  typeCache  \* the metadata built so far, by key

(* What the tag of a name says: a column ("invalid" if it has options and  *)
(* no column), and whether the column holds JSON.                          *)
Tag(column, json) == [column |-> column, json |-> json]
NoTag == Tag("", FALSE)

(* An exported field as it is declared, with its tags by their name.  inner*)
(* has the fields of an embedded struct, which are no structs themselves   *)
(* (bound: one level), and link says whether it is embedded by pointer.    *)
Field(name, tags, type) ==
  [name |-> name, tags |-> tags, type |-> type, inner |-> <<>>, link |-> "value"]
Embedded(name, tags, inner, link) ==
  [name |-> name, tags |-> tags, type |-> [kind |-> "struct", ptr |-> FALSE, trait |-> "plain"],
   inner |-> inner, link |-> link]

-----------------------------------------------------------------------------
(* addField *)
Leaf(f, tag, link, mapper) ==
  [name |-> f.name, column |-> IF tag = NoTag THEN mapper.names[f.name] ELSE tag.column,
   tagged |-> tag # NoTag, json |-> tag.json, type |-> f.type, link |-> link]

Added(f, link, tagName, mapper) ==
  LET tag == f.tags[tagName]
  IN  IF tag.column = "-" THEN <<>> ELSE <<Leaf(f, tag, link, mapper)>>

collectFields(fields, tagName, mapper) ==
  LET flat(f) == f.inner # <<>> /\ f.tags[tagName] = NoTag
      inside(f) == FlattenSeq([j \in DOMAIN f.inner |-> Added(f.inner[j], f.link, tagName, mapper)])
  IN  FlattenSeq([i \in DOMAIN fields |->
        IF flat(fields[i]) THEN inside(fields[i]) ELSE Added(fields[i], "value", tagName, mapper)])

buildTypeInfo(s, tagName, mapper) ==
  LET fields == collectFields(Structs[s], tagName, mapper)
  IN  [ok |-> \A i \in DOMAIN fields : fields[i].column \notin {"", "invalid"}, fields |-> fields]

(* The maps keep the last field of a name. *)
LastOf(fields, Is(_)) ==
  LET found == {i \in DOMAIN fields : Is(fields[i])}
  IN  IF found = {} THEN 0 ELSE Max(found)

FirstFound(a, b, c) == IF a # 0 THEN a ELSE IF b # 0 THEN b ELSE c

byColumn(fields, n) == LastOf(fields, LAMBDA f : f.tagged /\ f.column = n)
byMapped(fields, n) == LastOf(fields, LAMBDA f : ~f.tagged /\ f.column = n)
byFieldName(fields, n) == LastOf(fields, LAMBDA f : f.name = n)
byName(fields, n) == LastOf(fields, LAMBDA f : Lower[f.name] = Lower[n])

(* The field that takes a placeholder, and the one that takes a column. *)
lookupBind(fields, n) ==
  FirstFound(byColumn(fields, n), byMapped(fields, n), byFieldName(fields, n))

(* Mutant of lookupScan: the name of a field comes before its column. *)
lookupScanByName(fields, n) ==
  FirstFound(byName(fields, n), byColumn(fields, n), byMapped(fields, n))

lookupScan(fields, n) ==
  FirstFound(byColumn(fields, n), byMapped(fields, n), byName(fields, n))

-----------------------------------------------------------------------------
(* Mutant of metaKey: the tag name is left out. *)
metaKeyNoTag(s, cfg) == <<s, cfg.mapper.code>>

metaKey(s, cfg) == <<s, cfg.tagName, cfg.mapper.code>>

(* getTypeInfo. Of calls that race, all get what the first one stored; an  *)
(* error is not stored.                                                    *)
Known(s, cfg) ==
  IF metaKey(s, cfg) \in DOMAIN typeCache THEN typeCache[metaKey(s, cfg)]
  ELSE buildTypeInfo(s, cfg.tagName, cfg.mapper)

Learn(s, cfg) ==
  typeCache' =
    IF ~Known(s, cfg).ok THEN typeCache
    ELSE [key \in DOMAIN typeCache \cup {metaKey(s, cfg)} |->
           IF key \in DOMAIN typeCache THEN typeCache[key] ELSE Known(s, cfg)]
=============================================================================
