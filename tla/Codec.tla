------------------------------- MODULE Codec -------------------------------
(***************************************************************************)
(* binaryCodec (cache/codec.go): an entry of the cache is a header, which  *)
(* is left out, the number of columns and their names, the number of rows  *)
(* and their cells.                                                        *)
(* A number, a name or a cell is one token; that a token reads back as it  *)
(* was written, but for a time, is taken from the encoding.                *)
(***************************************************************************)
EXTENDS Integers, Sequences, SequencesExt

CONSTANTS
  NoEntry,    \* the error of Encode and of Decode
  Writes(_),  \* whether writeCell has a tag for a cell
  Reads(_)    \* what readCell makes of a cell that writeCell wrote

(* Mutant of Encode: the cells are written column by column. *)
EncodeByColumn(cols, rows) ==
  IF \E r \in DOMAIN rows : Len(rows[r]) # Len(cols) \/ \E c \in DOMAIN rows[r] : ~Writes(rows[r][c])
    THEN NoEntry
    ELSE <<Len(cols)>> \o cols \o <<Len(rows)>>
           \o FlattenSeq([c \in DOMAIN cols |-> [r \in DOMAIN rows |-> rows[r][c]]])

Encode(cols, rows) ==
  IF \E r \in DOMAIN rows : Len(rows[r]) # Len(cols) \/ \E c \in DOMAIN rows[r] : ~Writes(rows[r][c])
    THEN NoEntry
    ELSE <<Len(cols)>> \o cols \o <<Len(rows)>> \o FlattenSeq(rows)

(* Where the cell of a row and a column is. *)
Place(data, row, col) == 2 + data[1] + (row - 1) * data[1] + col

Decode(data) ==
  LET cols == data[1]
      rows == data[2 + cols]
  IN  IF Len(data) # 2 + cols + rows * cols THEN NoEntry
      ELSE [cols |-> SubSeq(data, 2, 1 + cols),
            rows |-> [r \in 1 .. rows |-> [c \in 1 .. cols |-> Reads(data[Place(data, r, c)])]]]
=============================================================================
