------------------------ MODULE PlaceholdersProofs ------------------------
(***************************************************************************)
(* Proofs about Placeholders, for queries of any length over any bytes.    *)
(*                                                                         *)
(* The placeholders lie in the query, in order and apart (PlacesAreApart): *)
(* a placeholder that was found ends before the byte the parser looks at,  *)
(* or, while it reads a name, before the name; a name begins and goes on   *)
(* within the query; and the parser only goes forward.  A comment that is  *)
(* not closed leads past the end of the query, from where no placeholder   *)
(* is found.                                                               *)
(*                                                                         *)
(* They are those of the lexical structure (FoundAsLexed): before each     *)
(* byte, the parser and the automaton that reads the query byte by byte    *)
(* stand for the same.                                                     *)
(*                                                                         *)
(* With a mark in the place of each name, the query reads the same         *)
(* (BindingReadsTheSame): the automaton is run on the query and on the     *)
(* text that binding writes, of which a name is no part before it ends,    *)
(* and after each byte both are in the same state.  What putting parts     *)
(* after each other gives is proved in BindProofs.                         *)
(***************************************************************************)
EXTENDS Placeholders, BindProofs

Span == [named : BOOLEAN, pos : Nat, end : Nat]

(* Every variable has its type. *)
ParserTypes ==
  /\ query \in Seq(Bytes)
  /\ i \in Nat \ {0}
  /\ mode \in {"scan", "quoted", "line", "block", "name"}
  /\ open \in Nat
  /\ places \in Seq(Span)

(* How far the placeholders so far reach. *)
Reach == IF mode = "name" THEN open ELSE i

OrderInv ==
  /\ ParserTypes
  /\ mode = "name" => open < i /\ i <= Len(query) + 1
  /\ \A k \in DOMAIN places : places[k].end <= Reach
  /\ PlacesInOrder

LEMMA SpansReach ==
  ASSUME NEW s \in Seq(Span), NEW k \in DOMAIN s
  PROVE  s[k].pos \in Nat /\ s[k].end \in Nat
<1>1. s[k] \in Span
  OBVIOUS
<1> QED BY <1>1 DEF Span

(* A placeholder that begins where the others have ended keeps the order.  *)
LEMMA AddedInOrder ==
  ASSUME ParserTypes, PlacesInOrder, UNCHANGED query,
         NEW named \in BOOLEAN, NEW pos \in Nat, NEW end \in Nat,
         places' = Append(places, Place(named, pos, end)),
         pos < end, end <= Len(query) + 1,
         \A k \in DOMAIN places : places[k].end <= pos
  PROVE  /\ places' \in Seq(Span)
         /\ PlacesInOrder'
         /\ \A k \in DOMAIN places' : places'[k].end <= end
<1>1. Place(named, pos, end) \in Span /\ places \in Seq(Span) /\ Len(query) \in Nat
  BY DEF Place, Span, ParserTypes
<1>2. /\ places' \in Seq(Span)
      /\ DOMAIN places' = 1 .. Len(places) + 1
      /\ DOMAIN places = 1 .. Len(places) /\ Len(places) \in Nat
      /\ \A k \in 1 .. Len(places) : places'[k] = places[k]
      /\ places'[Len(places) + 1] = Place(named, pos, end)
  BY <1>1
<1>3. \A k \in DOMAIN places : places[k].pos \in Nat /\ places[k].end \in Nat
  BY <1>1, SpansReach
<1>4. ASSUME NEW k \in DOMAIN places'
      PROVE  /\ places'[k].pos < places'[k].end
             /\ places'[k].end <= Len(query) + 1
             /\ k > 1 => places'[k - 1].end <= places'[k].pos
             /\ places'[k].end <= end
  <2>1. CASE k \in DOMAIN places
    BY <1>2, <1>3, <2>1 DEF PlacesInOrder
  <2>2. CASE k = Len(places) + 1
    <3>1. places'[k] = [named |-> named, pos |-> pos, end |-> end]
      BY <1>2, <2>2 DEF Place
    <3>2. places'[k].pos = pos /\ places'[k].end = end
      BY <3>1
    <3>3. ASSUME k > 1 PROVE places'[k - 1].end <= pos
      <4>1. k - 1 \in 1 .. Len(places)
        BY <1>2, <2>2, <3>3
      <4> QED BY <1>2, <4>1
    <3> QED BY <3>2, <3>3
  <2> QED BY <1>2, <2>1, <2>2
<1> QED BY <1>2, <1>4 DEF PlacesInOrder

(* Without a new placeholder the order stays, as the parser goes forward.  *)
LEMMA NoneAdded ==
  ASSUME OrderInv, UNCHANGED <<query, places>>, ParserTypes', Reach <= Reach',
         mode' = "name" => open' < i' /\ i' <= Len(query) + 1
  PROVE  OrderInv'
<1>1. \A k \in DOMAIN places : places[k].end \in Nat
  BY SpansReach DEF OrderInv, ParserTypes
<1>2. Reach \in Nat /\ Reach' \in Nat
  BY DEF OrderInv, ParserTypes, Reach
<1> QED BY <1>1, <1>2 DEF OrderInv, PlacesInOrder

LEMMA OrderInit == Init => OrderInv
<1> SUFFICES ASSUME Init PROVE OrderInv
  OBVIOUS
<1>1. query \in Seq(Bytes)
  BY ByteClasses DEF Init, BoundedSeq, SeqOf
<1> QED BY <1>1 DEF Init, OrderInv, ParserTypes, PlacesInOrder

LEMMA OrderStep == OrderInv /\ [Next]_vars => OrderInv'
<1> SUFFICES ASSUME OrderInv, [Next]_vars PROVE OrderInv'
  OBVIOUS
<1>types. ParserTypes /\ Len(query) \in Nat
  BY DEF OrderInv, ParserTypes
<1>1. ASSUME mode = "scan", UNCHANGED query, Quote PROVE OrderInv'
  BY <1>types, <1>1, NoneAdded DEF Quote, Enter, ParserTypes, Reach
<1>2. ASSUME mode = "scan", UNCHANGED query, Comment PROVE OrderInv'
  BY <1>types, <1>2, NoneAdded DEF Comment, Enter, ParserTypes, Reach
<1>3. ASSUME mode = "scan", UNCHANGED query, Colon PROVE OrderInv'
  BY <1>types, <1>3, NoneAdded DEF Colon, Enter, At, ParserTypes, Reach
<1>4. ASSUME mode = "scan", UNCHANGED query, Plain PROVE OrderInv'
  BY <1>types, <1>4, NoneAdded DEF Plain, ParserTypes, Reach
<1>5. ASSUME mode = "scan", UNCHANGED query, Positional PROVE OrderInv'
  <2>1. /\ places' = Append(places, Place(FALSE, i, i + 1))
        /\ i' = i + 1 /\ UNCHANGED <<mode, open>> /\ i <= Len(query)
    BY <1>5 DEF Positional, At
  <2>2. \A k \in DOMAIN places : places[k].end <= i
    BY <1>5 DEF OrderInv, Reach
  <2>3. /\ places' \in Seq(Span)
        /\ PlacesInOrder'
        /\ \A k \in DOMAIN places' : places'[k].end <= i + 1
    <3>1. i \in Nat /\ i + 1 \in Nat /\ i < i + 1 /\ i + 1 <= Len(query) + 1
      BY <1>types, <2>1 DEF ParserTypes
    <3> QED BY <1>types, <1>5, <2>1, <2>2, <3>1, AddedInOrder DEF OrderInv
  <2>4. mode' = "scan" /\ Reach' = i + 1
    BY <1>5, <2>1 DEF Reach
  <2>5. i' \in Nat \ {0} /\ query' \in Seq(Bytes) /\ open' \in Nat
    BY <1>types, <1>5, <2>1 DEF ParserTypes
  <2>6. ParserTypes'
    BY <2>3, <2>4, <2>5 DEF ParserTypes
  <2> QED BY <2>3, <2>4, <2>6 DEF OrderInv
<1>6. ASSUME InQuotes PROVE OrderInv'
  <2>1. /\ mode' \in {"scan", "quoted"} /\ i' \in {i, i + 1, i + 2} /\ mode = "quoted"
        /\ UNCHANGED <<query, open, places>>
    BY <1>6 DEF InQuotes
  <2> QED BY <1>types, <2>1, NoneAdded DEF ParserTypes, Reach
<1>7. ASSUME InLine PROVE OrderInv'
  BY <1>types, <1>7, NoneAdded DEF InLine, ParserTypes, Reach
<1>8. ASSUME InBlock PROVE OrderInv'
  BY <1>types, <1>8, NoneAdded DEF InBlock, ParserTypes, Reach
<1>9. ASSUME InName PROVE OrderInv'
  <2>1. open < i /\ i <= Len(query) + 1 /\ mode = "name" /\ UNCHANGED <<query, open>>
    BY <1>9 DEF InName, OrderInv
  <2>2. CASE IsIdentChar(i)
    BY <1>types, <1>9, <2>1, <2>2, NoneAdded DEF InName, IsIdentChar, ParserTypes, Reach
  <2>3. CASE ~IsIdentChar(i) /\ i <= open + 1
    <3>1. ~(i > open + 1) /\ i \in Nat /\ open \in Nat
      BY <1>types, <2>3 DEF ParserTypes
    <3>2. places' = places /\ i' = i /\ mode' = "scan"
      BY <1>9, <2>3, <3>1 DEF InName
    <3>3. Reach = open /\ Reach' = i /\ ParserTypes'
      BY <1>types, <2>1, <3>2 DEF ParserTypes, Reach
    <3> QED BY <2>1, <3>1, <3>2, <3>3, NoneAdded
  <2>4. CASE ~IsIdentChar(i) /\ i > open + 1
    <3>1. /\ places' = Append(places, Place(TRUE, open, i))
          /\ i' = i /\ mode' = "scan"
      BY <1>9, <2>4 DEF InName
    <3>2. \A k \in DOMAIN places : places[k].end <= open
      BY <2>1 DEF OrderInv, Reach
    <3>3. /\ places' \in Seq(Span)
          /\ PlacesInOrder'
          /\ \A k \in DOMAIN places' : places'[k].end <= i
      BY <1>types, <2>1, <2>4, <3>1, <3>2, AddedInOrder DEF OrderInv, ParserTypes
    <3> QED BY <1>types, <2>1, <3>1, <3>3 DEF OrderInv, ParserTypes, Reach
  <2> QED BY <1>types, <2>2, <2>3, <2>4 DEF ParserTypes
<1>10. ASSUME UNCHANGED vars PROVE OrderInv'
  BY <1>types, <1>10, NoneAdded DEF vars, OrderInv, ParserTypes, Reach
<1> QED
  BY <1>1, <1>2, <1>3, <1>4, <1>5, <1>6, <1>7, <1>8, <1>9, <1>10 DEF Next, Scan

-----------------------------------------------------------------------------
(* The placeholders lie in the query, in order and apart, so that the text *)
(* between them can be cut (bind.go:184, :327, :373, :430).                *)
THEOREM PlacesAreApart == Spec => []PlacesInOrder
<1>1. OrderInv => PlacesInOrder
  BY DEF OrderInv
<1> QED BY <1>1, OrderInit, OrderStep, PTL DEF Spec
-----------------------------------------------------------------------------
(* The automaton. *)

LexModes == {"text", "quoted", "closing", "dash", "line", "slash", "block", "star", "colon", "name"}
LexState == [mode : LexModes, open : Nat, quote : Bytes, places : Seq(Span)]
LexStart == [mode |-> "text", open |-> 0, quote |-> "?", places |-> <<>>]

LEMMA SpanTypes ==
  ASSUME NEW named \in BOOLEAN, NEW pos \in Nat, NEW end \in Nat
  PROVE  /\ Place(named, pos, end) \in Span
         /\ \A ps \in Seq(Span) : Append(ps, Place(named, pos, end)) \in Seq(Span)
<1>1. Place(named, pos, end) \in Span
  BY DEF Place, Span
<1> QED
  <2> DEFINE p == Place(named, pos, end)
  <2>1. p \in Span
    BY <1>1
  <2> HIDE DEF p
  <2>2. \A ps \in Seq(Span) : Append(ps, p) \in Seq(Span)
    BY <2>1
  <2> QED BY <2>1, <2>2 DEF p

LEMMA StartIsState == LexStart \in LexState
<1>1. <<>> \in Seq(Span) /\ "?" \in Bytes /\ "text" \in LexModes /\ 0 \in Nat
  BY DEF Bytes, Marks, LexModes
<1> QED BY <1>1 DEF LexStart, LexState

(* What is read as text, after the placeholders ps. *)
AsText(t, c, j, ps) ==
  /\ c \in Quotes => t.mode = "quoted" /\ t.quote = c /\ t.places = ps
  /\ c = "-" => t.mode = "dash" /\ t.places = ps
  /\ c = "/" => t.mode = "slash" /\ t.places = ps
  /\ c = ":" => t.mode = "colon" /\ t.open = j /\ t.places = ps
  /\ c = "?" => t.mode = "text" /\ t.places = Append(ps, Place(FALSE, j, j + 1))
  /\ c \in Idents \cup Others \cup {"*", "nl"} => t.mode = "text" /\ t.places = ps

LEMMA TextReads ==
  ASSUME NEW s \in LexState, NEW c \in Bytes, NEW j \in Nat, NEW t, t = Text(s, c, j)
  PROVE  t \in LexState /\ AsText(t, c, j, s.places)
<1> USE DEF AsText
<1>1. \A m \in LexModes : [s EXCEPT !.mode = m, !.open = j, !.quote = c] \in LexState
  BY DEF LexState
<1>2. Append(s.places, Place(FALSE, j, j + 1)) \in Seq(Span)
  <2>1. s.places \in Seq(Span) /\ j + 1 \in Nat /\ FALSE \in BOOLEAN
    BY DEF LexState
  <2> QED BY <2>1, SpanTypes
<1>3. c \in Quotes => c \notin Idents \cup Others \cup Marks
  BY ByteClasses
<1>4. c \in Idents \cup Others => c \notin Quotes \cup Marks
  BY ByteClasses
<1>5. CASE c \in Quotes
  <2>1. c \notin Idents \cup Others \cup {"*", "nl"} /\ c \notin {"-", "/", ":", "?"}
    BY <1>3, <1>5 DEF Marks
  <2>2. t = [s EXCEPT !.mode = "quoted", !.open = j, !.quote = c]
    BY <1>5, <2>1 DEF Text
  <2>3. t \in LexState
    BY <1>1, <2>2 DEF LexModes
  <2>4. t.mode = "quoted" /\ t.quote = c /\ t.places = s.places
    BY <2>2 DEF LexState
  <2> QED BY <2>1, <2>3, <2>4
<1>6. CASE c \in {"-", "/", ":"}
  <2>1. c \notin Quotes \cup Idents \cup Others
    BY <1>3, <1>4, <1>6 DEF Marks
  <2>2. t = [s EXCEPT !.mode = IF c = "-" THEN "dash" ELSE IF c = "/" THEN "slash" ELSE "colon",
                      !.open = j, !.quote = c]
    BY <1>6, <2>1 DEF Text
  <2> QED BY <1>6, <2>1, <2>2 DEF LexState, LexModes
<1>7. CASE c = "?"
  <2>1. c \notin Quotes \cup Idents \cup Others
    BY <1>3, <1>4, <1>7 DEF Marks
  <2>2. t = [[s EXCEPT !.mode = "text", !.open = j, !.quote = c]
               EXCEPT !.places = Append(@, Place(FALSE, j, j + 1))]
    BY <1>7, <2>1 DEF Text
  <2>3. t = [s EXCEPT !.mode = "text", !.open = j, !.quote = c,
                      !.places = Append(s.places, Place(FALSE, j, j + 1))]
    BY <2>2 DEF LexState
  <2> QED BY <1>2, <1>7, <2>1, <2>3 DEF LexState, LexModes
<1>8. CASE c \in Idents \cup Others \cup {"*", "nl"}
  <2>1. c \notin Quotes \cup {"-", "/", ":", "?"}
    BY <1>3, <1>4, <1>8 DEF Marks
  <2>2. t = [s EXCEPT !.mode = "text", !.open = j, !.quote = c]
    BY <2>1 DEF Text
  <2> QED BY <2>1, <2>2 DEF LexState, LexModes
<1> QED BY <1>5, <1>6, <1>7, <1>8 DEF Bytes, Marks

LEMMA EmitIs ==
  ASSUME NEW s \in LexState, NEW j \in Nat
  PROVE  Emit(s, j) \in LexState /\ Emit(s, j).places = Append(s.places, Place(TRUE, s.open, j))
<1>1. s.open \in Nat /\ s.places \in Seq(Span)
  BY DEF LexState
<1>2. Append(s.places, Place(TRUE, s.open, j)) \in Seq(Span)
  BY <1>1, SpanTypes
<1> QED
  <2> DEFINE more == Append(s.places, Place(TRUE, s.open, j))
  <2>1. more \in Seq(Span)
    BY <1>2
  <2>2. Emit(s, j) = [s EXCEPT !.places = more]
    BY DEF Emit
  <2> HIDE DEF more
  <2>3. Emit(s, j) \in LexState /\ Emit(s, j).places = more
    BY <2>1, <2>2 DEF LexState
  <2> QED BY <2>3 DEF more

LEMMA ReadTypes ==
  ASSUME NEW s \in LexState, NEW c \in Bytes, NEW j \in Nat
  PROVE  Read(s, c, j) \in LexState
<1>1. \A m \in LexModes : [s EXCEPT !.mode = m] \in LexState
  BY DEF LexState
<1>2. Text(s, c, j) \in LexState
  BY TextReads
<1>3. Text(Emit(s, j), c, j) \in LexState
  <2> DEFINE e == Emit(s, j)
  <2>1. e \in LexState
    BY EmitIs
  <2> HIDE DEF e
  <2>2. Text(e, c, j) \in LexState
    BY <2>1, TextReads
  <2> QED BY <2>2 DEF e
<1>4. s.mode \in LexModes
  BY DEF LexState
<1> QED BY <1>1, <1>2, <1>3, <1>4 DEF Read, LexModes

(* The automaton reads each byte of the query. *)
LEMMA AutomatonRuns ==
  ASSUME NEW q \in Seq(Bytes)
  PROVE  /\ Automaton(q) \in [0 .. Len(q) -> LexState]
         /\ Automaton(q)[0] = LexStart
         /\ \A n \in 1 .. Len(q) : Automaton(q)[n] = Read(Automaton(q)[n - 1], q[n], n)
<1> DEFINE Rule(f) ==
      f = [n \in 0 .. Len(q) |-> IF n = 0 THEN LexStart ELSE Read(f[n - 1], q[n], n)]
           after == CHOOSE f : Rule(f)
<1>0. Len(q) \in Nat /\ DOMAIN q = 1 .. Len(q) /\ \A n \in 1 .. Len(q) : q[n] \in Bytes
  OBVIOUS
<1>1. PICK f \in [0 .. Len(q) -> LexState] : Rule(f)
  <2> DEFINE step == [n \in 1 .. Len(q) |-> [s \in LexState |-> Read(s, q[n], n)]]
             N == Len(q)
  <2>1. step \in [1 .. Len(q) -> [LexState -> LexState]]
    BY <1>0, ReadTypes
  <2>2. LexStart \in LexState
    BY StartIsState
  <2>3. N \in Nat /\ step \in [1 .. N -> [LexState -> LexState]]
    BY <1>0, <2>1
  <2>4. PICK f \in [0 .. N -> LexState] : Follows(f, N, LexStart, step)
    <3> HIDE DEF N, step
    <3> QED BY <2>2, <2>3, RecursionExists
  <2>5. \A n \in 1 .. N : f[n] = Read(f[n - 1], q[n], n)
    <3> SUFFICES ASSUME NEW n \in 1 .. N PROVE f[n] = Read(f[n - 1], q[n], n)
      OBVIOUS
    <3>1. f[n] = step[n][f[n - 1]] /\ n - 1 \in 0 .. N
      BY <1>0, <2>4 DEF Follows
    <3>2. f[n - 1] \in LexState
      BY <2>4, <3>1
    <3> QED BY <3>1, <3>2
  <2>6. f = [n \in 0 .. N |-> IF n = 0 THEN LexStart ELSE Read(f[n - 1], q[n], n)]
    BY <1>0, <2>4, <2>5 DEF Follows
  <2> QED BY <2>4, <2>6
<1>2. Rule(after)
  BY <1>1, Zenon
<1>3. Automaton(q) = after
  BY DEF Automaton, LexStart
<1> HIDE DEF after
<1>4. /\ DOMAIN after = 0 .. Len(q) /\ after[0] = LexStart
      /\ \A n \in 1 .. Len(q) : after[n] = Read(after[n - 1], q[n], n)
  BY <1>0, <1>2
(* What the rule asks for is unique, so its values are states. *)
<1>5. after \in [0 .. Len(q) -> LexState]
  <2> DEFINE Bad == {n \in 0 .. Len(q) : after[n] \notin LexState}
  <2> SUFFICES Bad = {}
    BY <1>2, <1>4
  <2> SUFFICES ASSUME Bad # {} PROVE FALSE
    OBVIOUS
  <2>1. PICK m \in Bad : \A n \in Bad : m <= n
    <3>1. Bad \in SUBSET Nat
      OBVIOUS
    <3> HIDE DEF Bad
    <3> QED BY <3>1, LeastNumber
  <2>2. m # 0
    BY <1>4, <2>1, StartIsState
  <2>3. m \in 1 .. Len(q) /\ m - 1 \in 0 .. Len(q) /\ m - 1 \notin Bad
    BY <1>0, <2>1, <2>2
  <2>4. after[m - 1] \in LexState
    BY <2>3
  <2> QED BY <1>0, <1>4, <2>1, <2>3, <2>4, ReadTypes
<1> QED BY <1>3, <1>4, <1>5
(* What the automaton does with a byte, by its state. *)
LEMMA WhatIsRead ==
  ASSUME NEW s \in LexState, NEW c \in Bytes, NEW j \in Nat, NEW t, t = Read(s, c, j)
  PROVE  /\ s.mode = "quoted" =>
              /\ t.mode = IF c = s.quote THEN "closing" ELSE "quoted"
              /\ t.quote = s.quote /\ t.places = s.places
         /\ s.mode = "closing" /\ c = s.quote =>
              t.mode = "quoted" /\ t.quote = s.quote /\ t.places = s.places
         /\ s.mode = "dash" /\ c = "-" => t.mode = "line" /\ t.places = s.places
         /\ s.mode = "line" =>
              t.mode = (IF c = "nl" THEN "text" ELSE "line") /\ t.places = s.places
         /\ s.mode = "slash" /\ c = "*" => t.mode = "block" /\ t.places = s.places
         /\ s.mode \in {"block", "star"} =>
              /\ t.mode = IF c = "*" THEN "star"
                          ELSE IF s.mode = "star" /\ c = "/" THEN "text" ELSE "block"
              /\ t.places = s.places
         /\ s.mode = "colon" /\ c = ":" => t.mode = "text" /\ t.places = s.places
         /\ s.mode = "colon" /\ c \in Idents =>
              t.mode = "name" /\ t.open = s.open /\ t.places = s.places
         /\ s.mode = "name" /\ c \in Idents => t = s
<1>1. c \in Idents => c # ":"
  BY ByteClasses DEF Marks
<1> QED BY <1>1 DEF Read, LexState

-----------------------------------------------------------------------------
(* The parser and the automaton.                                           *)
(*                                                                         *)
(* When the parser is about to look at byte i, the automaton has read the  *)
(* bytes before it.  What the parser decided by looking ahead, or at the   *)
(* end of a name, the automaton decides at byte i.                         *)

(* A state that reads c, the j-th byte, as text, and then has the places ps. *)
Ready(s, c, j, ps) ==
  \/ s.mode = "name" /\ c \notin Idents /\ ps = Emit(s, j).places
  \/ /\ s.places = ps
     /\ \/ s.mode = "text"
        \/ s.mode = "dash" /\ c # "-"
        \/ s.mode = "slash" /\ c # "*"
        \/ s.mode = "closing" /\ c # s.quote
        \/ s.mode = "colon" /\ c # ":" /\ c \notin Idents
        \/ s.mode = "line" /\ c = "nl"

(* The state of the parser at byte j of q, and the automaton's A[j - 1]. *)
Agree(A, q, j, m, o, ps) ==
  LET n == Len(q)
      s == A[j - 1]
  IN  /\ m = "scan" => IF j <= n THEN Ready(s, q[j], j, ps) ELSE ps = Final(A[n], n)
      /\ m # "scan" => j <= n + 1 /\ s.places = ps
      /\ m = "quoted" => o \in 1 .. n /\ s.mode = "quoted" /\ s.quote = q[o]
      /\ m = "line" => s.mode = "line"
      /\ m = "block" => s.mode \in {"block", "star"} /\ ~(s.mode = "star" /\ j <= n /\ q[j] = "/")
      /\ m = "name" =>
           /\ o < j /\ s.open = o
           /\ IF j = o + 1 THEN s.mode = "colon" /\ ~(j <= n /\ q[j] = ":") ELSE s.mode = "name"

LexInv == Agree(Automaton(query), query, i, mode, open, places)

(* What a state that is ready becomes when it reads. *)
LEMMA ReadyReads ==
  ASSUME NEW s \in LexState, NEW c \in Bytes, NEW j \in Nat, NEW ps, Ready(s, c, j, ps),
         NEW t, t = Read(s, c, j)
  PROVE  AsText(t, c, j, ps)
<1>1. CASE s.mode = "line"
  <2>1. c = "nl" /\ t.mode = "text" /\ t.places = ps
    BY <1>1, WhatIsRead DEF Ready
  <2>2. c \notin Quotes /\ c \notin {"-", "/", ":", "?"}
    BY <2>1, ByteClasses DEF Marks
  <2> QED BY <2>1, <2>2 DEF AsText
<1>2. CASE s.mode = "name"
  <2>1. PICK e : e = Emit(s, j)
    OBVIOUS
  <2>2. e \in LexState /\ e.places = ps /\ c \notin Idents
    BY <1>2, <2>1, EmitIs DEF Ready
  <2>3. t = Text(e, c, j)
    BY <1>2, <2>1, <2>2 DEF Read
  <2> QED BY <2>2, <2>3, TextReads
<1>3. CASE s.mode \notin {"line", "name"}
  <2>1. t = Text(s, c, j) /\ s.places = ps
    BY <1>3 DEF Ready, Read
  <2> QED BY <2>1, TextReads
<1> QED BY <1>1, <1>2, <1>3

(* Where the parser is back in the outer loop, the automaton reads text,   *)
(* or is at the end of the query.                                          *)
TextAt(A, q, j, ps) ==
  LET n == Len(q)
      s == A[j - 1]
  IN  /\ s.places = ps
      /\ \/ s.mode = "text"
         \/ s.mode = "dash" /\ (j <= n => q[j] # "-")
         \/ s.mode = "slash" /\ (j <= n => q[j] # "*")
         \/ s.mode = "closing" /\ (j <= n => q[j] # s.quote)
         \/ s.mode = "colon" /\ (j <= n => q[j] # ":" /\ q[j] \notin Idents)
         \/ s.mode = "line" /\ (j <= n => q[j] = "nl")
         \/ s.mode \in {"quoted", "block", "star"} /\ j > n

LEMMA AgreesAtText ==
  ASSUME NEW q \in Seq(Bytes), NEW A, NEW j \in Nat, j >= 1, j <= Len(q) + 1, NEW o, NEW ps,
         TextAt(A, q, j, ps)
  PROVE  Agree(A, q, j, "scan", o, ps)
<1>1. Len(q) \in Nat
  OBVIOUS
<1>2. CASE j <= Len(q)
  BY <1>1, <1>2 DEF Agree, Ready, TextAt
<1>3. CASE j = Len(q) + 1
  <2>1. A[Len(q)] = A[j - 1] /\ ~(j <= Len(q))
    BY <1>1, <1>3
  <2> QED BY <1>1, <2>1 DEF Agree, Final, TextAt
<1> QED BY <1>1, <1>2, <1>3

LEMMA LexInit == Init => LexInv
<1> SUFFICES ASSUME Init PROVE LexInv
  OBVIOUS
<1>1. query \in Seq(Bytes) /\ i = 1 /\ mode = "scan" /\ places = <<>>
  BY ByteClasses DEF Init, BoundedSeq, SeqOf
<1> DEFINE A == Automaton(query)
<1>2. A[0] = LexStart
  BY <1>1, AutomatonRuns
<1> HIDE DEF A
<1>3. TextAt(A, query, 1, places) /\ 1 <= Len(query) + 1
  BY <1>1, <1>2 DEF LexStart, TextAt
<1>4. Agree(A, query, 1, "scan", open, places)
  BY <1>1, <1>3, AgreesAtText
<1> QED BY <1>1, <1>4 DEF A, LexInv

(* Each byte is read once the parser has decided what it is. *)
LEMMA LexStep == OrderInv /\ LexInv /\ [Next]_vars => LexInv'
<1> SUFFICES ASSUME OrderInv, LexInv, [Next]_vars PROVE LexInv'
  OBVIOUS
<1>q. query' = query /\ query \in Seq(Bytes) /\ i \in Nat /\ i >= 1
  <2>1. query' = query
    BY DEF Next, Scan, InQuotes, InLine, InBlock, InName, vars
  <2> QED BY <2>1 DEF OrderInv, ParserTypes
<1> PICK A, q, n : A = Automaton(query) /\ q = query /\ n = Len(q)
  OBVIOUS
<1>types. /\ q \in Seq(Bytes) /\ n \in Nat /\ n = Len(q) /\ q = query
          /\ \A k \in 1 .. n : q[k] \in Bytes
  BY <1>q
<1>runs. /\ \A k \in 0 .. n : A[k] \in LexState
         /\ \A k \in 1 .. n : A[k] = Read(A[k - 1], q[k], k)
  BY <1>types, AutomatonRuns
<1>agree. Agree(A, q, i, mode, open, places)
  BY DEF LexInv
<1> SUFFICES Agree(A, q, i', mode', open', places')
  BY <1>q DEF LexInv
<1>at. \A c : \A j \in Nat : j >= 1 => (At(j, c) <=> j <= n /\ q[j] = c)
  BY <1>types DEF At
<1>ident. IsIdentChar(i) <=> i <= n /\ q[i] \in Idents
  BY <1>types DEF IsIdentChar
(* The state before byte i, and the one after it. *)
<1>read. ASSUME i <= n
         PROVE  /\ i - 1 \in 0 .. n /\ i \in 1 .. n /\ i + 1 - 1 = i
                /\ A[i - 1] \in LexState /\ A[i] \in LexState
                /\ q[i] \in Bytes /\ A[i] = Read(A[i - 1], q[i], i)
  BY <1>q, <1>types, <1>runs, <1>read
<1>next. ASSUME i + 1 <= n
         PROVE  /\ i + 1 \in 1 .. n /\ i + 2 - 1 = i + 1 /\ q[i + 1] \in Bytes
                /\ A[i] \in LexState /\ A[i + 1] = Read(A[i], q[i + 1], i + 1)
  <2>1. i + 1 \in 1 .. n /\ i \in 0 .. n /\ i + 1 - 1 = i /\ i + 2 - 1 = i + 1
    BY <1>q, <1>types, <1>next
  <2> QED BY <1>types, <1>runs, <2>1
<1>1. CASE Scan
  <2>0. mode = "scan" /\ (Quote \/ Comment \/ Colon \/ Positional \/ Plain) /\ i <= n
    BY <1>1, <1>at, <1>q, <1>types DEF Scan, Quote, Comment, Colon, Positional, Plain, More
  <2>ready. Ready(A[i - 1], q[i], i, places)
    BY <1>agree, <1>types, <2>0 DEF Agree
  <2>text. AsText(A[i], q[i], i, places)
    BY <1>q, <1>read, <2>0, <2>ready, ReadyReads
  <2>1. CASE Quote
    <3>1. A[i].mode = "quoted" /\ A[i].quote = q[i] /\ A[i].places = places
      BY <1>types, <2>1, <2>text DEF Quote, AsText
    <3>2. mode' = "quoted" /\ open' = i /\ i' = i + 1 /\ places' = places
      BY <2>1 DEF Quote, Enter
    <3> QED BY <1>q, <1>types, <1>read, <2>0, <3>1, <3>2 DEF Agree
  <2>2. CASE Comment
    <3>0. /\ i' = i + 2 /\ places' = places /\ i + 1 <= n
          /\ \/ q[i] = "-" /\ q[i + 1] = "-" /\ mode' = "line"
             \/ q[i] = "/" /\ q[i + 1] = "*" /\ mode' = "block"
      BY <1>q, <1>at, <2>2 DEF Comment, Enter
    <3>1. A[i].mode = (IF q[i] = "-" THEN "dash" ELSE "slash") /\ A[i].places = places
      BY <2>text, <3>0 DEF AsText
    <3>2. A[i + 1].mode = mode' /\ A[i + 1].places = places
      BY <1>q, <1>next, <3>0, <3>1, WhatIsRead
    <3> QED BY <1>q, <1>types, <1>next, <3>0, <3>2 DEF Agree
  <2>3. CASE Colon
    <3>1. q[i] = ":" /\ A[i].mode = "colon" /\ A[i].open = i /\ A[i].places = places
      BY <1>q, <1>at, <2>3, <2>text DEF Colon, AsText
    <3>2. CASE At(i + 1, ":")
      <4>1. /\ i' = i + 2 /\ mode' = "scan" /\ places' = places
            /\ i + 1 <= n /\ q[i + 1] = ":"
        BY <1>q, <1>at, <2>0, <2>3, <3>2 DEF Colon
      <4>2. A[i + 1].mode = "text" /\ A[i + 1].places = places
        BY <1>q, <1>next, <3>1, <4>1, WhatIsRead
      <4>3. TextAt(A, q, i + 2, places)
        <5>1. A[i + 2 - 1] = A[i + 1]
          BY <1>next, <4>1
        <5> QED BY <1>q, <1>types, <4>2, <5>1 DEF TextAt
      <4> QED BY <1>q, <1>types, <4>1, <4>3, AgreesAtText
    <3>3. CASE ~At(i + 1, ":")
      <4>1. i' = i + 1 /\ mode' = "name" /\ open' = i /\ places' = places
        BY <2>3, <3>3 DEF Colon, Enter
      <4>2. ~(i + 1 <= n /\ q[i + 1] = ":")
        BY <1>q, <1>at, <3>3
      <4> QED BY <1>q, <1>types, <1>read, <2>0, <3>1, <4>1, <4>2 DEF Agree
    <3> QED BY <3>2, <3>3
  <2>4. CASE Positional
    <3>1. q[i] = "?" /\ i' = i + 1 /\ mode' = "scan"
          /\ places' = Append(places, Place(FALSE, i, i + 1))
      BY <1>q, <1>at, <2>0, <2>4 DEF Positional
    <3> PICK ps : ps = places'
      OBVIOUS
    <3>2. A[i].mode = "text" /\ A[i].places = ps /\ i + 1 - 1 = i
      BY <1>read, <2>0, <2>text, <3>1 DEF AsText
    <3>3. TextAt(A, q, i + 1, ps)
      BY <1>q, <1>types, <3>2 DEF TextAt
    <3>4. Agree(A, q, i + 1, "scan", open', ps)
      BY <1>q, <1>types, <2>0, <3>3, AgreesAtText
    <3> QED BY <3>1, <3>4
  <2>5. CASE Plain
    <3>1. i' = i + 1 /\ mode' = "scan" /\ places' = places
      BY <2>0, <2>5 DEF Plain
    <3>2. CASE q[i] \in Idents \cup Others \cup {"*", "nl"}
      <4>1. TextAt(A, q, i + 1, places)
        BY <1>read, <2>0, <2>text, <3>2 DEF AsText, TextAt
      <4> QED BY <1>q, <1>types, <2>0, <3>1, <4>1, AgreesAtText
    <3>3. CASE q[i] = "-" /\ ~At(i + 1, "-")
      <4>1. TextAt(A, q, i + 1, places)
        BY <1>q, <1>types, <1>at, <1>read, <2>0, <2>text, <3>3 DEF AsText, TextAt
      <4> QED BY <1>q, <1>types, <2>0, <3>1, <4>1, AgreesAtText
    <3>4. CASE q[i] = "/" /\ ~At(i + 1, "*")
      <4>1. TextAt(A, q, i + 1, places)
        BY <1>q, <1>types, <1>at, <1>read, <2>0, <2>text, <3>4 DEF AsText, TextAt
      <4> QED BY <1>q, <1>types, <2>0, <3>1, <4>1, AgreesAtText
    <3> QED BY <1>q, <1>at, <1>types, <2>5, <3>2, <3>3, <3>4 DEF Plain
  <2> QED BY <2>0, <2>1, <2>2, <2>3, <2>4, <2>5
<1>2. CASE InQuotes
  <2>0. /\ mode = "quoted" /\ places' = places /\ open' = open
        /\ i <= n + 1 /\ open \in 1 .. n
        /\ A[i - 1].mode = "quoted" /\ A[i - 1].quote = q[open] /\ A[i - 1].places = places
    BY <1>agree, <1>2, <1>types DEF Agree, InQuotes
  <2>1. CASE i > n
    <3>1. i' = i /\ mode' = "scan"
      BY <1>2, <1>q, <1>at, <1>types, <2>1 DEF InQuotes, More
    <3>2. TextAt(A, q, i, places)
      BY <1>types, <2>0, <2>1 DEF TextAt
    <3> QED BY <1>q, <1>types, <2>0, <3>1, <3>2, AgreesAtText
  <2>2. CASE i <= n /\ q[i] # q[open]
    <3>1. i' = i + 1 /\ mode' = "quoted"
      BY <1>2, <1>q, <1>at, <1>types, <2>0, <2>2 DEF InQuotes, More
    <3>2. A[i].mode = "quoted" /\ A[i].quote = q[open] /\ A[i].places = places
      BY <1>q, <1>read, <2>0, <2>2, WhatIsRead
    <3> QED BY <1>q, <1>types, <1>read, <2>0, <2>2, <3>1, <3>2 DEF Agree
  <2>3. CASE i <= n /\ q[i] = q[open]
    <3>1. A[i].mode = "closing" /\ A[i].quote = q[open] /\ A[i].places = places
      BY <1>q, <1>read, <2>0, <2>3, WhatIsRead
    <3>2. CASE i + 1 <= n /\ q[i + 1] = q[open]
      <4>1. i' = i + 2 /\ mode' = "quoted"
        BY <1>2, <1>q, <1>at, <1>types, <2>0, <2>3, <3>2 DEF InQuotes, More
      <4>2. A[i + 1].mode = "quoted" /\ A[i + 1].quote = q[open] /\ A[i + 1].places = places
        BY <1>q, <1>next, <3>1, <3>2, WhatIsRead
      <4> QED BY <1>q, <1>types, <1>next, <2>0, <3>2, <4>1, <4>2 DEF Agree
    <3>3. CASE ~(i + 1 <= n /\ q[i + 1] = q[open])
      <4>1. i' = i + 1 /\ mode' = "scan"
        BY <1>2, <1>q, <1>at, <1>types, <2>0, <2>3, <3>3 DEF InQuotes, More
      <4>2. TextAt(A, q, i + 1, places)
        BY <1>types, <1>read, <2>3, <3>1, <3>3 DEF TextAt
      <4> QED BY <1>q, <1>types, <2>0, <2>3, <4>1, <4>2, AgreesAtText
    <3> QED BY <3>2, <3>3
  <2> QED BY <1>q, <1>types, <2>1, <2>2, <2>3
<1>3. CASE InLine
  <2>0. /\ mode = "line" /\ places' = places /\ i <= n + 1
        /\ A[i - 1].mode = "line" /\ A[i - 1].places = places
    BY <1>agree, <1>3, <1>types DEF Agree, InLine
  <2>1. CASE i <= n /\ q[i] # "nl"
    <3>1. i' = i + 1 /\ mode' = "line"
      BY <1>3, <1>q, <1>at, <1>types, <2>0, <2>1 DEF InLine, More
    <3>2. A[i].mode = "line" /\ A[i].places = places
      BY <1>q, <1>read, <2>0, <2>1, WhatIsRead
    <3> QED BY <1>q, <1>types, <1>read, <2>0, <2>1, <3>1, <3>2 DEF Agree
  <2>2. CASE ~(i <= n /\ q[i] # "nl")
    <3>1. i' = i /\ mode' = "scan" /\ (i <= n => q[i] = "nl")
      BY <1>3, <1>q, <1>at, <1>types, <2>2 DEF InLine, More
    <3>2. TextAt(A, q, i, places)
      BY <1>types, <2>0, <3>1 DEF TextAt
    <3> QED BY <1>q, <1>types, <2>0, <3>1, <3>2, AgreesAtText
  <2> QED BY <2>1, <2>2
<1>4. CASE InBlock
  <2>0. /\ mode = "block" /\ places' = places /\ i <= n + 1
        /\ A[i - 1].mode \in {"block", "star"} /\ A[i - 1].places = places
        /\ ~(A[i - 1].mode = "star" /\ i <= n /\ q[i] = "/")
    BY <1>agree, <1>4, <1>types DEF Agree, InBlock
  <2>1. ASSUME i <= n
        PROVE  A[i].mode = (IF q[i] = "*" THEN "star" ELSE "block") /\ A[i].places = places
    BY <1>q, <1>read, <2>0, <2>1, WhatIsRead
  <2>2. CASE i < n /\ ~(q[i] = "*" /\ q[i + 1] = "/")
    <3>1. i' = i + 1 /\ mode' = "block"
      BY <1>4, <1>q, <1>at, <1>types, <2>0, <2>2 DEF InBlock
    <3>2. i <= n /\ ~(A[i].mode = "star" /\ q[i + 1] = "/")
      BY <1>q, <1>types, <2>1, <2>2
    <3> QED BY <1>q, <1>types, <1>read, <2>0, <2>1, <3>1, <3>2 DEF Agree
  <2>3. CASE i < n /\ q[i] = "*" /\ q[i + 1] = "/"
    <3>1. i' = i + 2 /\ mode' = "scan" /\ i <= n /\ i + 1 <= n
      BY <1>4, <1>q, <1>at, <1>types, <2>3 DEF InBlock
    <3>2. A[i + 1].mode = "text" /\ A[i + 1].places = places
      BY <1>q, <1>next, <2>1, <2>3, <3>1, WhatIsRead
    <3>3. TextAt(A, q, i + 2, places)
      <4>1. A[i + 2 - 1] = A[i + 1]
        BY <1>next, <3>1
      <4> QED BY <1>q, <1>types, <3>2, <4>1 DEF TextAt
    <3> QED BY <1>q, <1>types, <2>0, <3>1, <3>3, AgreesAtText
  <2>4. CASE ~(i < n)
    <3>1. i' = i + 2 /\ mode' = "scan" /\ ~(i + 2 <= n)
      BY <1>4, <1>q, <1>types, <2>4 DEF InBlock
    <3>2. A[n].mode \in {"block", "star"} /\ A[n].places = places
      <4>1. CASE i = n
        BY <1>q, <1>types, <2>1, <4>1
      <4>2. CASE i = n + 1
        <5>1. i - 1 = n
          BY <1>types, <4>2
        <5> QED BY <2>0, <5>1
      <4> QED BY <1>q, <1>types, <2>0, <2>4, <4>1, <4>2
    <3> QED BY <1>types, <2>0, <3>1, <3>2 DEF Agree, Final
  <2> QED BY <2>2, <2>3, <2>4
<1>5. CASE InName
  <2>0. /\ mode = "name" /\ open' = open /\ i <= n + 1
        /\ open < i /\ open \in Nat /\ A[i - 1].open = open /\ A[i - 1].places = places
        /\ IF i = open + 1 THEN A[i - 1].mode = "colon" /\ ~(i <= n /\ q[i] = ":")
                           ELSE A[i - 1].mode = "name"
    BY <1>agree, <1>5, <1>types DEF Agree, InName, OrderInv, ParserTypes
  <2>1. CASE i <= n /\ q[i] \in Idents
    <3>1. i' = i + 1 /\ mode' = "name" /\ places' = places
      BY <1>5, <1>ident, <2>1 DEF InName
    <3>2. A[i].mode = "name" /\ A[i].open = open /\ A[i].places = places
      BY <1>q, <1>read, <2>0, <2>1, WhatIsRead
    <3> QED BY <1>q, <1>types, <1>read, <2>0, <2>1, <3>1, <3>2 DEF Agree
  <2>2. CASE ~(i <= n /\ q[i] \in Idents) /\ i = open + 1
    <3>1. i' = i /\ mode' = "scan" /\ places' = places
      <4>1. ~(i > open + 1)
        BY <1>q, <2>0, <2>2
      <4> QED BY <1>5, <1>ident, <2>2, <4>1 DEF InName
    <3>2. TextAt(A, q, i, places)
      BY <1>types, <2>0, <2>2 DEF TextAt
    <3> QED BY <1>q, <1>types, <2>0, <3>1, <3>2, AgreesAtText
  <2>3. CASE ~(i <= n /\ q[i] \in Idents) /\ i # open + 1
    <3>1. i' = i /\ mode' = "scan" /\ places' = Append(places, Place(TRUE, open, i))
      <4>1. i > open + 1
        BY <1>q, <2>0, <2>3
      <4> QED BY <1>5, <1>ident, <2>3, <4>1 DEF InName
    <3>2. A[i - 1].mode = "name" /\ A[i - 1] \in LexState
      BY <1>q, <1>types, <1>runs, <2>0, <2>3
    <3>3. places' = Emit(A[i - 1], i).places
      BY <1>q, <2>0, <3>1, <3>2, EmitIs
    <3>4. CASE i <= n
      BY <1>types, <2>3, <3>1, <3>2, <3>3, <3>4 DEF Agree, Ready
    <3>5. CASE i = n + 1
      <4>1. A[n] = A[i - 1] /\ ~(i <= n)
        BY <1>types, <3>5
      <4> QED BY <1>types, <3>1, <3>2, <3>3, <3>5, <4>1 DEF Agree, Final
    <3> QED BY <1>q, <1>types, <2>0, <3>4, <3>5
  <2> QED BY <2>1, <2>2, <2>3
<1>6. CASE UNCHANGED vars
  BY <1>agree, <1>6 DEF vars
<1> QED BY <1>1, <1>2, <1>3, <1>4, <1>5, <1>6 DEF Next

(* The parser finds the placeholders of the lexical structure and no       *)
(* others: it skips casts, literals and comments (bind.go:23), whatever    *)
(* the query.                                                              *)
THEOREM FoundAsLexed == Spec => []FindsThePlaceholders
<1>1. OrderInv /\ LexInv => FindsThePlaceholders
  <2> SUFFICES ASSUME OrderInv, LexInv, Parsed PROVE places = Lexed(query)
    BY DEF FindsThePlaceholders
  <2>1. mode = "scan" /\ ~(i <= Len(query))
    BY DEF Parsed, More
  <2> QED BY <2>1 DEF LexInv, Agree, Lexed
<1> QED BY <1>1, OrderInit, OrderStep, LexInit, LexStep, PTL DEF Spec

-----------------------------------------------------------------------------
(* The automaton on a longer query. *)

(* The state in which the automaton has read all of w.                     *)
Ends(w) == Automaton(w)[Len(w)]

SameState(A, B, n) == A[n] = B[n]

(* What was read does not depend on what follows.                          *)
LEMMA PrefixReads ==
  ASSUME NEW w \in Seq(Bytes), NEW longer \in Seq(Bytes), Len(w) <= Len(longer),
         \A k \in 1 .. Len(w) : longer[k] = w[k]
  PROVE  SameState(Automaton(w), Automaton(longer), Len(w))
<1> PICK m \in Nat : m = Len(w)
  BY LenIs, Zenon
<1> PICK A : A = Automaton(w)
  OBVIOUS
<1> PICK B : B = Automaton(longer)
  OBVIOUS
<1>1. /\ A[0] = LexStart /\ B[0] = LexStart
      /\ \A n \in 1 .. m : A[n] = Read(A[n - 1], w[n], n)
      /\ \A n \in 1 .. Len(longer) : B[n] = Read(B[n - 1], longer[n], n)
  BY AutomatonRuns
<1>2. \A n \in 1 .. m : B[n] = Read(B[n - 1], w[n], n)
  <2> SUFFICES ASSUME NEW n \in 1 .. m PROVE B[n] = Read(B[n - 1], w[n], n)
    OBVIOUS
  <2>1. n \in 1 .. Len(longer)
    BY LenIs
  <2> QED BY <1>1, <2>1
<1> DEFINE Bad == {n \in 0 .. m : ~SameState(A, B, n)}
<1>3. Bad = {}
  <2> SUFFICES ASSUME Bad # {} PROVE FALSE
    OBVIOUS
  <2>1. PICK n \in Bad : \A j \in Bad : n <= j
    <3>1. Bad \in SUBSET Nat
      OBVIOUS
    <3> HIDE DEF Bad
    <3> QED BY <3>1, LeastNumber
  <2>2. n # 0
    BY <1>1, <2>1 DEF SameState
  <2>3. n - 1 \in 0 .. m /\ n - 1 \notin Bad /\ n \in 1 .. m
    BY <2>1, <2>2
  <2>4. A[n - 1] = B[n - 1]
    BY <2>3 DEF SameState
  <2>5. A[n] = B[n]
    BY <1>1, <1>2, <2>3, <2>4
  <2> QED BY <2>1, <2>5 DEF SameState
<1>4. SameState(A, B, m)
  BY <1>3
<1> QED BY <1>4

LEMMA EndsIsState == ASSUME NEW w \in Seq(Bytes) PROVE Ends(w) \in LexState
<1> PICK m \in Nat : m = Len(w)
  BY LenIs, Zenon
<1>1. Automaton(w) \in [0 .. Len(w) -> LexState] /\ Len(w) \in 0 .. Len(w)
  BY AutomatonRuns
<1> QED BY <1>1 DEF Ends

(* Reading one byte more.                                                  *)
LEMMA EndsStep ==
  ASSUME NEW w \in Seq(Bytes), NEW c \in Bytes, NEW more, more = w \o <<c>>
  PROVE  /\ more \in Seq(Bytes) /\ Len(more) = Len(w) + 1
         /\ Ends(more) = Read(Ends(w), c, Len(more))
<1> PICK m \in Nat : m = Len(w)
  BY LenIs, Zenon
<1>1. /\ more \in Seq(Bytes) /\ Len(more) = m + 1
      /\ \A k \in 1 .. m : more[k] = w[k]
      /\ more[m + 1] = c
  OBVIOUS
<1> PICK n \in Nat : n = m + 1 /\ n - 1 = m
  OBVIOUS
<1>2. SameState(Automaton(w), Automaton(more), m)
  <2>1. Len(w) <= Len(more) /\ more \in Seq(Bytes) /\ \A k \in 1 .. Len(w) : more[k] = w[k]
    BY <1>1
  <2>2. SameState(Automaton(w), Automaton(more), Len(w))
    BY <2>1, PrefixReads
  <2> QED BY <2>2
<1>3. Automaton(more)[n] = Read(Automaton(more)[n - 1], more[n], n)
  <2>1. n \in 1 .. Len(more)
    BY <1>1
  <2> QED BY <1>1, <2>1, AutomatonRuns
<1> QED BY <1>1, <1>2, <1>3 DEF Ends, SameState

-----------------------------------------------------------------------------
(* The text that binding writes, up to a byte of the query. *)

(* What is before each of the places, and its mark.                        *)
Gaps(q, ps) ==
  [k \in DOMAIN ps |-> SubSeq(q, IF k = 1 THEN 1 ELSE ps[k - 1].end, ps[k].pos - 1) \o <<"?">>]

LastEnd(ps) == IF ps = <<>> THEN 1 ELSE ps[Len(ps)].end

Cut(q, ps, m) == FlattenSeq(Gaps(q, ps)) \o SubSeq(q, LastEnd(ps), m)

(* The places end at the m-th byte, or before it.                          *)
Cuts(q, ps, m) ==
  /\ q \in Seq(Bytes) /\ ps \in Seq(Span)
  /\ Gaps(q, ps) \in Seq(Seq(Bytes))
  /\ m \in 0 .. Len(q)
  /\ LastEnd(ps) \in 1 .. m + 1

LEMMA CutIsText == ASSUME NEW q, NEW ps, NEW m, Cuts(q, ps, m) PROVE Cut(q, ps, m) \in Seq(Bytes)
<1> PICK x : x = FlattenSeq(Gaps(q, ps))
  OBVIOUS
<1> PICK y : y = SubSeq(q, LastEnd(ps), m)
  OBVIOUS
<1>1. x \in Seq(Bytes)
  BY FlattenType, Zenon DEF Cuts
<1>2. y \in Seq(Bytes)
  <2> PICK l : l = LastEnd(ps)
    OBVIOUS
  <2>1. q \in Seq(Bytes) /\ l \in Nat \ {0} /\ m \in Nat /\ l <= m + 1 /\ m <= Len(q)
    BY LenIs DEF Cuts
  <2> QED BY <2>1, Slices
<1>3. x \o y \in Seq(Bytes)
  BY <1>1, <1>2, Concats
<1> QED BY <1>3 DEF Cut

(* One byte more is added to the text.                                     *)
CutGrows(q, ps, m) == Cuts(q, ps, m + 1) /\ Cut(q, ps, m + 1) = Cut(q, ps, m) \o <<q[m + 1]>>

LEMMA ByteAdded ==
  ASSUME NEW q, NEW ps, NEW m, Cuts(q, ps, m), m < Len(q) PROVE CutGrows(q, ps, m)
<1> PICK l : l = LastEnd(ps)
  OBVIOUS
<1>1. /\ q \in Seq(Bytes) /\ l \in Nat \ {0} /\ m \in Nat /\ l <= m + 1 /\ m <= Len(q)
      /\ Len(q) \in Nat
  BY LenIs DEF Cuts
<1> PICK x : x = FlattenSeq(Gaps(q, ps))
  OBVIOUS
<1> PICK y : y = SubSeq(q, l, m)
  OBVIOUS
<1> PICK n \in Nat : n = m + 1
  BY <1>1
<1> PICK z : z = SubSeq(q, l, n)
  OBVIOUS
<1> PICK c : c = <<q[n]>>
  OBVIOUS
<1>2. x \in Seq(Bytes)
  BY FlattenType, Zenon DEF Cuts
<1>3. /\ y \in Seq(Bytes) /\ Len(y) = m - l + 1
      /\ \A k \in 1 .. m - l + 1 : y[k] = q[k + l - 1]
  BY <1>1, Slices
<1>4. /\ z \in Seq(Bytes) /\ Len(z) = n - l + 1
      /\ \A k \in 1 .. n - l + 1 : z[k] = q[k + l - 1]
  <2>1. q \in Seq(Bytes) /\ l \in Nat \ {0} /\ n \in Nat /\ l <= n + 1 /\ n <= Len(q)
    BY <1>1
  <2> QED BY <2>1, Slices
<1>5. c \in Seq(Bytes) /\ Len(c) = 1 /\ c[1] = q[n]
  <2>1. q[n] \in Bytes
    BY <1>1
  <2> QED BY <2>1, Singles
<1>6. IsBoth(z, y, c)
  <2>1. Len(z) = Len(y) + Len(c)
    BY <1>1, <1>3, <1>4, <1>5
  <2>2. \A k \in 1 .. Len(y) : z[k] = y[k]
    BY <1>1, <1>3, <1>4
  <2>3. \A k \in 1 .. Len(c) : z[Len(y) + k] = c[k]
    <3>1. Len(y) + 1 \in 1 .. n - l + 1 /\ Len(y) + 1 + l - 1 = n
      BY <1>1, <1>3
    <3>2. z[Len(y) + 1] = q[n]
      BY <1>4, <3>1
    <3> SUFFICES ASSUME NEW k \in 1 .. Len(c) PROVE z[Len(y) + k] = c[k]
      OBVIOUS
    <3>3. k = 1
      BY <1>5
    <3> QED BY <1>5, <3>2, <3>3, Zenon
  <2> QED BY <1>3, <1>4, <1>5, <2>1, <2>2, <2>3, BothParts, Zenon
<1>7. Associate(x, y, c)
  BY <1>2, <1>3, <1>5, ConcatsAssociate, Zenon
<1>8. Cut(q, ps, m + 1) = Cut(q, ps, m) \o <<q[m + 1]>>
  <2>1. Cut(q, ps, m + 1) = x \o z /\ Cut(q, ps, m) = x \o y
    BY DEF Cut
  <2>2. x \o z = (x \o y) \o c
    BY <1>6, <1>7 DEF IsBoth, Associate
  <2> QED BY <2>1, <2>2
<1>9. Cuts(q, ps, m + 1)
  BY <1>1 DEF Cuts
<1> QED BY <1>8, <1>9 DEF CutGrows

IsLonger(H, G, S, x) == H \in Seq(S) /\ H = Append(G, x)

LEMMA AppendIs ==
  ASSUME NEW S, NEW G \in Seq(S), NEW x \in S, NEW H, NEW n, n = Len(G),
         H = [k \in 1 .. n + 1 |-> H[k]], \A k \in 1 .. n : H[k] = G[k], H[n + 1] = x
  PROVE  IsLonger(H, G, S, x)
<1> PICK A : A = Append(G, x)
  OBVIOUS
<1>1. A \in Seq(S) /\ Len(A) = n + 1 /\ A[n + 1] = x /\ \A k \in 1 .. n : A[k] = G[k]
  OBVIOUS
<1>2. A = [k \in 1 .. n + 1 |-> A[k]]
  <2>1. A = [k \in 1 .. Len(A) |-> A[k]]
    BY <1>1, SeqIs, Zenon
  <2> QED BY <1>1, <2>1
<1>3. \A k \in 1 .. n + 1 : A[k] = H[k]
  <2> SUFFICES ASSUME NEW k \in 1 .. n + 1 PROVE A[k] = H[k]
    OBVIOUS
  <2>1. k \in 1 .. n \/ k = n + 1
    BY LenIs
  <2> QED BY <1>1, <2>1
<1>4. A = H
  BY <1>2, <1>3
<1> QED BY <1>1, <1>4 DEF IsLonger

(* A place after the text is added as its mark.                            *)
CutMarks(q, ps, m, p) ==
  Cuts(q, Append(ps, p), p.end - 1) /\ Cut(q, Append(ps, p), p.end - 1) = Cut(q, ps, m) \o <<"?">>

LEMMA MarkAdded ==
  ASSUME NEW q, NEW ps, NEW m, Cuts(q, ps, m),
         NEW named \in BOOLEAN, NEW end \in Nat, m + 1 < end, end <= Len(q) + 1,
         NEW p, p = Place(named, m + 1, end)
  PROVE  CutMarks(q, ps, m, p)
<1> PICK l : l = LastEnd(ps)
  OBVIOUS
<1> PICK n : n = Len(ps)
  OBVIOUS
<1> PICK longer : longer = Append(ps, p)
  OBVIOUS
<1>1. /\ q \in Seq(Bytes) /\ l \in Nat \ {0} /\ m \in Nat /\ l <= m + 1 /\ m <= Len(q)
      /\ Len(q) \in Nat /\ ps \in Seq(Span) /\ n \in Nat /\ DOMAIN ps = 1 .. n
  BY LenIs DEF Cuts
<1>2. p \in Span /\ p.pos = m + 1 /\ p.end = end /\ p.pos - 1 = m
  <2>1. p = [named |-> named, pos |-> m + 1, end |-> end] /\ m + 1 \in Nat
    BY <1>1 DEF Place
  <2>2. p \in Span
    BY <2>1, SpanTypes
  <2>3. p.pos = m + 1 /\ p.end = end
    BY <2>1
  <2> QED BY <1>1, <2>2, <2>3
<1>3. /\ longer \in Seq(Span) /\ Len(longer) = n + 1 /\ longer[n + 1] = p
      /\ DOMAIN longer = 1 .. n + 1
      /\ \A k \in 1 .. n : longer[k] = ps[k]
  BY <1>1, <1>2
<1> PICK y : y = SubSeq(q, l, m)
  OBVIOUS
<1> PICK mark : mark = <<"?">>
  OBVIOUS
<1> PICK gap : gap = y \o mark
  OBVIOUS
<1> PICK x : x = FlattenSeq(Gaps(q, ps))
  OBVIOUS
<1>4. y \in Seq(Bytes)
  BY <1>1, Slices
<1>5. mark \in Seq(Bytes)
  <2>1. "?" \in Bytes
    BY DEF Bytes, Marks
  <2> QED BY <2>1, Singles
<1>6. gap \in Seq(Bytes)
  BY <1>4, <1>5, Concats
<1>7. x \in Seq(Bytes) /\ Gaps(q, ps) \in Seq(Seq(Bytes))
  BY FlattenType, Zenon DEF Cuts
<1>8. IsLonger(Gaps(q, longer), Gaps(q, ps), Seq(Bytes), gap)
  <2> PICK G : G = Gaps(q, ps)
    OBVIOUS
  <2> PICK H : H = Gaps(q, longer)
    OBVIOUS
  <2>1. DOMAIN G = 1 .. n /\ G \in Seq(Seq(Bytes)) /\ Len(G) = n
    <3>1. DOMAIN G = 1 .. n /\ G \in Seq(Seq(Bytes))
      BY <1>1, <1>7 DEF Gaps
    <3>2. DOMAIN G = 1 .. Len(G) /\ Len(G) \in Nat
      BY <3>1, LenIs, Zenon
    <3> QED BY <1>1, <3>1, <3>2
  <2>2. H = [k \in 1 .. n + 1 |->
               SubSeq(q, IF k = 1 THEN 1 ELSE longer[k - 1].end, longer[k].pos - 1) \o <<"?">>]
    BY <1>3 DEF Gaps
  <2>3. \A k \in 1 .. n : H[k] = G[k]
    <3> SUFFICES ASSUME NEW k \in 1 .. n PROVE H[k] = G[k]
      OBVIOUS
    <3>1. k \in 1 .. n + 1 /\ longer[k] = ps[k] /\ (k # 1 => longer[k - 1] = ps[k - 1])
      BY <1>1, <1>3
    <3>2. G[k] = SubSeq(q, IF k = 1 THEN 1 ELSE ps[k - 1].end, ps[k].pos - 1) \o <<"?">>
      BY <1>1 DEF Gaps
    <3>3. H[k] = SubSeq(q, IF k = 1 THEN 1 ELSE longer[k - 1].end, longer[k].pos - 1) \o <<"?">>
      BY <2>2, <3>1, Zenon
    <3>4. (IF k = 1 THEN 1 ELSE longer[k - 1].end) = IF k = 1 THEN 1 ELSE ps[k - 1].end
      BY <3>1
    <3> QED BY <3>1, <3>2, <3>3, <3>4, Zenon
  <2>4. H[n + 1] = gap
    <3> PICK k : k = n + 1
      OBVIOUS
    <3>1. k \in 1 .. n + 1 /\ k - 1 = n /\ (k = 1 <=> n = 0)
      BY <1>1
    <3>2. (IF k = 1 THEN 1 ELSE longer[k - 1].end) = l
      <4>1. CASE n = 0
        BY <1>1, <3>1, <4>1 DEF LastEnd
      <4>2. CASE n # 0
        <5>1. n \in 1 .. n /\ ps # <<>>
          BY <1>1, <4>2
        <5> QED BY <1>3, <3>1, <4>2, <5>1 DEF LastEnd
      <4> QED BY <4>1, <4>2
    <3>3. H[k] = SubSeq(q, IF k = 1 THEN 1 ELSE longer[k - 1].end, longer[k].pos - 1) \o <<"?">>
      BY <2>2, <3>1, Zenon
    <3>4. longer[k].pos - 1 = m
      BY <1>2, <1>3
    <3> QED BY <3>2, <3>3, <3>4, Zenon
  <2>5. H = [k \in 1 .. n + 1 |-> H[k]]
    BY <2>2
  <2> QED BY <1>6, <2>1, <2>3, <2>4, <2>5, AppendIs
<1>9. FlattenSeq(Gaps(q, longer)) = x \o gap
  <2>1. FlattenSeq(Append(Gaps(q, ps), gap)) = FlattenSeq(Gaps(q, ps)) \o gap
    BY <1>6, <1>7, FlattenAppend
  <2> QED BY <1>8, <2>1 DEF IsLonger
<1>10. LastEnd(longer) = end /\ end \in 1 .. end /\ end - 1 \in 0 .. Len(q)
  <2>1. longer # <<>>
    BY <1>1, <1>3
  <2> QED BY <1>1, <1>2, <1>3, <2>1 DEF LastEnd
<1>11. Cuts(q, longer, p.end - 1)
  <2>1. Gaps(q, longer) \in Seq(Seq(Bytes))
    BY <1>8 DEF IsLonger
  <2> PICK e : e = p.end - 1
    OBVIOUS
  <2>2. e \in 0 .. Len(q) /\ LastEnd(longer) \in 1 .. e + 1
    <3>1. e = end - 1 /\ e + 1 = end /\ e \in 0 .. Len(q)
      <4>1. e = end - 1
        BY <1>2
      <4> QED BY <1>10, <4>1
    <3> QED BY <1>10, <3>1, Zenon
  <2>3. Cuts(q, longer, e)
    BY <1>1, <1>3, <2>1, <2>2, Zenon DEF Cuts
  <2> QED BY <2>3, Zenon
<1>12. Cut(q, longer, p.end - 1) = Cut(q, ps, m) \o <<"?">>
  <2>1. IsNone(SubSeq(q, end, end - 1))
    <3> PICK s : s = SubSeq(q, end, end - 1)
      OBVIOUS
    <3>1. s = [k \in 1 .. 0 |-> s[k]]
      BY <1>1, <1>10
    <3> QED BY <3>1, NoneMade
  <2>2. Cut(q, longer, p.end - 1) = (x \o gap) \o <<>>
    BY <1>2, <1>9, <1>10, <2>1 DEF Cut, IsNone
  <2>3. (x \o gap) \o <<>> = x \o gap
    <3>1. x \o gap \in Seq(Bytes)
      BY <1>6, <1>7, Concats
    <3> QED BY <3>1, Concats
  <2>4. Associate(x, y, mark)
    BY <1>4, <1>5, <1>7, ConcatsAssociate, Zenon
  <2>5. Cut(q, ps, m) = x \o y
    BY DEF Cut
  <2> QED BY <2>2, <2>3, <2>4, <2>5 DEF Associate
<1> QED BY <1>11, <1>12 DEF CutMarks

-----------------------------------------------------------------------------
(* Reading the query and the text that binding writes side by side. *)

(* rs has a positional place for each of ps.                               *)
Tally(ps, rs) == Len(rs) = Len(ps) /\ \A k \in DOMAIN rs : ~rs[k].named

(* The automaton has read a colon of which it does not know what it is.    *)
Pending(s) == s.mode \in {"colon", "name"}

OnText(t) ==
  \/ t.mode \in {"text", "dash", "slash"}
  \/ t.mode = "closing" /\ t.quote \in Quotes

Like(s, t) ==
  /\ ~Pending(s) /\ t.mode = s.mode
  /\ s.mode \in {"quoted", "closing"} => s.quote \in Quotes /\ t.quote = s.quote

HasOneMore(more, s, x) ==
  /\ Len(s) \in Nat /\ Len(more) = Len(s) + 1
  /\ DOMAIN s = 1 .. Len(s) /\ DOMAIN more = 1 .. Len(s) + 1
  /\ more[Len(s) + 1] = x /\ \A k \in 1 .. Len(s) : more[k] = s[k]

LEMMA OneMore ==
  ASSUME NEW S, NEW s \in Seq(S), NEW x \in S PROVE HasOneMore(Append(s, x), s, x)
BY DEF HasOneMore

LEMMA TallyMarks ==
  ASSUME NEW ps \in Seq(Span), NEW rs \in Seq(Span), Tally(ps, rs), NEW p \in Span,
         NEW pos \in Nat, NEW end \in Nat
  PROVE  Tally(Append(ps, p), Append(rs, Place(FALSE, pos, end)))
<1> PICK r : r = Place(FALSE, pos, end)
  OBVIOUS
<1>1. r \in Span
  BY SpanTypes
<1>2. ~r.named
  BY DEF Place
<1> PICK more : more = Append(rs, r)
  OBVIOUS
<1>3. HasOneMore(more, rs, r)
  BY <1>1, OneMore, Zenon
<1>4. Len(Append(ps, p)) = Len(ps) + 1
  <2>1. HasOneMore(Append(ps, p), ps, p)
    BY OneMore, Zenon
  <2> QED BY <2>1 DEF HasOneMore
<1>5. ASSUME NEW k \in DOMAIN more PROVE ~more[k].named
  <2>1. k \in 1 .. Len(rs) \/ k = Len(rs) + 1
    BY <1>3 DEF HasOneMore
  <2> QED BY <1>2, <1>3, <2>1 DEF HasOneMore, Tally
<1> QED BY <1>3, <1>4, <1>5 DEF HasOneMore, Tally

(* The places after c, the j-th byte, where no name ends.                   *)
AfterByte(ps, more, c, j) ==
  more = ps \/ (c = "?" /\ more = Append(ps, Place(FALSE, j, j + 1)))

Alike(s, t, s2, t2, c, j) ==
  Like(s2, t2) /\ Tally(s2.places, t2.places) /\ AfterByte(s.places, s2.places, c, j)

(* What is no colon reads alike in both, as text.                          *)
LEMMA TextAlike ==
  ASSUME NEW s \in LexState, NEW t \in LexState, Tally(s.places, t.places),
         NEW c \in Bytes, c # ":", NEW j \in Nat, NEW k \in Nat,
         NEW s2, s2 = Text(s, c, j), NEW t2, t2 = Text(t, c, k)
  PROVE  Alike(s, t, s2, t2, c, j)
<1>1. AsText(s2, c, j, s.places) /\ AsText(t2, c, k, t.places)
  BY TextReads
<1>2. c \in Quotes \/ c \in {"-", "/", "?"} \/ c \in Idents \cup Others \cup {"*", "nl"}
  BY DEF Bytes, Marks
<1>3. CASE c \in Quotes
  BY <1>1, <1>3 DEF AsText, Alike, Like, Pending, AfterByte
<1>4. CASE c \in {"-", "/"}
  BY <1>1, <1>4 DEF AsText, Alike, Like, Pending, AfterByte
<1>5. CASE c = "?"
  <2>1. s2.places = Append(s.places, Place(FALSE, j, j + 1)) /\ s2.mode = "text"
    BY <1>1, <1>5 DEF AsText
  <2>2. t2.places = Append(t.places, Place(FALSE, k, k + 1)) /\ t2.mode = "text"
    BY <1>1, <1>5 DEF AsText
  <2> PICK p : p = Place(FALSE, j, j + 1)
    OBVIOUS
  <2>3. p \in Span
    <3>1. j + 1 \in Nat /\ FALSE \in BOOLEAN
      OBVIOUS
    <3> QED BY <3>1, SpanTypes, Zenon
  <2>4. s.places \in Seq(Span) /\ t.places \in Seq(Span)
    BY DEF LexState
  <2> PICK ps \in Seq(Span) : ps = s.places
    BY <2>4
  <2> PICK rs \in Seq(Span) : rs = t.places
    BY <2>4
  <2>5. k + 1 \in Nat
    OBVIOUS
  <2>6. Tally(Append(ps, p), Append(rs, Place(FALSE, k, k + 1)))
    BY <2>3, <2>5, TallyMarks, Zenon
  <2> QED BY <1>5, <2>1, <2>2, <2>6, Zenon DEF Alike, Like, Pending, AfterByte
<1>6. CASE c \in Idents \cup Others \cup {"*", "nl"}
  BY <1>1, <1>6 DEF AsText, Alike, Like, Pending, AfterByte
<1> QED BY <1>2, <1>3, <1>4, <1>5, <1>6

ReadsText(s, c) ==
  \/ s.mode = "text"
  \/ s.mode = "dash" /\ c # "-"
  \/ s.mode = "slash" /\ c # "*"
  \/ s.mode = "closing" /\ c # s.quote
  \/ s.mode = "colon" /\ c # ":" /\ c \notin Idents

LEMMA TextIsRead ==
  ASSUME NEW s \in LexState, NEW c, NEW j, ReadsText(s, c)
  PROVE  Read(s, c, j) = Text(s, c, j)
BY DEF Read, ReadsText

Waiting(s, t, s2, c, j) ==
  c = ":" /\ s2.mode = "colon" /\ s2.open = j /\ s2.places = s.places /\ OnText(t)

(* States that are alike stay so, but at a colon.                          *)
LEMMA ReadAlike ==
  ASSUME NEW s \in LexState, NEW t \in LexState, Like(s, t), Tally(s.places, t.places),
         NEW c \in Bytes, NEW j \in Nat, NEW k \in Nat,
         NEW s2, s2 = Read(s, c, j), NEW t2, t2 = Read(t, c, k)
  PROVE  Waiting(s, t, s2, c, j) \/ Alike(s, t, s2, t2, c, j)
<1>1. CASE ReadsText(s, c)
  <2>1. s.mode \in {"text", "dash", "slash", "closing"} /\ ReadsText(t, c)
    BY <1>1 DEF Like, Pending, ReadsText
  <2>2. s2 = Text(s, c, j) /\ t2 = Text(t, c, k)
    BY <1>1, <2>1, TextIsRead
  <2>3. CASE c = ":"
    <3>1. s2.mode = "colon" /\ s2.open = j /\ s2.places = s.places
      <4>1. AsText(s2, c, j, s.places)
        BY <2>2, TextReads, Zenon
      <4> QED BY <2>3, <4>1 DEF AsText
    <3>2. OnText(t)
      BY <2>1 DEF Like, OnText
    <3> QED BY <2>3, <3>1, <3>2 DEF Waiting
  <2>4. CASE c # ":"
    BY <2>2, <2>4, TextAlike
  <2> QED BY <2>3, <2>4
<1>2. CASE ~ReadsText(s, c)
  <2>1. s.mode \in LexModes /\ t.mode = s.mode /\ ~Pending(s)
    BY DEF LexState, Like
  <2>2. CASE s.mode \in {"quoted", "closing"}
    <3>1. s.quote \in Quotes /\ t.quote = s.quote /\ (s.mode = "closing" => c = s.quote)
      BY <1>2, <2>2 DEF Like, ReadsText
    <3>2. /\ s2.mode = IF s.mode = "quoted" /\ c = s.quote THEN "closing" ELSE "quoted"
          /\ s2.quote = s.quote /\ s2.places = s.places
      BY <2>2, <3>1, WhatIsRead
    <3>3. /\ t2.mode = IF s.mode = "quoted" /\ c = s.quote THEN "closing" ELSE "quoted"
          /\ t2.quote = s.quote /\ t2.places = t.places
      BY <2>1, <2>2, <3>1, WhatIsRead
    <3> QED BY <3>1, <3>2, <3>3 DEF Alike, Like, Pending, AfterByte
  <2>3. CASE s.mode \in {"dash", "slash"}
    <3>1. c = IF s.mode = "dash" THEN "-" ELSE "*"
      BY <1>2, <2>3 DEF ReadsText
    <3>2. s2.mode = (IF s.mode = "dash" THEN "line" ELSE "block") /\ s2.places = s.places
      BY <2>3, <3>1, WhatIsRead
    <3>3. t2.mode = (IF s.mode = "dash" THEN "line" ELSE "block") /\ t2.places = t.places
      BY <2>1, <2>3, <3>1, WhatIsRead
    <3> QED BY <3>2, <3>3 DEF Alike, Like, Pending, AfterByte
  <2>4. CASE s.mode = "line"
    <3>1. s2.mode = (IF c = "nl" THEN "text" ELSE "line") /\ s2.places = s.places
      BY <2>4, WhatIsRead
    <3>2. t2.mode = (IF c = "nl" THEN "text" ELSE "line") /\ t2.places = t.places
      BY <2>1, <2>4, WhatIsRead
    <3> QED BY <3>1, <3>2 DEF Alike, Like, Pending, AfterByte
  <2>5. CASE s.mode \in {"block", "star"}
    <3>1. /\ s2.mode = IF c = "*" THEN "star"
                       ELSE IF s.mode = "star" /\ c = "/" THEN "text" ELSE "block"
          /\ s2.places = s.places
      BY <2>5, WhatIsRead
    <3>2. /\ t2.mode = IF c = "*" THEN "star"
                       ELSE IF s.mode = "star" /\ c = "/" THEN "text" ELSE "block"
          /\ t2.places = t.places
      BY <2>1, <2>5, WhatIsRead
    <3> QED BY <3>1, <3>2 DEF Alike, Like, Pending, AfterByte
  <2> QED BY <1>2, <2>1, <2>2, <2>3, <2>4, <2>5 DEF LexModes, Pending, ReadsText
<1> QED BY <1>1, <1>2

(* A colon and a mark read as text in any state that is on text.           *)
OnTextRead(t, c, k, t2) ==
  /\ t2 \in LexState
  /\ c = ":" => t2.mode = "colon" /\ t2.places = t.places
  /\ c = "?" => t2.mode = "text" /\ t2.places = Append(t.places, Place(FALSE, k, k + 1))

LEMMA OnTextReads ==
  ASSUME NEW t \in LexState, OnText(t), NEW c, c \in {":", "?"}, NEW k \in Nat,
         NEW t2, t2 = Read(t, c, k)
  PROVE  OnTextRead(t, c, k, t2)
<1>1. c \in Bytes /\ c \notin Quotes
  BY ByteClasses DEF Bytes, Marks
<1>2. ReadsText(t, c)
  BY <1>1 DEF OnText, ReadsText
<1>3. t2 = Text(t, c, k)
  BY <1>2, TextIsRead
<1>4. t2 \in LexState /\ AsText(t2, c, k, t.places)
  BY <1>1, <1>3, TextReads, Zenon
<1> QED BY <1>4 DEF AsText, OnTextRead

-----------------------------------------------------------------------------
(* The automaton on the query and on the text that binding writes. *)

(* A name that is being read is no part of the text yet.                   *)
Done(s, n) == IF Pending(s) THEN s.open - 1 ELSE n

Waits(s, t, q, n) ==
  /\ Pending(s) /\ OnText(t)
  /\ s.open \in 1 .. n /\ q[s.open] = ":"
  /\ IF s.mode = "colon" THEN s.open = n ELSE s.open < n

Mirrors(s, t, q, n) == Tally(s.places, t.places) /\ (Like(s, t) \/ Waits(s, t, q, n))

(* s, after n bytes of q, and the state in which the text for them ends.   *)
Mirrored(q, s, n) ==
  /\ Cuts(q, s.places, Done(s, n))
  /\ Mirrors(s, Ends(Cut(q, s.places, Done(s, n))), q, n)

(* The text w, and the state it ends in, stand for m bytes and places ps.  *)
Stood(q, ps, m, w, t) ==
  Cuts(q, ps, m) /\ w = Cut(q, ps, m) /\ w \in Seq(Bytes) /\ t = Ends(w) /\ t \in LexState

LEMMA StoodFor ==
  ASSUME NEW q, NEW ps, NEW m, Cuts(q, ps, m)
  PROVE  \E w, t : Stood(q, ps, m, w, t)
<1> PICK w : w = Cut(q, ps, m)
  OBVIOUS
<1> PICK t : t = Ends(w)
  OBVIOUS
<1>1. w \in Seq(Bytes)
  BY CutIsText
<1>2. t \in LexState
  BY <1>1, EndsIsState
<1> QED BY <1>1, <1>2 DEF Stood

LEMMA MirroredBy ==
  ASSUME NEW q, NEW s, NEW n, NEW m, m = Done(s, n), NEW w, NEW t,
         Stood(q, s.places, m, w, t), Mirrors(s, t, q, n)
  PROVE  Mirrored(q, s, n)
BY DEF Stood, Mirrored

(* One byte more of the query, one more of the text.                       *)
Longer(q, ps, m, c, w, t) ==
  \E x, u : Stood(q, ps, m, x, u) /\ x = w \o <<c>> /\ u = Read(t, c, Len(x)) /\ Len(x) \in Nat

LEMMA ReadsOn ==
  ASSUME NEW q, NEW ps, NEW m, Cuts(q, ps, m), NEW w \in Seq(Bytes), NEW c \in Bytes,
         Cut(q, ps, m) = w \o <<c>>, NEW t, t = Ends(w)
  PROVE  Longer(q, ps, m, c, w, t)
<1> PICK x : x = w \o <<c>>
  OBVIOUS
<1> PICK u : u = Ends(x)
  OBVIOUS
<1>1. x \in Seq(Bytes) /\ u = Read(t, c, Len(x))
  BY EndsStep
<1>2. u \in LexState /\ Len(x) \in Nat
  BY <1>1, EndsIsState, LenIs
<1> QED BY <1>1, <1>2 DEF Longer, Stood

LEMMA OneByte ==
  ASSUME NEW q, NEW ps, NEW m, NEW w, NEW t, Stood(q, ps, m, w, t), m < Len(q),
         NEW more, NEW n, n = m + 1, NEW c, c = q[n], AfterByte(ps, more, c, n)
  PROVE  Longer(q, more, n, c, w, t)
<1>1. /\ q \in Seq(Bytes) /\ m \in Nat /\ Len(q) \in Nat /\ n \in 1 .. Len(q) /\ c \in Bytes
      /\ Cuts(q, ps, m) /\ w \in Seq(Bytes) /\ w = Cut(q, ps, m) /\ t = Ends(w)
  <2>1. q \in Seq(Bytes) /\ Cuts(q, ps, m) /\ w \in Seq(Bytes) /\ w = Cut(q, ps, m) /\ t = Ends(w)
    BY DEF Stood, Cuts
  <2>2. m \in 0 .. Len(q) /\ Len(q) \in Nat
    BY <2>1, LenIs DEF Cuts
  <2>3. n \in 1 .. Len(q)
    BY <2>2
  <2> QED BY <2>1, <2>2, <2>3, LenIs
<1>2. CASE more = ps
  <2>1. CutGrows(q, ps, m)
    BY <1>1, ByteAdded, Zenon
  <2>2. Cuts(q, more, n) /\ Cut(q, more, n) = w \o <<c>>
    BY <1>1, <1>2, <2>1 DEF CutGrows
  <2> QED BY <1>1, <2>2, ReadsOn, Zenon
<1>3. CASE c = "?" /\ more = Append(ps, Place(FALSE, n, n + 1))
  <2> PICK end : end = n + 1
    OBVIOUS
  <2> PICK p : p = Place(FALSE, m + 1, end)
    OBVIOUS
  <2>1. end \in Nat /\ m + 1 < end /\ end <= Len(q) + 1 /\ FALSE \in BOOLEAN
    BY <1>1
  <2>2. CutMarks(q, ps, m, p)
    BY <1>1, <2>1, MarkAdded, Zenon
  <2>3. more = Append(ps, p)
    BY <1>3, Zenon
  <2>4. p.end - 1 = n
    BY <1>1 DEF Place
  <2>5. Cuts(q, more, n) /\ Cut(q, more, n) = w \o <<c>>
    BY <1>1, <1>3, <2>2, <2>3, <2>4 DEF CutMarks
  <2> QED BY <1>1, <2>5, ReadsOn, Zenon
<1> QED BY <1>2, <1>3 DEF AfterByte

LEMMA MirrorsStart == ASSUME NEW q \in Seq(Bytes) PROVE Mirrored(q, LexStart, 0)
<1> PICK none : none = <<>>
  OBVIOUS
<1> PICK G : G = Gaps(q, none)
  OBVIOUS
<1>0. LexStart.mode = "text" /\ LexStart.places = none /\ Done(LexStart, 0) = 0
  BY DEF LexStart, Done, Pending
<1>1. IsNone(G)
  <2>1. G = [k \in 1 .. 0 |-> G[k]]
    BY DEF Gaps
  <2> QED BY <2>1, NoneMade
<1>2. Cuts(q, none, 0)
  <2>1. none \in Seq(Span) /\ G \in Seq(Seq(Bytes))
    BY <1>1, NoneIs, Zenon DEF IsNone
  <2>2. LastEnd(none) = 1 /\ 0 \in 0 .. Len(q) /\ 1 \in 1 .. 0 + 1
    BY LenIs DEF LastEnd
  <2> QED BY <2>1, <2>2 DEF Cuts
<1>3. IsNone(Cut(q, none, 0))
  <2> PICK s : s = SubSeq(q, 1, 0)
    OBVIOUS
  <2>1. s = [k \in 1 .. 0 |-> s[k]]
    OBVIOUS
  <2>2. IsNone(s)
    BY <2>1, NoneMade, Zenon
  <2>3. Cut(q, none, 0) = <<>> \o <<>>
    BY <1>1, <2>2, FlattenEmpty DEF Cut, IsNone, LastEnd
  <2> QED BY <2>3 DEF IsNone
<1>4. Ends(<<>>) = LexStart
  <2>1. <<>> \in Seq(Bytes) /\ Len(<<>>) = 0
    OBVIOUS
  <2>2. Automaton(<<>>)[0] = LexStart
    BY <2>1, AutomatonRuns
  <2> QED BY <2>1, <2>2 DEF Ends
<1>5. Mirrors(LexStart, LexStart, q, 0)
  BY <1>0 DEF Mirrors, Like, Pending, Tally
<1> QED BY <1>0, <1>2, <1>3, <1>4, <1>5 DEF Mirrored, IsNone

(* The next byte of the query.                                             *)
LEMMA MirrorsStep ==
  ASSUME NEW q \in Seq(Bytes), NEW n \in 1 .. Len(q), NEW s \in LexState, Mirrored(q, s, n - 1),
         NEW s2, s2 = Read(s, q[n], n)
  PROVE  Mirrored(q, s2, n)
<1> PICK l \in Nat : l = n - 1
  OBVIOUS
<1> PICK c \in Bytes : c = q[n]
  BY LenIs
<1> PICK ps \in Seq(Span) : ps = s.places
  BY DEF LexState
<1> PICK m : m = Done(s, l)
  OBVIOUS
<1>0. n \in Nat /\ n = l + 1 /\ Len(q) \in Nat /\ l < Len(q) /\ n <= Len(q)
  BY LenIs
<1>1. Mirrored(q, s, l) /\ s2 = Read(s, c, n)
  OBVIOUS
<1>2. s2 \in LexState
  BY <1>0, <1>1, ReadTypes
<1>3. Cuts(q, ps, m)
  BY <1>1 DEF Mirrored
<1>4. PICK w, t : Stood(q, ps, m, w, t)
  BY <1>3, StoodFor, Zenon
<1>5. Mirrors(s, t, q, l) /\ t \in LexState
  BY <1>1, <1>4 DEF Mirrored, Stood
<1>6. Tally(ps, t.places)
  BY <1>5 DEF Mirrors
<1>7. CASE Like(s, t)
  <2>1. m = l
    BY <1>7 DEF Done, Like
  <2>2. ASSUME NEW more, AfterByte(ps, more, c, n) PROVE Longer(q, more, n, c, w, t)
    BY <1>0, <1>4, <2>1, <2>2, OneByte
  <2>3. PICK x, u : Stood(q, ps, n, x, u) /\ x = w \o <<c>> /\ u = Read(t, c, Len(x)) /\ Len(x) \in Nat
    BY <2>2 DEF AfterByte, Longer
  <2>4. Waiting(s, t, s2, c, n) \/ Alike(s, t, s2, u, c, n)
    BY <1>0, <1>1, <1>5, <1>6, <1>7, <2>3, ReadAlike
  <2>5. CASE Waiting(s, t, s2, c, n)
    <3>1. Done(s2, n) = m
      BY <1>0, <2>1, <2>5 DEF Waiting, Done, Pending
    <3>2. Waits(s2, t, q, n)
      BY <1>0, <2>5 DEF Waiting, Waits, Pending
    <3>3. s2.places = ps
      BY <2>5 DEF Waiting
    <3> QED BY <1>4, <1>6, <3>1, <3>2, <3>3, MirroredBy DEF Mirrors
  <2>6. CASE Alike(s, t, s2, u, c, n)
    <3>1. Longer(q, s2.places, n, c, w, t) /\ Done(s2, n) = n
      BY <2>2, <2>6 DEF Alike, Like, Done
    <3>2. PICK y, v : Stood(q, s2.places, n, y, v) /\ y = w \o <<c>> /\ v = Read(t, c, Len(y))
      BY <3>1 DEF Longer
    <3>3. v = u
      BY <2>3, <3>2
    <3>4. Mirrors(s2, v, q, n)
      BY <2>6, <3>3 DEF Alike, Mirrors
    <3> QED BY <3>1, <3>2, <3>4, MirroredBy
  <2> QED BY <2>4, <2>5, <2>6
<1>8. CASE Waits(s, t, q, l) /\ s.mode = "colon"
  <2>1. /\ s.open = l /\ l \in 1 .. l /\ q[l] = ":" /\ OnText(t)
        /\ m = l - 1 /\ m \in Nat /\ l = m + 1 /\ m < Len(q)
    BY <1>0, <1>8 DEF Waits, Done
  <2>2. Longer(q, ps, l, ":", w, t)
    <3>1. AfterByte(ps, ps, ":", l)
      BY DEF AfterByte
    <3> QED BY <1>4, <2>1, <3>1, OneByte, Zenon
  <2>3. PICK x, u : Stood(q, ps, l, x, u) /\ u = Read(t, ":", Len(x)) /\ Len(x) \in Nat
    BY <2>2 DEF Longer
  <2>4. u \in LexState /\ u.mode = "colon" /\ u.places = t.places
    <3>1. OnTextRead(t, ":", Len(x), u)
      <4>1. ":" \in {":", "?"}
        OBVIOUS
      <4> QED BY <1>5, <2>1, <2>3, <4>1, OnTextReads, Zenon
    <3> QED BY <3>1 DEF OnTextRead
  <2>5. ASSUME NEW more, AfterByte(ps, more, c, n) PROVE Longer(q, more, n, c, x, u)
    BY <1>0, <2>3, <2>5, OneByte
  <2>6. CASE c \in Idents
    <3>1. s2.mode = "name" /\ s2.open = s.open /\ s2.places = ps
      BY <1>0, <1>1, <1>8, <2>6, WhatIsRead
    <3>2. Done(s2, n) = m /\ Waits(s2, t, q, n)
      <4>1. s2.mode = "name" /\ s2.open = l
        BY <2>1, <3>1
      <4>2. l < n /\ l \in 1 .. n
        BY <1>0, <2>1
      <4> QED BY <2>1, <4>1, <4>2 DEF Done, Waits, Pending
    <3> QED BY <1>4, <1>6, <3>1, <3>2, MirroredBy DEF Mirrors
  <2>7. CASE c = ":"
    <3>1. s2.mode = "text" /\ s2.places = ps
      BY <1>0, <1>1, <1>8, <2>7, WhatIsRead
    <3>2. PICK y, v : Stood(q, ps, n, y, v) /\ v = Read(u, c, Len(y)) /\ Len(y) \in Nat
      BY <2>5 DEF AfterByte, Longer
    <3>3. v.mode = "text" /\ v.places = t.places
      BY <2>4, <2>7, <3>2, WhatIsRead
    <3>4. Done(s2, n) = n /\ Like(s2, v)
      BY <3>1, <3>3 DEF Done, Like, Pending
    <3> QED BY <1>6, <3>1, <3>2, <3>3, <3>4, MirroredBy DEF Mirrors
  <2>8. CASE c \notin Idents /\ c # ":"
    <3>1. s2 = Text(s, c, n)
      BY <1>1, <1>8, <2>8, TextIsRead DEF ReadsText
    <3>2. PICK y, v : Stood(q, ps, n, y, v) /\ y = x \o <<c>> /\ v = Read(u, c, Len(y)) /\ Len(y) \in Nat
      BY <2>5 DEF AfterByte, Longer
    <3>3. v = Text(u, c, Len(y))
      BY <2>4, <2>8, <3>2, TextIsRead DEF ReadsText
    <3>4. Alike(s, u, s2, v, c, n)
      BY <1>0, <1>6, <2>4, <2>8, <3>1, <3>2, <3>3, TextAlike
    <3>5. Longer(q, s2.places, n, c, x, u) /\ Done(s2, n) = n
      BY <2>5, <3>4 DEF Alike, Like, Done
    <3>6. PICK z, r : Stood(q, s2.places, n, z, r) /\ z = x \o <<c>> /\ r = Read(u, c, Len(z))
      BY <3>5 DEF Longer
    <3>7. Mirrors(s2, r, q, n)
      BY <3>2, <3>4, <3>6 DEF Alike, Mirrors
    <3> QED BY <3>5, <3>6, <3>7, MirroredBy
  <2> QED BY <2>6, <2>7, <2>8
<1>9. CASE Waits(s, t, q, l) /\ s.mode = "name"
  <2>1. PICK o \in Nat : s.open = o
    BY DEF LexState
  <2>2. /\ o \in 1 .. l /\ o < l /\ q[o] = ":" /\ OnText(t)
        /\ m = o - 1 /\ m \in Nat /\ o = m + 1
    BY <1>0, <1>9, <2>1 DEF Waits, Done
  <2>3. CASE c \in Idents
    <3>1. s2 = s
      BY <1>0, <1>1, <1>9, <2>3, WhatIsRead
    <3>2. Done(s2, n) = m /\ Waits(s2, t, q, n)
      BY <1>0, <1>9, <2>1, <2>2, <3>1 DEF Done, Waits, Pending
    <3> QED BY <1>4, <1>6, <3>1, <3>2, MirroredBy DEF Mirrors
  <2>4. CASE c \notin Idents
    <3> PICK e : e = Emit(s, n)
      OBVIOUS
    <3> PICK p : p = Place(TRUE, o, n)
      OBVIOUS
    <3> PICK longer : longer = Append(ps, p)
      OBVIOUS
    <3>1. e \in LexState /\ e.places = longer
      BY <1>0, <2>1, EmitIs
    <3>2. p \in Span /\ p.end - 1 = l
      <4>1. p.end = n
        BY DEF Place
      <4> QED BY <1>0, <4>1, SpanTypes
    <3>3. CutMarks(q, ps, m, p)
      <4>1. p = Place(TRUE, m + 1, n) /\ m + 1 < n /\ n <= Len(q) + 1 /\ TRUE \in BOOLEAN
        BY <1>0, <2>2
      <4> QED BY <1>0, <1>3, <4>1, MarkAdded, Zenon
    <3>4. Longer(q, longer, l, "?", w, t)
      <4>1. Cuts(q, longer, l) /\ Cut(q, longer, l) = w \o <<"?">>
        BY <1>4, <3>2, <3>3 DEF CutMarks, Stood
      <4>2. "?" \in Bytes /\ w \in Seq(Bytes) /\ t = Ends(w)
        BY <1>4 DEF Stood, Bytes, Marks
      <4> QED BY <4>1, <4>2, ReadsOn, Zenon
    <3>5. PICK x, u : Stood(q, longer, l, x, u) /\ u = Read(t, "?", Len(x)) /\ Len(x) \in Nat
      BY <3>4 DEF Longer
    <3> PICK k \in Nat : k = Len(x)
      BY <3>5
    <3>6. u \in LexState /\ u.mode = "text" /\ u.places = Append(t.places, Place(FALSE, k, k + 1))
      <4>1. "?" \in {":", "?"} /\ u = Read(t, "?", k)
        BY <3>5
      <4>2. OnTextRead(t, "?", k, u)
        BY <1>5, <2>2, <4>1, OnTextReads, Zenon
      <4> QED BY <4>2 DEF OnTextRead
    <3>7. Tally(longer, u.places)
      <4>1. t.places \in Seq(Span) /\ k + 1 \in Nat
        BY <1>5 DEF LexState
      <4>2. Tally(Append(ps, p), Append(t.places, Place(FALSE, k, k + 1)))
        BY <1>6, <3>2, <4>1, TallyMarks, Zenon
      <4> QED BY <3>6, <4>2
    <3>8. s2 = Text(e, c, n)
      BY <1>1, <1>9, <2>4 DEF Read
    <3>9. CASE c = ":"
      <4>1. s2.mode = "colon" /\ s2.open = n /\ s2.places = longer
        <5>1. AsText(s2, c, n, e.places)
          BY <1>0, <3>1, <3>8, TextReads, Zenon
        <5> QED BY <3>1, <3>9, <5>1 DEF AsText
      <4>2. Done(s2, n) = l /\ Waits(s2, u, q, n)
        BY <1>0, <3>6, <3>9, <4>1 DEF Done, Waits, OnText, Pending
      <4> QED BY <3>5, <3>7, <4>1, <4>2, MirroredBy DEF Mirrors
    <3>10. CASE c # ":"
      <4>1. ASSUME NEW more, AfterByte(longer, more, c, n) PROVE Longer(q, more, n, c, x, u)
        BY <1>0, <3>5, <4>1, OneByte
      <4>2. PICK y, v : Stood(q, longer, n, y, v) /\ y = x \o <<c>> /\ v = Read(u, c, Len(y)) /\ Len(y) \in Nat
        BY <4>1 DEF AfterByte, Longer
      <4>3. v = Text(u, c, Len(y))
        BY <3>6, <4>2, TextIsRead DEF ReadsText
      <4>4. Alike(e, u, s2, v, c, n)
        BY <1>0, <3>1, <3>6, <3>7, <3>8, <3>10, <4>2, <4>3, TextAlike
      <4>5. Longer(q, s2.places, n, c, x, u) /\ Done(s2, n) = n
        BY <3>1, <4>1, <4>4 DEF Alike, Like, Done
      <4>6. PICK z, r : Stood(q, s2.places, n, z, r) /\ z = x \o <<c>> /\ r = Read(u, c, Len(z))
        BY <4>5 DEF Longer
      <4>7. Mirrors(s2, r, q, n)
        BY <4>2, <4>4, <4>6 DEF Alike, Mirrors
      <4> QED BY <4>5, <4>6, <4>7, MirroredBy
    <3> QED BY <3>9, <3>10
  <2> QED BY <2>3, <2>4
<1> QED BY <1>5, <1>7, <1>8, <1>9 DEF Mirrors, Waits, Pending

(* After every byte.                                                       *)
LEMMA MirrorsAll ==
  ASSUME NEW q \in Seq(Bytes) PROVE Mirrored(q, Automaton(q)[Len(q)], Len(q))
<1> PICK N \in Nat : N = Len(q)
  BY LenIs, Zenon
<1> PICK A : A = Automaton(q)
  OBVIOUS
<1>1. /\ A \in [0 .. N -> LexState] /\ A[0] = LexStart
      /\ \A n \in 1 .. N : A[n] = Read(A[n - 1], q[n], n)
  BY AutomatonRuns
<1>2. ASSUME NEW n \in 1 .. N, Mirrored(q, A[n - 1], n - 1) PROVE Mirrored(q, A[n], n)
  <2> PICK s : s = A[n - 1]
    OBVIOUS
  <2> PICK s2 : s2 = A[n]
    OBVIOUS
  <2>1. s \in LexState /\ s2 = Read(s, q[n], n) /\ n \in 1 .. Len(q) /\ Mirrored(q, s, n - 1)
    BY <1>1, <1>2
  <2>2. Mirrored(q, s2, n)
    BY <2>1, MirrorsStep, Zenon
  <2> QED BY <2>2
<1> DEFINE Bad == {n \in 0 .. N : ~Mirrored(q, A[n], n)}
<1>3. Bad = {}
  <2> SUFFICES ASSUME Bad # {} PROVE FALSE
    OBVIOUS
  <2>1. PICK n \in Bad : \A j \in Bad : n <= j
    <3>1. Bad \in SUBSET Nat
      OBVIOUS
    <3> HIDE DEF Bad
    <3> QED BY <3>1, LeastNumber
  <2>2. n # 0
    BY <1>1, <2>1, MirrorsStart
  <2>3. n - 1 \in 0 .. N /\ n - 1 \notin Bad /\ n \in 1 .. N
    BY <2>1, <2>2
  <2>4. Mirrored(q, A[n - 1], n - 1)
    BY <2>3
  <2>5. Mirrored(q, A[n], n)
    BY <1>2, <2>3, <2>4
  <2> QED BY <2>1, <2>5
<1>4. Mirrored(q, A[N], N)
  BY <1>3
<1> QED BY <1>4

Stable(q, ps) == LET again == Lexed(AsPositional(q, ps)) IN Tally(ps, again)

LEMMA AllCut == ASSUME NEW q, NEW ps PROVE AsPositional(q, ps) = Cut(q, ps, Len(q))
BY DEF AsPositional, Cut, Gaps, LastEnd

LEMMA LexedIsStable == ASSUME NEW q \in Seq(Bytes) PROVE Stable(q, Lexed(q))
<1> PICK n \in Nat : n = Len(q)
  BY LenIs, Zenon
<1> PICK s : s = Automaton(q)[n]
  OBVIOUS
<1> PICK m : m = Done(s, n)
  OBVIOUS
<1> PICK ps : ps = Final(s, n)
  OBVIOUS
<1>1. s \in LexState /\ Mirrored(q, s, n) /\ Lexed(q) = ps
  BY MirrorsAll, EndsIsState DEF Ends, Lexed
<1>2. Cuts(q, s.places, m) /\ s.places \in Seq(Span)
  BY <1>1 DEF Mirrored, LexState
<1>3. PICK w, t : Stood(q, s.places, m, w, t)
  BY <1>2, StoodFor, Zenon
<1>4. Mirrors(s, t, q, n) /\ t \in LexState /\ Tally(s.places, t.places)
  BY <1>1, <1>3 DEF Mirrored, Mirrors, Stood
(* The text, and the state it ends in. *)
<1>5. ASSUME NEW x, NEW u, Stood(q, ps, n, x, u), u.mode # "name", Tally(ps, u.places)
      PROVE  Stable(q, ps)
  <2>1. AsPositional(q, ps) = x
    BY <1>5, AllCut DEF Stood
  <2>2. Lexed(x) = u.places
    BY <1>5 DEF Stood, Lexed, Final, Ends
  <2> QED BY <1>5, <2>1, <2>2 DEF Stable
<1>6. CASE Like(s, t)
  <2>1. m = n /\ ps = s.places /\ t.mode # "name"
    BY <1>6 DEF Done, Like, Pending, Final
  <2> QED BY <1>1, <1>3, <1>4, <1>5, <2>1
<1>7. CASE Waits(s, t, q, n) /\ s.mode = "colon"
  <2>1. ps = s.places
    BY <1>7 DEF Final
  <2>2. q[n] = ":" /\ OnText(t) /\ n \in 1 .. n /\ m = n - 1 /\ m < Len(q) /\ n = m + 1
    BY <1>7 DEF Waits, Done
  <2>3. Longer(q, ps, n, ":", w, t)
    <3>1. AfterByte(ps, ps, ":", n)
      BY DEF AfterByte
    <3> QED BY <1>3, <2>1, <2>2, <3>1, OneByte
  <2>4. PICK x, u : Stood(q, ps, n, x, u) /\ u = Read(t, ":", Len(x)) /\ Len(x) \in Nat
    BY <2>3 DEF Longer
  <2>5. u.mode = "colon" /\ u.places = t.places
    <3>1. ":" \in {":", "?"}
      OBVIOUS
    <3>2. OnTextRead(t, ":", Len(x), u)
      BY <1>4, <2>2, <2>4, <3>1, OnTextReads, Zenon
    <3> QED BY <3>2 DEF OnTextRead
  <2> QED BY <1>1, <1>4, <1>5, <2>1, <2>4, <2>5
<1>8. CASE Waits(s, t, q, n) /\ s.mode = "name"
  <2>1. PICK o \in Nat : s.open = o
    BY <1>1 DEF LexState
  <2> PICK end \in Nat : end = n + 1
    OBVIOUS
  <2> PICK p : p = Place(TRUE, o, end)
    OBVIOUS
  <2>2. o \in 1 .. n /\ o < n /\ OnText(t) /\ m = o - 1 /\ o = m + 1
    BY <1>8, <2>1 DEF Waits, Done
  <2>3. ps = Append(s.places, p)
    BY <1>1, <1>8, <2>1, EmitIs DEF Final
  <2>4. p \in Span /\ p.end - 1 = n
    <3>1. p.end = end
      BY DEF Place
    <3>2. p \in Span
      <4>1. TRUE \in BOOLEAN
        OBVIOUS
      <4> QED BY <4>1, SpanTypes, Zenon
    <3>3. end - 1 = n
      OBVIOUS
    <3> QED BY <3>1, <3>2, <3>3, Zenon
  <2>5. CutMarks(q, s.places, m, p)
    <3>1. p = Place(TRUE, m + 1, end) /\ m + 1 < end /\ end <= Len(q) + 1 /\ TRUE \in BOOLEAN
      BY <2>2
    <3> QED BY <1>2, <3>1, MarkAdded, Zenon
  <2>6. Longer(q, ps, n, "?", w, t)
    <3>1. Cuts(q, ps, n) /\ Cut(q, ps, n) = w \o <<"?">>
      BY <1>3, <2>3, <2>4, <2>5 DEF CutMarks, Stood
    <3>2. "?" \in Bytes /\ w \in Seq(Bytes) /\ t = Ends(w)
      BY <1>3 DEF Stood, Bytes, Marks
    <3> QED BY <3>1, <3>2, ReadsOn, Zenon
  <2>7. PICK x, u : Stood(q, ps, n, x, u) /\ u = Read(t, "?", Len(x)) /\ Len(x) \in Nat
    BY <2>6 DEF Longer
  <2> PICK k \in Nat : k = Len(x)
    BY <2>7
  <2>8. u.mode = "text" /\ u.places = Append(t.places, Place(FALSE, k, k + 1))
    <3>1. "?" \in {":", "?"} /\ u = Read(t, "?", k)
      BY <2>7
    <3>2. OnTextRead(t, "?", k, u)
      BY <1>4, <2>2, <3>1, OnTextReads, Zenon
    <3> QED BY <3>2 DEF OnTextRead
  <2>9. Tally(ps, u.places)
    <3>1. t.places \in Seq(Span) /\ k + 1 \in Nat
      BY <1>4 DEF LexState
    <3>2. Tally(Append(s.places, p), Append(t.places, Place(FALSE, k, k + 1)))
      BY <1>2, <1>4, <2>4, <3>1, TallyMarks, Zenon
    <3> QED BY <2>3, <2>8, <3>2
  <2>10. Stable(q, ps)
    BY <1>5, <2>7, <2>8, <2>9
  <2> QED BY <1>1, <2>10
<1> QED BY <1>4, <1>6, <1>7, <1>8 DEF Mirrors, Waits, Pending

(* Binding does not change how the rest of the query reads: the text that  *)
(* bindNamed writes is parsed again by Rebind, which finds the             *)
(* placeholders there were, now positional (bind.go:174, :421).            *)
THEOREM BindingReadsTheSame == Spec => []StableUnderBinding
<1>1. OrderInv /\ LexInv => StableUnderBinding
  <2> SUFFICES ASSUME OrderInv, LexInv, Parsed
               PROVE  LET again == Lexed(AsPositional(query, places))
                      IN  Len(again) = Len(places) /\ \A k \in DOMAIN again : ~again[k].named
    BY DEF StableUnderBinding
  <2>1. mode = "scan" /\ ~(i <= Len(query)) /\ query \in Seq(Bytes)
    BY DEF Parsed, More, OrderInv, ParserTypes
  <2>2. places = Lexed(query)
    BY <2>1 DEF LexInv, Agree, Lexed
  <2>3. Stable(query, places)
    BY <2>1, <2>2, LexedIsStable
  <2> QED BY <2>3 DEF Stable, Tally
<1> QED BY <1>1, OrderInit, OrderStep, LexInit, LexStep, PTL DEF Spec
=============================================================================
