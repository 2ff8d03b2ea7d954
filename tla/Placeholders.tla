---------------------------- MODULE Placeholders ----------------------------
(***************************************************************************)
(* parsePlaceholders (bind.go:26): one pass over the bytes of a query that *)
(* collects its placeholders and leaves literals, comments and casts out.  *)
(*                                                                         *)
(* A byte is a member of a class; every state is the state of the loop at  *)
(* byte i, and an action is one turn of the outer or of an inner loop.     *)
(* Positions count from 1, and a placeholder ends before its `end'.        *)
(***************************************************************************)
EXTENDS Naturals, Sequences, SequencesExt

CONSTANTS
  Quotes,  \* the quote characters
  Idents,  \* the characters of a name
  Others,  \* characters with no meaning to the parser
  MaxLen   \* bound: the longest query

Marks == {"-", "/", "*", ":", "?", "nl"}
Bytes == Quotes \cup Idents \cup Others \cup Marks

ASSUME ByteClasses ==
  /\ Quotes \cap (Idents \cup Others \cup Marks) = {}
  /\ Idents \cap (Others \cup Marks) = {}
  /\ Others \cap Marks = {}
  /\ MaxLen \in Nat

VARIABLES
  query,  \* the query, which does not change
  i,      \* the byte the parser looks at
  mode,   \* which loop it is in
  open,   \* where the literal or the placeholder it is in began
  places  \* the placeholders so far

vars == <<query, i, mode, open, places>>

Init ==
  /\ query \in BoundedSeq(Bytes, MaxLen)
  /\ i = 1
  /\ mode = "scan"
  /\ open = 0
  /\ places = <<>>

More == i <= Len(query)
At(j, c) == j <= Len(query) /\ query[j] = c
IsIdentChar(j) == j <= Len(query) /\ query[j] \in Idents

Place(named, pos, end) == [named |-> named, pos |-> pos, end |-> end]

Enter(m) == mode' = m /\ open' = i

(* Mutant of Colon: a cast is not recognised. *)
ColonNoCast ==
  /\ At(i, ":")
  /\ Enter("name") /\ i' = i + 1
  /\ UNCHANGED places

(* "::" is a cast, any other colon may begin a name. *)
Colon ==
  /\ At(i, ":")
  /\ IF At(i + 1, ":")
       THEN i' = i + 2 /\ UNCHANGED <<mode, open>>
       ELSE i' = i + 1 /\ Enter("name")
  /\ UNCHANGED places

Positional ==
  /\ At(i, "?")
  /\ places' = Append(places, Place(FALSE, i, i + 1))
  /\ i' = i + 1
  /\ UNCHANGED <<mode, open>>

Quote ==
  /\ More /\ query[i] \in Quotes
  /\ Enter("quoted") /\ i' = i + 1
  /\ UNCHANGED places

(* Mutant of Comment: a slash is enough. *)
CommentEager ==
  /\ \/ At(i, "-") /\ At(i + 1, "-") /\ Enter("line") /\ i' = i + 2
     \/ At(i, "/") /\ Enter("block") /\ i' = i + 2
  /\ UNCHANGED places

Comment ==
  /\ \/ At(i, "-") /\ At(i + 1, "-") /\ Enter("line") /\ i' = i + 2
     \/ At(i, "/") /\ At(i + 1, "*") /\ Enter("block") /\ i' = i + 2
  /\ UNCHANGED places

Plain ==
  /\ More
  /\ \/ query[i] \in Idents \cup Others \cup {"*", "nl"}
     \/ At(i, "-") /\ ~At(i + 1, "-")
     \/ At(i, "/") /\ ~At(i + 1, "*")
  /\ i' = i + 1
  /\ UNCHANGED <<mode, open, places>>

(* One turn of the outer loop. *)
Scan ==
  /\ mode = "scan"
  /\ Quote \/ Comment \/ Colon \/ Positional \/ Plain
  /\ UNCHANGED query

(* Up to the closing quote; a doubled one stands for itself. *)
InQuotes ==
  /\ mode = "quoted"
  /\ LET quote == query[open]
         escape == At(i, quote) /\ At(i + 1, quote)
     IN  /\ mode' = IF ~More \/ (At(i, quote) /\ ~escape) THEN "scan" ELSE mode
         /\ i' = IF escape THEN i + 2 ELSE IF More THEN i + 1 ELSE i
  /\ UNCHANGED <<query, open, places>>

(* Up to the end of the line, which stays to be read. *)
InLine ==
  /\ mode = "line"
  /\ IF More /\ ~At(i, "nl")
       THEN i' = i + 1 /\ UNCHANGED mode
       ELSE mode' = "scan" /\ UNCHANGED i
  /\ UNCHANGED <<query, open, places>>

(* Up to the closing mark; without one, past the last byte. *)
InBlock ==
  /\ mode = "block"
  /\ IF i < Len(query) /\ ~(At(i, "*") /\ At(i + 1, "/"))
       THEN i' = i + 1 /\ UNCHANGED mode
       ELSE i' = i + 2 /\ mode' = "scan"
  /\ UNCHANGED <<query, open, places>>

(* Mutant of InName: the character that ends the name is part of it. *)
InNameKeepsEnd ==
  /\ mode = "name"
  /\ IF IsIdentChar(i)
       THEN i' = i + 1 /\ UNCHANGED <<mode, places>>
       ELSE /\ places' = IF i > open + 1
                           THEN Append(places, Place(TRUE, open, i + 1)) ELSE places
            /\ mode' = "scan" /\ i' = i + 1
  /\ UNCHANGED <<query, open>>

(* Mutant of InName: the parser waits at a colon without a name. *)
InNameWaits ==
  /\ mode = "name"
  /\ \/ IsIdentChar(i) /\ i' = i + 1 /\ UNCHANGED <<mode, places>>
     \/ /\ ~IsIdentChar(i)
        /\ i > open + 1
        /\ places' = Append(places, Place(TRUE, open, i))
        /\ mode' = "scan" /\ UNCHANGED i
     \/ /\ i = open + 1 /\ ~IsIdentChar(i)
        /\ i' = open /\ mode' = "scan" /\ UNCHANGED places
  /\ UNCHANGED <<query, open>>

(* Up to the end of the name; a colon without a name is ignored. *)
InName ==
  /\ mode = "name"
  /\ IF IsIdentChar(i)
       THEN i' = i + 1 /\ UNCHANGED <<mode, places>>
       ELSE /\ places' = IF i > open + 1
                           THEN Append(places, Place(TRUE, open, i)) ELSE places
            /\ mode' = "scan" /\ UNCHANGED i
  /\ UNCHANGED <<query, open>>

Next == Scan \/ InQuotes \/ InLine \/ InBlock \/ InName

Spec == Init /\ [][Next]_vars

Parsed == mode = "scan" /\ ~More

-----------------------------------------------------------------------------
(***************************************************************************)
(* Reference: the lexical structure of SQL as an automaton that reads each *)
(* byte once and never looks ahead.  A state remembers the bytes it may    *)
(* still have to reinterpret ("dash", "slash", "colon", "closing", "star").*)
(***************************************************************************)
Text(s, c, j) ==
  LET to(m) == [s EXCEPT !.mode = m, !.open = j, !.quote = c]
  IN  CASE c \in Quotes -> to("quoted")
        [] c = "-" -> to("dash")
        [] c = "/" -> to("slash")
        [] c = ":" -> to("colon")
        [] c = "?" -> [to("text") EXCEPT !.places = Append(@, Place(FALSE, j, j + 1))]
        [] OTHER -> to("text")

Emit(s, j) == [s EXCEPT !.places = Append(@, Place(TRUE, s.open, j))]

Read(s, c, j) ==
  LET to(m) == [s EXCEPT !.mode = m]
  IN  CASE s.mode = "quoted" -> to(IF c = s.quote THEN "closing" ELSE "quoted")
        [] s.mode = "closing" -> IF c = s.quote THEN to("quoted") ELSE Text(s, c, j)
        [] s.mode = "dash" -> IF c = "-" THEN to("line") ELSE Text(s, c, j)
        [] s.mode = "line" -> to(IF c = "nl" THEN "text" ELSE "line")
        [] s.mode = "slash" -> IF c = "*" THEN to("block") ELSE Text(s, c, j)
        [] s.mode = "block" -> to(IF c = "*" THEN "star" ELSE "block")
        [] s.mode = "star" ->
             to(IF c = "/" THEN "text" ELSE IF c = "*" THEN "star" ELSE "block")
        [] s.mode = "colon" ->
             IF c = ":" THEN to("text")
             ELSE IF c \in Idents THEN to("name") ELSE Text(s, c, j)
        [] s.mode = "name" -> IF c \in Idents THEN s ELSE Text(Emit(s, j), c, j)
        [] OTHER -> Text(s, c, j)

(* Its states while it reads q: the n-th is the one after n bytes. *)
Automaton(q) ==
  LET start == [mode |-> "text", open |-> 0, quote |-> "?", places |-> <<>>]
      after[n \in 0 .. Len(q)] == IF n = 0 THEN start ELSE Read(after[n - 1], q[n], n)
  IN  after

Final(s, n) == IF s.mode = "name" THEN Emit(s, n + 1).places ELSE s.places

Lexed(q) == Final(Automaton(q)[Len(q)], Len(q))

-----------------------------------------------------------------------------
(***************************************************************************)
(* Properties.                                                             *)
(***************************************************************************)

(* The query with every named placeholder replaced by "?", as bindNamed    *)
(* leaves it for Rebind to parse again (bind.go:174, :421).                *)
AsPositional(q, ps) ==
  LET gap(k) == SubSeq(q, IF k = 1 THEN 1 ELSE ps[k - 1].end, ps[k].pos - 1) \o <<"?">>
      rest == SubSeq(q, IF ps = <<>> THEN 1 ELSE ps[Len(ps)].end, Len(q))
  IN  FlattenSeq([k \in DOMAIN ps |-> gap(k)]) \o rest

(* The placeholders lie in the query, in order and apart, so that the      *)
(* slices bindNamed, bindNamedMany and Rebind cut between them exist       *)
(* (bind.go:184, :327, :373, :430).                                        *)
PlacesInOrder ==
  \A k \in DOMAIN places :
    /\ places[k].pos < places[k].end
    /\ places[k].end <= Len(query) + 1
    /\ k > 1 => places[k - 1].end <= places[k].pos

(* The parser finds the placeholders of the lexical structure and no       *)
(* others: "skipping `::cast`, string literals, and comments" (bind.go:23).*)
FindsThePlaceholders == Parsed => places = Lexed(query)

(* Binding does not change how the rest of the query reads: the text that  *)
(* bindNamed writes has as many placeholders as the query, all positional, *)
(* so that the second parse, in Rebind, numbers the arguments              *)
(* (bind.go:793).                                                          *)
StableUnderBinding ==
  Parsed =>
    LET again == Lexed(AsPositional(query, places))
    IN  /\ Len(again) = Len(places)
        /\ \A k \in DOMAIN again : ~again[k].named

(* Every query is read to its end, and no loop waits at a byte             *)
(* (bind.go:29, :35, :50, :59, :74).                                       *)
ReadsToTheEnd == <>Parsed
=============================================================================
