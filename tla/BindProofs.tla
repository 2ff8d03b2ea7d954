----------------------------- MODULE BindProofs ------------------------------
(***************************************************************************)
(* Proofs about Bind, for every set of names, words and arguments, with or *)
(* without slice expansion, and for queries of any length.                 *)
(***************************************************************************)
EXTENDS Bind, Recursion, FiniteSetTheorems

-----------------------------------------------------------------------------
(* Sequences one after the other. *)

(* f is what there is after each of the parts. *)
Runs(f, S, parts) ==
  /\ f \in [0 .. Len(parts) -> Seq(S)]
  /\ f[0] = <<>>
  /\ \A k \in 1 .. Len(parts) : f[k] = f[k - 1] \o parts[k]

LEMMA Concats ==
  ASSUME NEW S, NEW s \in Seq(S), NEW t \in Seq(S)
  PROVE  /\ s \o t \in Seq(S) /\ Len(s \o t) = Len(s) + Len(t)
         /\ \A k \in 1 .. Len(s) : (s \o t)[k] = s[k]
         /\ \A k \in 1 .. Len(t) : (s \o t)[Len(s) + k] = t[k]
         /\ <<>> \o s = s /\ s \o <<>> = s
  OBVIOUS

Adds(f, S, parts, k) ==
  f[k] = f[k - 1] \o parts[k] /\ f[k - 1] \in Seq(S) /\ f[k] \in Seq(S) /\ parts[k] \in Seq(S)

LEMMA RunsStep ==
  ASSUME NEW S, NEW f, NEW parts \in Seq(Seq(S)), Runs(f, S, parts), NEW k \in 1 .. Len(parts)
  PROVE  Adds(f, S, parts, k)
<1>1. k - 1 \in 0 .. Len(parts) /\ k \in 0 .. Len(parts) /\ parts[k] \in Seq(S)
  OBVIOUS
<1> QED BY <1>1 DEF Runs, Adds

(* FlattenSeq puts one part after the other.                               *)
LEMMA FlattenRuns ==
  ASSUME NEW S, NEW parts \in Seq(Seq(S))
  PROVE  \E f : Runs(f, S, parts) /\ FlattenSeq(parts) = f[Len(parts)]
<1> PICK m \in Nat : m = Len(parts) /\ DOMAIN parts = 1 .. m
  OBVIOUS
<1>1. \A k \in 1 .. m : parts[k] \in Seq(S)
  OBVIOUS
<1> DEFINE step == [k \in 1 .. m |-> [s \in Seq(S) |-> s \o parts[k]]]
<1>2. step \in [1 .. m -> [Seq(S) -> Seq(S)]]
  BY <1>1
<1>3. <<>> \in Seq(S)
  OBVIOUS
<1> HIDE DEF step
<1>4. PICK f \in [0 .. m -> Seq(S)] : Follows(f, m, <<>>, step)
  BY <1>2, <1>3, RecursionExists
<1>5. ASSUME NEW k \in 1 .. m PROVE f[k] = f[k - 1] \o parts[k] /\ f[k - 1] \in Seq(S)
  <2>1. f[k - 1] \in Seq(S)
    <3>1. k - 1 \in 0 .. m
      OBVIOUS
    <3> QED BY <1>4, <3>1, Zenon
  <2>2. f[k] = step[k][f[k - 1]]
    BY <1>4 DEF Follows
  <2> QED BY <2>1, <2>2 DEF step
<1>6. Runs(f, S, parts)
  BY <1>4, <1>5 DEF Runs, Follows
<1>7. CASE m = 0
  <2>1. FlattenSeq(parts) = <<>>
    BY <1>7 DEF FlattenSeq
  <2> QED BY <1>6, <1>7, <2>1 DEF Runs
<1>8. CASE m # 0
  <2> DEFINE Rule(g) == g = [k \in 1 .. m |-> IF k = 1 THEN parts[k] ELSE g[k - 1] \o parts[k]]
             flatten == CHOOSE g : Rule(g)
  <2>1. FlattenSeq(parts) = flatten[m]
    BY <1>8 DEF FlattenSeq
  <2>2. f[1] = parts[1]
    <3>1. 1 \in 1 .. m /\ 1 - 1 = 0
      BY <1>8
    <3>2. f[1] = f[0] \o parts[1] /\ parts[1] \in Seq(S)
      BY <1>1, <1>5, <3>1
    <3>3. f[0] = <<>>
      BY <1>6 DEF Runs
    <3> QED BY <3>2, <3>3, Concats
  <2>3. Rule([k \in 1 .. m |-> f[k]])
    <3> DEFINE g == [k \in 1 .. m |-> f[k]]
    <3>1. ASSUME NEW k \in 1 .. m
          PROVE  g[k] = IF k = 1 THEN parts[k] ELSE g[k - 1] \o parts[k]
      <4>1. CASE k = 1
        BY <2>2, <4>1
      <4>2. CASE k # 1
        <5>1. k - 1 \in 1 .. m
          BY <4>2
        <5> QED BY <1>5, <4>2, <5>1
      <4> QED BY <4>1, <4>2
    <3> QED BY <3>1
  <2>4. Rule(flatten)
    BY <2>3, Zenon
  <2> HIDE DEF flatten
  <2> DEFINE Bad == {k \in 1 .. m : flatten[k] # f[k]}
  <2>5. Bad = {}
    <3> SUFFICES ASSUME Bad # {} PROVE FALSE
      OBVIOUS
    <3>1. PICK k \in Bad : \A j \in Bad : k <= j
      <4>1. Bad \in SUBSET Nat
        OBVIOUS
      <4> HIDE DEF Bad
      <4> QED BY <4>1, LeastNumber
    <3>2. CASE k = 1
      BY <2>2, <2>4, <3>1, <3>2
    <3>3. CASE k # 1
      <4> PICK j \in Nat : j = k - 1 /\ k \in 1 .. m
        BY <3>1
      <4>0. j \in 1 .. m /\ ~(k <= j)
        BY <3>3
      <4>1. k - 1 \in 1 .. m /\ k - 1 \notin Bad /\ k \in 1 .. m
        BY <3>1, <4>0
      <4>2. flatten[k] = flatten[k - 1] \o parts[k]
        BY <2>4, <3>3, <4>1
      <4> QED BY <1>5, <3>1, <4>1, <4>2
    <3> QED BY <3>2, <3>3
  <2>6. flatten[m] = f[m]
    BY <1>8, <2>5
  <2> QED BY <1>6, <2>1, <2>6
<1> QED BY <1>7, <1>8

SameUpTo(m, parts, more) ==
  m <= Len(parts) /\ m <= Len(more) /\ \A k \in 1 .. m : parts[k] = more[k]

SameAt(f, g, m) == f[m] = g[m]

(* The same parts make the same sequence.                                  *)
LEMMA RunsAgree ==
  ASSUME NEW S, NEW m \in Nat, NEW parts \in Seq(Seq(S)), NEW more \in Seq(Seq(S)),
         SameUpTo(m, parts, more),
         NEW f, NEW g, Runs(f, S, parts), Runs(g, S, more)
  PROVE  SameAt(f, g, m)
<1> USE DEF SameUpTo, SameAt
<1> DEFINE Bad == {k \in 0 .. m : f[k] # g[k]}
<1>1. Bad = {}
  <2> SUFFICES ASSUME Bad # {} PROVE FALSE
    OBVIOUS
  <2>1. PICK k \in Bad : \A j \in Bad : k <= j
    <3>1. Bad \in SUBSET Nat
      OBVIOUS
    <3> HIDE DEF Bad
    <3> QED BY <3>1, LeastNumber
  <2>2. k # 0
    BY <2>1 DEF Runs
  <2>3. k - 1 \in 0 .. m /\ k - 1 \notin Bad /\ k \in 1 .. m
    BY <2>1, <2>2
  <2>4. k \in 1 .. Len(parts) /\ k \in 1 .. Len(more) /\ f[k - 1] = g[k - 1]
    BY <2>3
  <2>5. f[k] = f[k - 1] \o parts[k] /\ g[k] = g[k - 1] \o more[k]
    BY <2>4 DEF Runs
  <2> QED BY <2>1, <2>3, <2>4, <2>5
<1>2. m \in 0 .. m
  OBVIOUS
<1> QED BY <1>1, <1>2

LEMMA FlattenEmpty == FlattenSeq(<<>>) = <<>>
BY DEF FlattenSeq

LEMMA FlattenType ==
  ASSUME NEW S, NEW parts \in Seq(Seq(S)) PROVE FlattenSeq(parts) \in Seq(S)
<1>1. PICK f : Runs(f, S, parts) /\ FlattenSeq(parts) = f[Len(parts)]
  BY FlattenRuns
<1> QED BY <1>1 DEF Runs

LEMMA FlattenAppend ==
  ASSUME NEW S, NEW parts \in Seq(Seq(S)), NEW p \in Seq(S)
  PROVE  FlattenSeq(Append(parts, p)) = FlattenSeq(parts) \o p
<1> PICK m \in Nat : m = Len(parts)
  OBVIOUS
<1> DEFINE longer == Append(parts, p)
<1>1. longer \in Seq(Seq(S)) /\ Len(longer) = m + 1 /\ longer[m + 1] = p
      /\ \A k \in 1 .. m : parts[k] = longer[k]
  OBVIOUS
<1> HIDE DEF longer
<1>2. PICK f : Runs(f, S, parts) /\ FlattenSeq(parts) = f[Len(parts)]
  BY FlattenRuns
<1>3. PICK g : Runs(g, S, longer) /\ FlattenSeq(longer) = g[Len(longer)]
  BY <1>1, FlattenRuns
<1>4. f[m] = g[m]
  <2>1. m <= Len(parts) /\ m <= Len(longer) /\ longer \in Seq(Seq(S)) /\ \A k \in 1 .. m : parts[k] = longer[k]
    BY <1>1
  <2>2. Runs(f, S, parts) /\ Runs(g, S, longer)
    BY <1>2, <1>3
  <2>3. SameUpTo(m, parts, longer)
    BY <2>1 DEF SameUpTo
  <2>4. SameAt(f, g, m)
    BY <2>1, <2>2, <2>3, RunsAgree, Zenon
  <2> QED BY <2>4 DEF SameAt
<1>5. g[m + 1] = g[m] \o p
  <2> PICK n \in Nat : n = m + 1
    OBVIOUS
  <2>1. n \in 1 .. Len(longer) /\ n - 1 = m
    BY <1>1
  <2>2. g[n] = g[n - 1] \o longer[n]
    BY <1>3, <2>1 DEF Runs
  <2> QED BY <1>1, <2>1, <2>2
<1> QED BY <1>1, <1>2, <1>3, <1>4, <1>5 DEF longer

(* A sequence is its elements, one after the other.                        *)
LEMMA FlattenSingles ==
  ASSUME NEW S, NEW s \in Seq(S)
  PROVE  FlattenSeq([k \in 1 .. Len(s) |-> <<s[k]>>]) = s
<1> PICK m \in Nat : m = Len(s) /\ DOMAIN s = 1 .. m
  OBVIOUS
<1> DEFINE parts == [k \in 1 .. m |-> <<s[k]>>]
<1>1. parts \in Seq(Seq(S)) /\ Len(parts) = m /\ \A k \in 1 .. m : parts[k] = <<s[k]>> /\ s[k] \in S
  OBVIOUS
<1> HIDE DEF parts
<1>2. PICK f : Runs(f, S, parts) /\ FlattenSeq(parts) = f[m]
  BY <1>1, FlattenRuns
<1> DEFINE So(k) == f[k] \in Seq(S) /\ Len(f[k]) = k /\ \A j \in 1 .. k : f[k][j] = s[j]
           Bad == {k \in 0 .. m : ~So(k)}
<1>3. Bad = {}
  <2> SUFFICES ASSUME Bad # {} PROVE FALSE
    OBVIOUS
  <2>1. PICK k \in Bad : \A j \in Bad : k <= j
    <3>1. Bad \in SUBSET Nat
      OBVIOUS
    <3> HIDE DEF Bad
    <3> QED BY <3>1, LeastNumber
  <2>2. So(0)
    BY <1>1, <1>2 DEF Runs
  <2>3. k # 0 /\ k \in 1 .. m /\ k - 1 \in 0 .. m
    BY <2>1, <2>2
  <2>4. So(k - 1)
    BY <2>1, <2>3
  <2>5. f[k] = f[k - 1] \o <<s[k]>>
    BY <1>1, <1>2, <2>3 DEF Runs
  <2> PICK t : t = f[k - 1]
    OBVIOUS
  <2>6. t \in Seq(S) /\ Len(t) = k - 1 /\ (\A j \in 1 .. k - 1 : t[j] = s[j]) /\ s[k] \in S
    BY <1>1, <2>3, <2>4
  <2>7. t \o <<s[k]>> = Append(t, s[k])
    BY <2>6
  <2>8. Append(t, s[k]) \in Seq(S) /\ Len(Append(t, s[k])) = k
        /\ \A j \in 1 .. k : Append(t, s[k])[j] = s[j]
    BY <2>3, <2>6
  <2>9. So(k)
    BY <2>5, <2>7, <2>8
  <2> QED BY <2>1, <2>9
<1>4. So(m)
  BY <1>3
<1>5. FlattenSeq(parts) = s
  BY <1>2, <1>4
<1> QED BY <1>5 DEF parts

-----------------------------------------------------------------------------
(* The numbers of the question marks, and what each one stands for. *)

LEMMA NoMarks == ASSUME NEW s PROVE MarksUpTo(s, 0) = 0
<1>1. {j \in 1 .. 0 : s[j] = "?"} = {}
  OBVIOUS
<1> QED BY <1>1, FS_EmptySet DEF MarksUpTo

LEMMA MarksGrow ==
  ASSUME NEW s, NEW k \in Nat
  PROVE  /\ MarksUpTo(s, k) \in Nat
         /\ MarksUpTo(s, k + 1) = MarksUpTo(s, k) + (IF s[k + 1] = "?" THEN 1 ELSE 0)
<1> DEFINE M == {j \in 1 .. k : s[j] = "?"}
<1>1. IsFiniteSet(M)
  <2>1. IsFiniteSet(1 .. k)
    BY FS_Interval
  <2> QED BY <2>1, FS_Subset
<1>2. {j \in 1 .. k + 1 : s[j] = "?"} = IF s[k + 1] = "?" THEN M \cup {k + 1} ELSE M
  OBVIOUS
<1>3. k + 1 \notin M
  OBVIOUS
<1> HIDE DEF M
<1>4. Cardinality(M) \in Nat
  BY <1>1, FS_CardinalityType
<1>5. Cardinality(M \cup {k + 1}) = Cardinality(M) + 1
  BY <1>1, <1>3, FS_AddElement
<1>6. MarksUpTo(s, k) = Cardinality(M)
  BY DEF MarksUpTo, M
<1>7. MarksUpTo(s, k + 1) = Cardinality(IF s[k + 1] = "?" THEN M \cup {k + 1} ELSE M)
  BY <1>2 DEF MarksUpTo
<1> QED BY <1>4, <1>5, <1>6, <1>7

LEMMA MarksMonotone ==
  ASSUME NEW s, NEW n \in Nat, NEW k \in 0 .. n
  PROVE  MarksUpTo(s, k) <= MarksUpTo(s, n)
<1> DEFINE Bad == {j \in 0 .. n - k : ~(MarksUpTo(s, k) <= MarksUpTo(s, k + j))}
<1>1. Bad = {}
  <2> SUFFICES ASSUME Bad # {} PROVE FALSE
    OBVIOUS
  <2>1. PICK j \in Bad : \A m \in Bad : j <= m
    <3>1. Bad \in SUBSET Nat
      OBVIOUS
    <3> HIDE DEF Bad
    <3> QED BY <3>1, LeastNumber
  <2>2. j # 0
    <3>1. k + 0 = k /\ MarksUpTo(s, k) \in Nat
      BY MarksGrow
    <3> QED BY <2>1, <3>1
  <2> PICK i \in Nat : i = j - 1
    BY <2>1, <2>2
  <2>3. i \in 0 .. n - k /\ i \notin Bad /\ k + j = (k + i) + 1 /\ k + i \in Nat
    BY <2>1
  <2>4. MarksUpTo(s, k) <= MarksUpTo(s, k + i)
    BY <2>3
  <2>5. /\ MarksUpTo(s, k) \in Nat /\ MarksUpTo(s, k + i) \in Nat
        /\ MarksUpTo(s, (k + i) + 1) >= MarksUpTo(s, k + i)
        /\ MarksUpTo(s, (k + i) + 1) \in Nat
    BY <2>3, MarksGrow
  <2> QED BY <2>1, <2>3, <2>4, <2>5
<1>2. n - k \in 0 .. n - k /\ k + (n - k) = n
  OBVIOUS
<1> QED BY <1>1, <1>2

LEMMA MarkCounts ==
  ASSUME NEW s, NEW k \in Nat \ {0}
  PROVE  MarksUpTo(s, k) \in Nat /\ (s[k] = "?" => MarksUpTo(s, k) # 0)
<1> PICK j \in Nat : k = j + 1
  BY k - 1 \in Nat
<1>1. /\ MarksUpTo(s, j) \in Nat
      /\ MarksUpTo(s, j + 1) = MarksUpTo(s, j) + (IF s[j + 1] = "?" THEN 1 ELSE 0)
  BY MarksGrow
<1> QED BY <1>1

LEMMA SeqIs == ASSUME NEW S, NEW s \in Seq(S) PROVE s = [k \in 1 .. Len(s) |-> s[k]]
OBVIOUS

(* s reads as m when its marks stand for the arguments a, in their order.  *)
Spells(s, a, m) == Spelled(s, a) = m /\ MarksUpTo(s, Len(s)) = Len(a)

(* What a lexeme of s stands for.                                          *)
Stands(s, a, k) ==
  IF s[k] # "?" THEN [text |-> s[k]]
  ELSE [value |-> IF MarksUpTo(s, k) <= Len(a) THEN a[MarksUpTo(s, k)] ELSE "missing"]

LEMMA SpelledIs ==
  ASSUME NEW T, NEW s \in Seq(T), NEW a
  PROVE  Spelled(s, a) = [k \in 1 .. Len(s) |-> Stands(s, a, k)]
<1>1. DOMAIN s = 1 .. Len(s)
  OBVIOUS
<1>2. ASSUME NEW k \in DOMAIN s
      PROVE  (IF Rebind(s)[k].n = 0 THEN [text |-> s[k]]
              ELSE [value |-> IF Rebind(s)[k].n <= Len(a) THEN a[Rebind(s)[k].n] ELSE "missing"])
               = Stands(s, a, k)
  <2>1. Rebind(s)[k].n = IF s[k] = "?" THEN MarksUpTo(s, k) ELSE 0
    BY DEF Rebind
  <2>2. s[k] = "?" => MarksUpTo(s, k) # 0
    <3>1. k \in Nat \ {0}
      BY <1>1
    <3> QED BY <3>1, MarkCounts
  <2> QED BY <2>1, <2>2 DEF Stands
<1> QED BY <1>1, <1>2 DEF Spelled

(* Marks of a sequence that follows another.                               *)
LEMMA MarksConcat ==
  ASSUME NEW T, NEW s \in Seq(T), NEW t \in Seq(T)
  PROVE  /\ \A k \in 0 .. Len(s) : MarksUpTo(s \o t, k) = MarksUpTo(s, k)
         /\ \A k \in 0 .. Len(t) :
              MarksUpTo(s \o t, Len(s) + k) = MarksUpTo(s, Len(s)) + MarksUpTo(t, k)
<1> PICK m \in Nat : m = Len(s)
  OBVIOUS
<1> PICK st : st = s \o t
  OBVIOUS
<1>0. (\A k \in 1 .. m : st[k] = s[k]) /\ (\A k \in 1 .. Len(t) : st[m + k] = t[k]) /\ Len(t) \in Nat
  BY Concats
<1>1. ASSUME NEW k \in 0 .. m PROVE MarksUpTo(st, k) = MarksUpTo(s, k)
  <2>1. {j \in 1 .. k : st[j] = "?"} = {j \in 1 .. k : s[j] = "?"}
    BY <1>0
  <2> QED BY <2>1 DEF MarksUpTo
<1> DEFINE Bad == {k \in 0 .. Len(t) : MarksUpTo(st, m + k) # MarksUpTo(s, m) + MarksUpTo(t, k)}
<1>2. Bad = {}
  <2> SUFFICES ASSUME Bad # {} PROVE FALSE
    OBVIOUS
  <2>1. PICK k \in Bad : \A j \in Bad : k <= j
    <3>1. Bad \in SUBSET Nat
      OBVIOUS
    <3> HIDE DEF Bad
    <3> QED BY <3>1, LeastNumber
  <2>2. k # 0
    <3>1. m + 0 = m /\ MarksUpTo(st, m) = MarksUpTo(s, m) /\ MarksUpTo(s, m) \in Nat
      BY <1>1, MarksGrow
    <3> QED BY <2>1, <3>1, NoMarks
  <2> PICK i \in Nat : i = k - 1
    BY <2>1, <2>2
  <2>3. i \in 0 .. Len(t) /\ i \notin Bad /\ m + k = (m + i) + 1 /\ k = i + 1 /\ m + i \in Nat
        /\ k \in 1 .. Len(t)
    BY <1>0, <2>1
  <2>4. MarksUpTo(st, m + i) = MarksUpTo(s, m) + MarksUpTo(t, i)
    BY <2>3
  <2>5. st[(m + i) + 1] = t[i + 1]
    BY <1>0, <2>3
  <2>6. /\ MarksUpTo(s, m) \in Nat /\ MarksUpTo(t, i) \in Nat
        /\ MarksUpTo(st, (m + i) + 1)
             = MarksUpTo(st, m + i) + (IF st[(m + i) + 1] = "?" THEN 1 ELSE 0)
        /\ MarksUpTo(t, i + 1) = MarksUpTo(t, i) + (IF t[i + 1] = "?" THEN 1 ELSE 0)
    BY <2>3, MarksGrow
  <2>7. MarksUpTo(st, m + k) = MarksUpTo(s, m) + MarksUpTo(t, k)
    BY <2>3, <2>4, <2>5, <2>6
  <2> QED BY <2>1, <2>7
<1> QED BY <1>1, <1>2

(* Two texts that read as they are meant read so one after the other.      *)
LEMMA SpellsConcat ==
  ASSUME NEW T, NEW s \in Seq(T), NEW t \in Seq(T), NEW V, NEW a \in Seq(V), NEW b \in Seq(V),
         NEW m, NEW n, Spells(s, a, m), Spells(t, b, n)
  PROVE  Spells(s \o t, a \o b, m \o n)
<1> DEFINE Rs == UNION {{Stands(s, a, k) : k \in 1 .. Len(s)}, {Stands(t, b, k) : k \in 1 .. Len(t)}}
<1> PICK st : st = s \o t
  OBVIOUS
<1> PICK ab : ab = a \o b
  OBVIOUS
<1>1. /\ st \in Seq(T) /\ Len(st) = Len(s) + Len(t) /\ Len(s) \in Nat /\ Len(t) \in Nat
      /\ \A k \in 1 .. Len(s) : st[k] = s[k]
      /\ \A k \in 1 .. Len(t) : st[Len(s) + k] = t[k]
  BY Concats
<1>2. /\ Len(ab) = Len(a) + Len(b) /\ Len(a) \in Nat /\ Len(b) \in Nat
      /\ \A k \in 1 .. Len(a) : ab[k] = a[k]
      /\ \A k \in 1 .. Len(b) : ab[Len(a) + k] = b[k]
  BY Concats
<1>3. /\ MarksUpTo(s, Len(s)) = Len(a) /\ MarksUpTo(t, Len(t)) = Len(b)
      /\ m = [k \in 1 .. Len(s) |-> Stands(s, a, k)]
      /\ n = [k \in 1 .. Len(t) |-> Stands(t, b, k)]
  BY SpelledIs DEF Spells
<1>4. m \in Seq(Rs) /\ n \in Seq(Rs) /\ Len(m) = Len(s) /\ Len(n) = Len(t)
  <2>1. /\ \A k \in 1 .. Len(s) : Stands(s, a, k) \in Rs
        /\ \A k \in 1 .. Len(t) : Stands(t, b, k) \in Rs
    OBVIOUS
  <2> HIDE DEF Rs
  <2> QED BY <1>1, <1>3, <2>1
<1> HIDE DEF Rs
<1> PICK mn : mn = m \o n
  OBVIOUS
<1>5. /\ mn \in Seq(Rs) /\ Len(mn) = Len(st)
      /\ \A k \in 1 .. Len(s) : mn[k] = Stands(s, a, k)
      /\ \A k \in 1 .. Len(t) : mn[Len(s) + k] = Stands(t, b, k)
  BY <1>1, <1>3, <1>4, Concats
<1>6. /\ \A k \in 0 .. Len(s) : MarksUpTo(st, k) = MarksUpTo(s, k)
      /\ \A k \in 0 .. Len(t) : MarksUpTo(st, Len(s) + k) = Len(a) + MarksUpTo(t, k)
  BY <1>3, MarksConcat
<1>7. ASSUME NEW k \in 1 .. Len(s) PROVE Stands(st, ab, k) = Stands(s, a, k)
  <2>1. k \in 0 .. Len(s) /\ st[k] = s[k] /\ MarksUpTo(st, k) = MarksUpTo(s, k)
    BY <1>1, <1>6
  <2>2. MarksUpTo(s, k) \in Nat /\ MarksUpTo(s, k) <= Len(a)
    BY <1>1, <1>3, <2>1, MarksMonotone, MarksGrow
  <2>3. s[k] = "?" => MarksUpTo(s, k) # 0
    <3>1. k \in Nat \ {0}
      BY <1>1
    <3> QED BY <3>1, MarkCounts
  <2> PICK c : c = MarksUpTo(s, k)
    OBVIOUS
  <2>4. s[k] = "?" => ab[c] = a[c] /\ c <= Len(a) /\ c <= Len(ab)
    BY <1>2, <2>2, <2>3
  <2> QED BY <2>1, <2>4 DEF Stands
<1>8. ASSUME NEW k \in 1 .. Len(t) PROVE Stands(st, ab, Len(s) + k) = Stands(t, b, k)
  <2>1. st[Len(s) + k] = t[k] /\ MarksUpTo(st, Len(s) + k) = Len(a) + MarksUpTo(t, k)
    BY <1>1, <1>6
  <2>2. MarksUpTo(t, k) \in Nat /\ MarksUpTo(t, k) <= Len(b)
    BY <1>1, <1>3, MarksMonotone, MarksGrow
  <2>3. t[k] = "?" => MarksUpTo(t, k) # 0
    <3>1. k \in Nat \ {0}
      BY <1>1
    <3> QED BY <3>1, MarkCounts
  <2> PICK c : c = MarksUpTo(t, k)
    OBVIOUS
  <2> PICK d : d = Len(a) + c
    OBVIOUS
  <2>4. t[k] = "?" => c \in 1 .. Len(b)
    BY <1>2, <2>2, <2>3
  <2>5. c \in 1 .. Len(b) => ab[d] = b[c] /\ c <= Len(b) /\ d <= Len(ab)
    BY <1>2
  <2> QED BY <2>1, <2>4, <2>5 DEF Stands
<1>9. Spelled(st, ab) = mn
  <2>1. ASSUME NEW k \in 1 .. Len(st) PROVE Stands(st, ab, k) = mn[k]
    <3>1. CASE k <= Len(s)
      BY <1>1, <1>5, <1>7, <3>1
    <3>2. CASE ~(k <= Len(s))
      <4> PICK j : j = k - Len(s)
        OBVIOUS
      <4>1. j \in 1 .. Len(t) /\ k = Len(s) + j
        BY <1>1, <3>2
      <4> QED BY <1>5, <1>8, <4>1
    <3> QED BY <3>1, <3>2
  <2>2. Spelled(st, ab) = [k \in 1 .. Len(st) |-> Stands(st, ab, k)]
    <3>1. st \in Seq(T)
      BY <1>1
    <3> QED BY <3>1, SpelledIs
  <2>3. mn = [k \in 1 .. Len(mn) |-> mn[k]]
    BY <1>5, SeqIs
  <2>4. Len(mn) = Len(st)
    BY <1>5
  <2> QED BY <2>1, <2>2, <2>3, <2>4
<1>10. MarksUpTo(st, Len(st)) = Len(ab)
  <2>1. Len(t) \in 0 .. Len(t)
    BY <1>1
  <2>2. MarksUpTo(st, Len(s) + Len(t)) = Len(a) + MarksUpTo(t, Len(t))
    BY <1>6, <2>1
  <2> QED BY <1>1, <1>2, <1>3, <2>2
<1> QED BY <1>9, <1>10 DEF Spells

LEMMA LenIs ==
  ASSUME NEW S, NEW s \in Seq(S)
  PROVE  Len(s) \in Nat /\ DOMAIN s = 1 .. Len(s) /\ \A k \in 1 .. Len(s) : s[k] \in S
OBVIOUS

LEMMA MakesSeq ==
  ASSUME NEW S, NEW n \in Nat, NEW f, f = [k \in 1 .. n |-> f[k]], \A k \in 1 .. n : f[k] \in S
  PROVE  f \in Seq(S) /\ Len(f) = n
<1>1. f \in [1 .. n -> S]
  OBVIOUS
<1> QED BY <1>1

LEMMA NoneIs == ASSUME NEW S PROVE <<>> \in Seq(S)
OBVIOUS

LEMMA Singles ==
  ASSUME NEW S, NEW x \in S PROVE <<x>> \in Seq(S) /\ Len(<<x>>) = 1 /\ <<x>>[1] = x
OBVIOUS

IsPair(x, y) == <<x>> \o <<y>> = <<x, y>>

LEMMA Pairs ==
  ASSUME NEW S, NEW x \in S, NEW y \in S
  PROVE  IsPair(x, y) /\ <<x, y>> \in Seq(S)
<1> PICK s : s = <<x>>
  OBVIOUS
<1> PICK t : t = <<y>>
  OBVIOUS
<1>1. s \in Seq(S) /\ t \in Seq(S) /\ Len(s) = 1 /\ Len(t) = 1 /\ s[1] = x /\ t[1] = y
  BY Singles
<1> PICK st : st = s \o t
  OBVIOUS
<1>2. st \in Seq(S) /\ Len(st) = 2 /\ st[1] = x /\ st[2] = y
  <2>1. /\ st \in Seq(S) /\ Len(st) = Len(s) + Len(t)
        /\ \A k \in 1 .. Len(s) : st[k] = s[k]
        /\ \A k \in 1 .. Len(t) : st[Len(s) + k] = t[k]
    BY <1>1, Concats
  <2>2. st[1] = s[1] /\ st[1 + 1] = t[1]
    BY <1>1, <2>1
  <2> QED BY <1>1, <2>1, <2>2
<1>3. st = <<x, y>>
  <2>1. st = [k \in 1 .. 2 |-> st[k]]
    BY <1>2, SeqIs
  <2>2. <<x, y>> = [k \in 1 .. 2 |-> IF k = 1 THEN x ELSE y]
    OBVIOUS
  <2>3. ASSUME NEW k \in 1 .. 2 PROVE st[k] = IF k = 1 THEN x ELSE y
    <3>1. k = 1 \/ k = 2
      OBVIOUS
    <3> QED BY <1>2, <3>1
  <2> QED BY <2>1, <2>2, <2>3
<1> QED BY <1>2, <1>3 DEF IsPair

LEMMA SpellsWord == ASSUME NEW x, x # "?" PROVE Spells(<<x>>, <<>>, <<[text |-> x]>>)
<1>1. MarksUpTo(<<x>>, 0) = 0 /\ MarksUpTo(<<x>>, 0 + 1) = 0
  BY MarksGrow, NoMarks
<1>2. Len(<<x>>) = 1 /\ <<x>>[1] = x /\ <<x>> \in Seq({x})
  OBVIOUS
<1> PICK s : s = <<x>>
  OBVIOUS
<1> PICK T : T = {x}
  OBVIOUS
<1>3. Spelled(s, <<>>) = [k \in 1 .. Len(s) |-> Stands(s, <<>>, k)]
  <2>1. s \in Seq(T)
    BY <1>2
  <2> QED BY <2>1, SpelledIs
<1>4. Stands(s, <<>>, 1) = [text |-> x]
  BY <1>2 DEF Stands
<1>5. Spelled(s, <<>>) = <<[text |-> x]>>
  BY <1>2, <1>3, <1>4
<1> QED BY <1>1, <1>2, <1>5 DEF Spells

LEMMA SpellsMark == ASSUME NEW v PROVE Spells(<<"?">>, <<v>>, <<[value |-> v]>>)
<1> PICK s : s = <<"?">>
  OBVIOUS
<1> PICK T : T = {"?"}
  OBVIOUS
<1>1. Len(s) = 1 /\ s[1] = "?" /\ s \in Seq({"?"}) /\ Len(<<v>>) = 1 /\ <<v>>[1] = v
  OBVIOUS
<1>2. MarksUpTo(s, 0) = 0 /\ MarksUpTo(s, 0 + 1) = 1
  BY <1>1, MarksGrow, NoMarks
<1>3. Spelled(s, <<v>>) = [k \in 1 .. Len(s) |-> Stands(s, <<v>>, k)]
  <2>1. s \in Seq(T)
    BY <1>1
  <2> QED BY <2>1, SpelledIs
<1>4. Stands(s, <<v>>, 1) = [value |-> v]
  BY <1>1, <1>2 DEF Stands
<1>5. Spelled(s, <<v>>) = <<[value |-> v]>>
  BY <1>1, <1>3, <1>4
<1> QED BY <1>1, <1>2, <1>5 DEF Spells

LEMMA SpellsNothing == Spells(<<>>, <<>>, <<>>)
<1>1. <<>> \in Seq({}) /\ Len(<<>>) = 0 /\ MarksUpTo(<<>>, 0) = 0
  BY NoMarks
<1>2. Spelled(<<>>, <<>>) = [k \in 1 .. 0 |-> Stands(<<>>, <<>>, k)]
  BY <1>1, SpelledIs
<1> QED BY <1>1, <1>2 DEF Spells

(* Many texts, each of which reads as it is meant.                         *)
LEMMA SpellsFlatten ==
  ASSUME NEW T, NEW ss \in Seq(Seq(T)), NEW V, NEW as \in Seq(Seq(V)), NEW R, NEW ms \in Seq(Seq(R)),
         Len(as) = Len(ss), Len(ms) = Len(ss),
         \A k \in 1 .. Len(ss) : Spells(ss[k], as[k], ms[k])
  PROVE  Spells(FlattenSeq(ss), FlattenSeq(as), FlattenSeq(ms))
<1> PICK c : c = Len(ss)
  OBVIOUS
<1>0. /\ c \in Nat /\ c = Len(as) /\ c = Len(ms)
      /\ \A k \in 1 .. c : ss[k] \in Seq(T) /\ as[k] \in Seq(V)
  <2>1. Len(ss) \in Nat /\ \A k \in 1 .. Len(ss) : ss[k] \in Seq(T)
    BY LenIs, Zenon
  <2>2. \A k \in 1 .. Len(as) : as[k] \in Seq(V)
    BY LenIs, Zenon
  <2> QED BY <2>1, <2>2
<1>1. PICK f : Runs(f, T, ss) /\ FlattenSeq(ss) = f[Len(ss)]
  BY FlattenRuns
<1>2. PICK g : Runs(g, V, as) /\ FlattenSeq(as) = g[Len(as)]
  BY FlattenRuns
<1>3. PICK h : Runs(h, R, ms) /\ FlattenSeq(ms) = h[Len(ms)]
  BY FlattenRuns
<1>7. ASSUME NEW k \in 1 .. Len(ss), Spells(f[k - 1], g[k - 1], h[k - 1])
      PROVE  Spells(f[k], g[k], h[k])
  <2>1. Adds(f, T, ss, k)
    BY <1>1, RunsStep, Zenon
  <2>2. Adds(g, V, as, k)
    BY <1>2, RunsStep, Zenon
  <2>3. Adds(h, R, ms, k)
    BY <1>3, RunsStep, Zenon
  <2>4. Spells(ss[k], as[k], ms[k])
    OBVIOUS
  <2>5. Spells(f[k - 1] \o ss[k], g[k - 1] \o as[k], h[k - 1] \o ms[k])
    BY <1>7, <2>1, <2>2, <2>4, SpellsConcat, Zenon DEF Adds
  <2> QED BY <2>1, <2>2, <2>3, <2>5, Zenon DEF Adds
<1> DEFINE Bad == {k \in 0 .. c : ~Spells(f[k], g[k], h[k])}
<1>4. Bad = {}
  <2> SUFFICES ASSUME Bad # {} PROVE FALSE
    OBVIOUS
  <2>1. PICK k \in Bad : \A j \in Bad : k <= j
    <3>1. Bad \in SUBSET Nat
      OBVIOUS
    <3> HIDE DEF Bad
    <3> QED BY <3>1, LeastNumber
  <2>2. k # 0
    <3>1. f[0] = <<>> /\ g[0] = <<>> /\ h[0] = <<>>
      BY <1>1, <1>2, <1>3 DEF Runs
    <3> QED BY <2>1, <3>1, SpellsNothing
  <2>3. k - 1 \in 0 .. c /\ k - 1 \notin Bad /\ k \in 1 .. c
    BY <2>1, <2>2
  <2>4. Spells(f[k - 1], g[k - 1], h[k - 1])
    BY <2>3
  <2>5. k \in 1 .. Len(ss) /\ Spells(ss[k], as[k], ms[k])
    BY <2>3
  <2>6. Spells(f[k], g[k], h[k])
    BY <1>7, <2>4, <2>5
  <2> QED BY <2>1, <2>6
<1>5. c \in 0 .. c
  OBVIOUS
<1>6. Spells(f[c], g[c], h[c])
  BY <1>4, <1>5
<1> QED BY <1>0, <1>1, <1>2, <1>3, <1>6

(* R has what there is to read: the comma, and the values in V.             *)
ReadableIn(R, V) == [text |-> ","] \in R /\ \A v \in V : [value |-> v] \in R

Reads(s, a, m, T, R) == s \in Seq(T) /\ m \in Seq(R) /\ Spells(s, a, m)

(* The marks that stand for the elements of a list, with commas between.   *)
LEMMA SpellsList ==
  ASSUME NEW V, NEW a \in Seq(V), NEW T, "?" \in T, "," \in T,
         NEW R, ReadableIn(R, V)
  PROVE  Reads(Joined(Len(a), <<"?">>), a, List(a), T, R)
<1> PICK c \in Nat : c = Len(a) /\ \A k \in 1 .. c : a[k] \in V
  BY LenIs, Zenon
<1> DEFINE texts == [k \in 1 .. c |-> IF k = 1 THEN <<"?">> ELSE <<",">> \o <<"?">>]
           singles == [k \in 1 .. c |-> <<a[k]>>]
           means == [k \in 1 .. c |-> IF k = 1 THEN <<[value |-> a[k]]>>
                                      ELSE <<[text |-> ","], [value |-> a[k]]>>]
<1>1. texts \in Seq(Seq(T)) /\ Len(texts) = c
  <2> PICK t : t = <<",">> \o <<"?">>
    OBVIOUS
  <2>1. <<"?">> \in Seq(T) /\ t \in Seq(T)
    <3>1. <<"?">> \in Seq(T) /\ <<",">> \in Seq(T)
      BY Singles
    <3> QED BY <3>1, Concats
  <2>2. texts = [k \in 1 .. c |-> IF k = 1 THEN <<"?">> ELSE t]
    OBVIOUS
  <2> HIDE DEF texts
  <2>3. ASSUME NEW k \in 1 .. c PROVE texts[k] \in Seq(T)
    BY <2>1, <2>2
  <2>4. texts = [k \in 1 .. c |-> texts[k]]
    BY <2>2
  <2> QED BY <2>3, <2>4, MakesSeq, Zenon
<1>2. singles \in Seq(Seq(V)) /\ Len(singles) = c
  <2>1. ASSUME NEW k \in 1 .. c PROVE singles[k] \in Seq(V)
    <3>1. singles[k] = <<a[k]>> /\ a[k] \in V
      OBVIOUS
    <3> QED BY <3>1, Singles
  <2>2. singles = [k \in 1 .. c |-> singles[k]]
    OBVIOUS
  <2> HIDE DEF singles
  <2> QED BY <2>1, <2>2, MakesSeq, Zenon
<1>3. means \in Seq(Seq(R)) /\ Len(means) = c
  <2>1. ASSUME NEW k \in 1 .. c PROVE means[k] \in Seq(R)
    <3> PICK x : x = [text |-> ","]
      OBVIOUS
    <3> PICK y : y = [value |-> a[k]]
      OBVIOUS
    <3>1. x \in R /\ y \in R
      BY DEF ReadableIn
    <3>2. means[k] = IF k = 1 THEN <<y>> ELSE <<x, y>>
      OBVIOUS
    <3> HIDE DEF means
    <3>3. <<y>> \in Seq(R) /\ <<x, y>> \in Seq(R)
      BY <3>1, Singles, Pairs
    <3> QED BY <3>2, <3>3
  <2>2. means = [k \in 1 .. c |-> means[k]]
    OBVIOUS
  <2> HIDE DEF means
  <2> QED BY <2>1, <2>2, MakesSeq, Zenon
<1>4. ASSUME NEW k \in 1 .. c PROVE Spells(texts[k], singles[k], means[k])
  <2>1. CASE k = 1
    <3>1. texts[k] = <<"?">> /\ singles[k] = <<a[k]>> /\ means[k] = <<[value |-> a[k]]>>
      BY <2>1
    <3> QED BY <3>1, SpellsMark
  <2>2. CASE k # 1
    <3>1. /\ texts[k] = <<",">> \o <<"?">> /\ singles[k] = <<a[k]>>
          /\ means[k] = <<[text |-> ","], [value |-> a[k]]>>
      BY <2>2
    <3>2. <<",">> \in Seq(T) /\ <<"?">> \in Seq(T) /\ <<>> \in Seq(V) /\ <<a[k]>> \in Seq(V)
      <4>1. <<",">> \in Seq(T) /\ <<"?">> \in Seq(T)
        BY Singles, Zenon
      <4>2. a[k] \in V
        OBVIOUS
      <4>3. <<a[k]>> \in Seq(V)
        BY <4>2, Singles, Zenon
      <4>4. <<>> \in Seq(V)
        BY NoneIs, Zenon
      <4> QED BY <4>1, <4>3, <4>4
    <3>3. Spells(<<",">>, <<>>, <<[text |-> ","]>>)
      BY SpellsWord
    <3>4. Spells(<<"?">>, <<a[k]>>, <<[value |-> a[k]]>>)
      BY SpellsMark
    <3>5. Spells(<<",">> \o <<"?">>, <<>> \o <<a[k]>>, <<[text |-> ","]>> \o <<[value |-> a[k]]>>)
      BY <3>2, <3>3, <3>4, SpellsConcat, Zenon
    <3>6. <<>> \o <<a[k]>> = <<a[k]>>
      BY <3>2, Concats
    <3>7. <<[text |-> ","]>> \o <<[value |-> a[k]]>> = <<[text |-> ","], [value |-> a[k]]>>
      <4> PICK x : x = [text |-> ","]
        OBVIOUS
      <4> PICK y : y = [value |-> a[k]]
        OBVIOUS
      <4>1. x \in {x, y} /\ y \in {x, y}
        OBVIOUS
      <4>2. IsPair(x, y)
        BY <4>1, Pairs, Zenon
      <4> QED BY <4>2 DEF IsPair
    <3> QED BY <3>1, <3>5, <3>6, <3>7
  <2> QED BY <2>1, <2>2
<1>5. FlattenSeq(singles) = a
  BY FlattenSingles
<1>6. Joined(Len(a), <<"?">>) = FlattenSeq(texts) /\ List(a) = FlattenSeq(means)
  BY DEF Joined, List, Flatten
<1> HIDE DEF texts, singles, means
<1>7. Spells(FlattenSeq(texts), FlattenSeq(singles), FlattenSeq(means))
  BY <1>1, <1>2, <1>3, <1>4, SpellsFlatten
<1>8. FlattenSeq(texts) \in Seq(T) /\ FlattenSeq(means) \in Seq(R)
  BY <1>1, <1>3, FlattenType
<1> QED BY <1>5, <1>6, <1>7, <1>8 DEF Reads

-----------------------------------------------------------------------------
(* The names of a query, and what they stand for. *)

(* What the names of s stand for, one after the other.                     *)
Gathered(s, g) == FlattenSeq([k \in 1 .. Len(s) |-> g[s[k]]])

Gathers(s, n, g) == Gathered(s \o <<n>>, g) = Gathered(s, g) \o g[n]

LEMMA GatherOne ==
  ASSUME NEW U, NEW V, NEW g \in [U -> Seq(V)], NEW s \in Seq(U), NEW n \in U
  PROVE  Gathers(s, n, g)
<1> PICK m \in Nat : m = Len(s) /\ \A k \in 1 .. m : s[k] \in U
  OBVIOUS
<1> PICK t : t = <<n>>
  OBVIOUS
<1> PICK st : st = s \o t
  OBVIOUS
<1>1. /\ t \in Seq(U) /\ Len(t) = 1 /\ t[1] = n
      /\ Len(st) = m + 1 /\ (\A k \in 1 .. m : st[k] = s[k]) /\ st[m + 1] = n
  <2>1. t \in Seq(U) /\ Len(t) = 1 /\ t[1] = n
    BY Singles
  <2>2. /\ Len(st) = Len(s) + Len(t)
        /\ \A k \in 1 .. Len(s) : st[k] = s[k]
        /\ \A k \in 1 .. Len(t) : st[Len(s) + k] = t[k]
    BY <2>1, Concats
  <2>3. st[m + 1] = t[1]
    BY <2>1, <2>2
  <2> QED BY <2>1, <2>2, <2>3
<1> DEFINE parts == [k \in 1 .. Len(s) |-> g[s[k]]]
           longer == [k \in 1 .. Len(st) |-> g[st[k]]]
<1>2. parts \in Seq(Seq(V)) /\ g[n] \in Seq(V) /\ Len(parts) = m
  OBVIOUS
<1>3. longer = Append(parts, g[n])
  <2>1. Append(parts, g[n]) = [k \in 1 .. m + 1 |-> IF k = m + 1 THEN g[n] ELSE parts[k]]
    <3> HIDE DEF parts
    <3> QED BY <1>2
  <2> QED BY <1>1, <2>1
<1> HIDE DEF parts, longer
<1>4. FlattenSeq(longer) = FlattenSeq(parts) \o g[n]
  BY <1>2, <1>3, FlattenAppend
<1> QED BY <1>4 DEF Gathers, Gathered, parts, longer

Used(q) == {q[k] : k \in {j \in 1 .. Len(q) : IsName(q[j])}}

(* What the lexemes of q that are names stand for.                         *)
Standing(q, g) == FlattenSeq([k \in 1 .. Len(q) |-> IF IsName(q[k]) THEN g[q[k]] ELSE <<>>])

(* namesOf finds the names of the query, in their order.                   *)
LEMMA NamesFound ==
  ASSUME NEW T, NEW q \in Seq(T), NEW V, NEW g \in [Used(q) -> Seq(V)]
  PROVE  /\ NamesOf(q) \in Seq(Used(q)) /\ ToSet(NamesOf(q)) = Used(q)
         /\ Gathered(NamesOf(q), g) = Standing(q, g)
<1> PICK m \in Nat : m = Len(q) /\ \A k \in 1 .. m : q[k] \in T
  OBVIOUS
<1> PICK U : U = Used(q)
  OBVIOUS
<1> DEFINE parts == [k \in 1 .. m |-> IF IsName(q[k]) THEN <<q[k]>> ELSE <<>>]
           values == [k \in 1 .. m |-> IF IsName(q[k]) THEN g[q[k]] ELSE <<>>]
           Upto(k) == {q[j] : j \in {i \in 1 .. k : IsName(q[i])}}
<1>0. ASSUME NEW k \in 1 .. m, IsName(q[k]) PROVE q[k] \in U
  BY <1>0 DEF Used
<1>1. parts \in Seq(Seq(U)) /\ Len(parts) = m
  <2>1. ASSUME NEW k \in 1 .. m PROVE parts[k] \in Seq(U)
    <3>1. IsName(q[k]) => <<q[k]>> \in Seq(U)
      BY <1>0, Singles
    <3>2. <<>> \in Seq(U)
      OBVIOUS
    <3> QED BY <3>1, <3>2
  <2>2. parts = [k \in 1 .. m |-> parts[k]]
    OBVIOUS
  <2> HIDE DEF parts
  <2> QED BY <2>1, <2>2, MakesSeq, Zenon
<1>2. values \in Seq(Seq(V)) /\ Len(values) = m
  <2>1. ASSUME NEW k \in 1 .. m PROVE values[k] \in Seq(V)
    BY <1>0
  <2>2. values = [k \in 1 .. m |-> values[k]]
    OBVIOUS
  <2> HIDE DEF values
  <2> QED BY <2>1, <2>2, MakesSeq, Zenon
<1>3. \A k \in 1 .. m : /\ parts[k] = IF IsName(q[k]) THEN <<q[k]>> ELSE <<>>
                        /\ values[k] = IF IsName(q[k]) THEN g[q[k]] ELSE <<>>
  OBVIOUS
<1>4. NamesOf(q) = FlattenSeq(parts) /\ Standing(q, g) = FlattenSeq(values)
  BY DEF NamesOf, Standing, Flatten
<1> HIDE DEF parts, values
<1>5. PICK f : Runs(f, U, parts) /\ FlattenSeq(parts) = f[Len(parts)]
  BY <1>1, FlattenRuns
<1>6. PICK h : Runs(h, V, values) /\ FlattenSeq(values) = h[Len(values)]
  BY <1>2, FlattenRuns
<1> DEFINE So(k) == ToSet(f[k]) = Upto(k) /\ Gathered(f[k], g) = h[k]
<1>7. So(0)
  <2>1. f[0] = <<>> /\ h[0] = <<>>
    BY <1>5, <1>6 DEF Runs
  <2>2. Upto(0) = {} /\ ToSet(<<>>) = {}
    BY DEF ToSet
  <2>3. Gathered(<<>>, g) = <<>>
    <3>1. [k \in 1 .. Len(<<>>) |-> g[<<>>[k]]] = <<>>
      OBVIOUS
    <3> QED BY <3>1, FlattenEmpty DEF Gathered
  <2> QED BY <2>1, <2>2, <2>3
<1>8. ASSUME NEW k \in 1 .. m, So(k - 1) PROVE So(k)
  <2>0. k \in 1 .. Len(parts) /\ k \in 1 .. Len(values)
    BY <1>1, <1>2
  <2>1. Adds(f, U, parts, k)
    BY <1>1, <1>5, <2>0, RunsStep, Zenon
  <2>2. Adds(h, V, values, k)
    BY <1>2, <1>6, <2>0, RunsStep, Zenon
  <2> PICK s : s = f[k - 1]
    OBVIOUS
  <2>3. s \in Seq(U) /\ ToSet(s) = Upto(k - 1) /\ Gathered(s, g) = h[k - 1] /\ h[k - 1] \in Seq(V)
        /\ f[k] = s \o parts[k] /\ h[k] = h[k - 1] \o values[k]
    BY <1>8, <2>1, <2>2 DEF Adds
  <2>4. CASE IsName(q[k])
    <3>1. q[k] \in U /\ f[k] = s \o <<q[k]>> /\ h[k] = h[k - 1] \o g[q[k]]
      BY <1>0, <1>3, <2>3, <2>4
    <3>2. Gathers(s, q[k], g)
      BY <2>3, <3>1, GatherOne
    <3>3. ToSet(s \o <<q[k]>>) = ToSet(s) \cup {q[k]}
      <4> PICK t : t = <<q[k]>>
        OBVIOUS
      <4> PICK n \in Nat : n = Len(s)
        BY <2>3
      <4> PICK st : st = s \o t
        OBVIOUS
      <4>1. t \in Seq(U) /\ Len(t) = 1 /\ t[1] = q[k]
        BY <3>1, Singles
      <4>2. /\ Len(st) = n + 1 /\ DOMAIN st = 1 .. n + 1 /\ DOMAIN s = 1 .. n
            /\ (\A j \in 1 .. n : st[j] = s[j]) /\ st[n + 1] = q[k]
        <5>1. /\ st \in Seq(U) /\ Len(st) = Len(s) + Len(t)
              /\ \A j \in 1 .. Len(s) : st[j] = s[j]
              /\ \A j \in 1 .. Len(t) : st[Len(s) + j] = t[j]
          BY <2>3, <4>1, Concats
        <5>2. st[n + 1] = t[1]
          BY <4>1, <5>1
        <5> QED BY <2>3, <4>1, <5>1, <5>2
      <4>3. ASSUME NEW x \in ToSet(st) PROVE x \in ToSet(s) \cup {q[k]}
        <5>1. PICK j \in 1 .. n + 1 : x = st[j]
          BY <4>2 DEF ToSet
        <5>2. CASE j = n + 1
          BY <4>2, <5>1, <5>2
        <5>3. CASE j # n + 1
          <6>1. j \in 1 .. n
            BY <5>3
          <6>2. x = s[j] /\ j \in DOMAIN s
            BY <4>2, <5>1, <6>1
          <6> QED BY <6>2 DEF ToSet
        <5> QED BY <5>2, <5>3
      <4>4. ASSUME NEW x \in ToSet(s) PROVE x \in ToSet(st)
        <5>1. PICK j \in 1 .. n : x = s[j]
          BY <4>2 DEF ToSet
        <5>2. x = st[j] /\ j \in DOMAIN st
          BY <4>2, <5>1
        <5> QED BY <5>2 DEF ToSet
      <4>5. q[k] \in ToSet(st)
        <5>1. n + 1 \in DOMAIN st
          BY <4>2
        <5> QED BY <4>2, <5>1 DEF ToSet
      <4>6. ToSet(st) = ToSet(s) \cup {q[k]}
        BY <4>3, <4>4, <4>5
      <4> QED BY <4>6
    <3>4. Upto(k) = Upto(k - 1) \cup {q[k]}
      BY <2>4
    <3> QED BY <2>3, <3>1, <3>2, <3>3, <3>4 DEF Gathers
  <2>5. CASE ~IsName(q[k])
    <3>1. f[k] = s /\ h[k] = h[k - 1]
      BY <1>3, <2>3, <2>5, Concats
    <3>2. Upto(k) = Upto(k - 1)
      BY <2>5
    <3> QED BY <2>3, <3>1, <3>2
  <2> QED BY <2>4, <2>5
<1> HIDE DEF So
<1> DEFINE Bad == {k \in 0 .. m : ~So(k)}
<1>9. Bad = {}
  <2> SUFFICES ASSUME Bad # {} PROVE FALSE
    OBVIOUS
  <2>1. PICK k \in Bad : \A j \in Bad : k <= j
    <3>1. Bad \in SUBSET Nat
      OBVIOUS
    <3> HIDE DEF Bad
    <3> QED BY <3>1, LeastNumber
  <2>2. k # 0 /\ k \in 0 .. m /\ ~So(k)
    BY <1>7, <2>1
  <2>3. k - 1 \in 0 .. m /\ k - 1 \notin Bad /\ k \in 1 .. m
    BY <2>1, <2>2
  <2>4. So(k - 1)
    BY <2>3
  <2>5. So(k)
    BY <1>8, <2>3, <2>4
  <2> QED BY <2>2, <2>5
<1>10. m \in 0 .. m /\ f[m] \in Seq(U)
  <2>1. m \in 0 .. Len(parts)
    BY <1>1
  <2> QED BY <1>5, <2>1 DEF Runs
<1>11. ToSet(f[m]) = Upto(m) /\ Gathered(f[m], g) = h[m]
  BY <1>9, <1>10 DEF So
<1> QED BY <1>1, <1>2, <1>4, <1>5, <1>6, <1>10, <1>11 DEF Used

(* The names of a query, without what they stand for.                      *)
LEMMA NamesAre ==
  ASSUME NEW T, NEW q \in Seq(T)
  PROVE  NamesOf(q) \in Seq(Used(q)) /\ ToSet(NamesOf(q)) = Used(q)
<1>1. [n \in Used(q) |-> <<>>] \in [Used(q) -> Seq({})]
  OBVIOUS
<1> QED BY <1>1, NamesFound

(* The query as it is meant when each name stands for a list of values.    *)
MeantBy(q, g) ==
  Flatten(Len(q), LAMBDA k : IF IsName(q[k]) THEN List(g[q[k]]) ELSE <<[text |-> q[k]]>>)

HasTexts(R, T) == \A x \in T : [text |-> x] \in R
Counts(count, g) == \A n \in DOMAIN g : count[n] = Len(g[n])

LEMMA WordReads ==
  ASSUME NEW L, NEW R, NEW x \in L, x # "?", [text |-> x] \in R
  PROVE  Reads(<<x>>, <<>>, <<[text |-> x]>>, L, R)
<1> PICK y : y = [text |-> x]
  OBVIOUS
<1>1. y \in R
  OBVIOUS
<1>2. <<x>> \in Seq(L)
  BY Singles, Zenon
<1>3. <<y>> \in Seq(R)
  BY <1>1, Singles, Zenon
<1>4. Spells(<<x>>, <<>>, <<[text |-> x]>>)
  BY SpellsWord, Zenon
<1> QED BY <1>2, <1>3, <1>4, Zenon DEF Reads

(* With as many marks in place of a name as it has values, and the values  *)
(* in the order of the names, the query reads as it is meant.              *)
LEMMA RewrittenReads ==
  ASSUME NEW T, NEW q \in Seq(T), ~Contains(q, "?"),
         NEW L, T \subseteq L, "?" \in L, "," \in L,
         NEW V, NEW g \in [Used(q) -> Seq(V)], NEW count, Counts(count, g),
         NEW R, ReadableIn(R, V), HasTexts(R, T)
  PROVE  Reads(Rewritten(q, count), Gathered(NamesOf(q), g), MeantBy(q, g), L, R)
<1> PICK m \in Nat : m = Len(q) /\ (\A k \in 1 .. m : q[k] \in T) /\ DOMAIN q = 1 .. m
  BY LenIs, Zenon
<1> DEFINE texts == [k \in 1 .. m |-> IF IsName(q[k]) THEN Joined(count[q[k]], <<"?">>) ELSE <<q[k]>>]
           values == [k \in 1 .. m |-> IF IsName(q[k]) THEN g[q[k]] ELSE <<>>]
           means == [k \in 1 .. m |-> IF IsName(q[k]) THEN List(g[q[k]]) ELSE <<[text |-> q[k]]>>]
<1>1. ASSUME NEW k \in 1 .. m
      PROVE  Reads(texts[k], values[k], means[k], L, R) /\ values[k] \in Seq(V)
  <2>1. CASE IsName(q[k])
    <3>1. q[k] \in Used(q)
      BY <2>1 DEF Used
    <3> PICK a \in Seq(V) : a = g[q[k]]
      BY <3>1, Zenon
    <3>2. count[q[k]] = Len(a)
      BY <3>1 DEF Counts
    <3>3. Reads(Joined(Len(a), <<"?">>), a, List(a), L, R)
      BY SpellsList, Zenon
    <3>4. texts[k] = Joined(Len(a), <<"?">>) /\ values[k] = a /\ means[k] = List(a)
      BY <2>1, <3>2
    <3> QED BY <3>3, <3>4, Zenon
  <2>2. CASE ~IsName(q[k])
    <3> PICK x : x = q[k]
      OBVIOUS
    <3>1. x \in T /\ x # "?"
      BY DEF Contains
    <3>2. x \in L /\ [text |-> x] \in R
      BY <3>1 DEF HasTexts
    <3>3. Reads(<<x>>, <<>>, <<[text |-> x]>>, L, R)
      BY <3>1, <3>2, WordReads, Zenon
    <3>4. texts[k] = <<x>> /\ values[k] = <<>> /\ means[k] = <<[text |-> x]>>
      BY <2>2
    <3>5. <<>> \in Seq(V)
      BY NoneIs, Zenon
    <3> QED BY <3>3, <3>4, <3>5, Zenon
  <2> QED BY <2>1, <2>2
<1>2. /\ texts = [k \in 1 .. m |-> texts[k]] /\ values = [k \in 1 .. m |-> values[k]]
      /\ means = [k \in 1 .. m |-> means[k]]
  OBVIOUS
<1>3. /\ Rewritten(q, count) = FlattenSeq(texts) /\ Standing(q, g) = FlattenSeq(values)
      /\ MeantBy(q, g) = FlattenSeq(means)
  BY DEF Rewritten, Standing, MeantBy, Flatten
<1> HIDE DEF texts, values, means
<1>4. texts \in Seq(Seq(L)) /\ Len(texts) = m
  <2>1. \A k \in 1 .. m : texts[k] \in Seq(L)
    BY <1>1 DEF Reads
  <2> QED BY <1>2, <2>1, MakesSeq, Zenon
<1>5. values \in Seq(Seq(V)) /\ Len(values) = m
  BY <1>1, <1>2, MakesSeq, Zenon
<1>6. means \in Seq(Seq(R)) /\ Len(means) = m
  <2>1. \A k \in 1 .. m : means[k] \in Seq(R)
    BY <1>1 DEF Reads
  <2> QED BY <1>2, <2>1, MakesSeq, Zenon
<1>7. Spells(FlattenSeq(texts), FlattenSeq(values), FlattenSeq(means))
  <2>1. \A k \in 1 .. m : Spells(texts[k], values[k], means[k])
    BY <1>1 DEF Reads
  <2> QED BY <1>4, <1>5, <1>6, <2>1, SpellsFlatten
<1>8. FlattenSeq(texts) \in Seq(L)
  BY <1>4, FlattenType, Zenon
<1>9. FlattenSeq(means) \in Seq(R)
  BY <1>6, FlattenType, Zenon
<1>10. Gathered(NamesOf(q), g) = Standing(q, g)
  BY NamesFound, Zenon
<1> QED BY <1>3, <1>7, <1>8, <1>9, <1>10, Zenon DEF Reads

-----------------------------------------------------------------------------
(* What is bound. *)

LEMMA IsSeqOf ==
  ASSUME NEW n \in Nat, NEW s, s = [k \in 1 .. n |-> s[k]], NEW V, ToSet(s) \subseteq V
  PROVE  s \in Seq(V)
<1>1. DOMAIN s = 1 .. n
  <2>1. DOMAIN [k \in 1 .. n |-> s[k]] = 1 .. n
    OBVIOUS
  <2> QED BY <2>1, Zenon
<1>2. \A k \in 1 .. n : s[k] \in V
  BY <1>1 DEF ToSet
<1> QED BY <1>2, MakesSeq, Zenon

LEMMA ExpandedType ==
  ASSUME NEW v, IsSequence(v.items), NEW V, ToSet(Expanded(v)) \subseteq V
  PROVE  Expanded(v) \in Seq(V)
<1> PICK n \in Nat : n = Len(v.items) /\ DOMAIN v.items = 1 .. n
  BY DEF IsSequence
<1> PICK s : s = Expanded(v)
  OBVIOUS
<1>1. s = [k \in 1 .. n |-> Normal(v.items[k])]
  BY Zenon DEF Expanded
<1>2. s = [k \in 1 .. n |-> s[k]]
  BY <1>1
<1>3. s \in Seq(V)
  BY <1>2, IsSeqOf, Zenon
<1> QED BY <1>3

LEMMA FieldArgsType ==
  ASSUME NEW f, NEW expand, IsSequence(f.value.items), NEW V, ToSet(FieldArgs(f, expand)) \subseteq V
  PROVE  FieldArgs(f, expand) \in Seq(V)
<1>1. ASSUME NEW x, FieldArgs(f, expand) = <<x>> PROVE FieldArgs(f, expand) \in Seq(V)
  <2> PICK s : s = <<x>>
    OBVIOUS
  <2>1. s = [k \in 1 .. 1 |-> s[k]]
    OBVIOUS
  <2>2. ToSet(s) \subseteq V
    BY <1>1
  <2>3. s \in Seq(V)
    BY <2>1, <2>2, IsSeqOf, 1 \in Nat, Zenon
  <2> QED BY <1>1, <2>3
<1>2. CASE BindsNull(f) \/ ~IsList(f, expand)
  BY <1>1, <1>2 DEF FieldArgs
<1>3. CASE ~BindsNull(f) /\ IsList(f, expand)
  BY <1>3, ExpandedType, Zenon DEF FieldArgs
<1> QED BY <1>2, <1>3

(* A name stands for the arguments of its field.                           *)
LEMMA MeaningIs == ASSUME NEW f, NEW expand PROVE Meaning(f, expand) = List(FieldArgs(f, expand))
BY DEF Meaning, FieldArgs, BindsNull, IsList

(* All there is to read in a text over T with values in V.                 *)
Readable(T, V) == {[text |-> x] : x \in T \cup {","}} \cup {[value |-> v] : v \in V}

LEMMA ReadableAll ==
  ASSUME NEW T, NEW V PROVE ReadableIn(Readable(T, V), V) /\ HasTexts(Readable(T, V), T)
BY DEF ReadableIn, HasTexts, Readable

(* With one name, all the arguments are what it stands for.                *)
LEMMA BindOneMeans ==
  ASSUME NEW T, NEW q \in Seq(T), ~Contains(q, "?"),
         NEW V, NEW args \in Seq(V), NEW key, BindOne(q, args, key).ok,
         NEW fields, NEW expand, \A n \in Names : Meaning(fields[n], expand) = List(args)
  PROVE  LET bound == BindOne(q, args, key)
         IN  Spells(bound.sql, bound.args, Meant(q, fields, expand))
<1> DEFINE g == [n \in Used(q) |-> args]
           count == [n \in Names |-> Len(args)]
           L == T \cup {"?", ","}
           R == Readable(T, V)
<1>0. Used(q) \subseteq Names
  BY DEF Used, IsName
<1>1. g \in [Used(q) -> Seq(V)] /\ Counts(count, g)
  BY <1>0 DEF Counts
<1>2. MeantBy(q, g) = Meant(q, fields, expand)
  <2>1. ASSUME NEW k \in 1 .. Len(q), IsName(q[k])
        PROVE  List(g[q[k]]) = Meaning(fields[q[k]], expand)
    BY <2>1 DEF Used, IsName
  <2>2. [k \in 1 .. Len(q) |-> IF IsName(q[k]) THEN List(g[q[k]]) ELSE <<[text |-> q[k]]>>]
          = [k \in 1 .. Len(q) |-> IF IsName(q[k]) THEN Meaning(fields[q[k]], expand)
                                   ELSE <<[text |-> q[k]]>>]
    <3> HIDE DEF g
    <3> QED BY <2>1
  <2> QED BY <2>2, Zenon DEF MeantBy, Meant, Flatten
<1>3. Gathered(NamesOf(q), g) = args
  <2>1. NamesOf(q) \in Seq(Used(q))
    BY <1>1, NamesFound, Zenon
  <2>2. Len(NamesOf(q)) = 1
    BY DEF BindOne, Failed
  <2> PICK n : n = NamesOf(q)[1]
    OBVIOUS
  <2>3. n \in Used(q)
    <3>1. 1 \in 1 .. Len(NamesOf(q))
      BY <2>2
    <3> QED BY <2>1, <3>1, LenIs, Zenon
  <2>4. [k \in 1 .. Len(NamesOf(q)) |-> g[NamesOf(q)[k]]] = Append(<<>>, args)
    <3>1. \A k \in 1 .. 1 : g[NamesOf(q)[k]] = args
      BY <2>3
    <3>2. [k \in 1 .. 1 |-> g[NamesOf(q)[k]]] = [k \in 1 .. 1 |-> args]
      BY <3>1, Zenon
    <3>3. Append(<<>>, args) = [k \in 1 .. 1 |-> args]
      <4> PICK x : x = args
        OBVIOUS
      <4> QED OBVIOUS
    <3> QED BY <2>2, <3>2, <3>3
  <2>5. <<>> \in Seq(Seq(V))
    BY NoneIs, Zenon
  <2>6. FlattenSeq(Append(<<>>, args)) = FlattenSeq(<<>>) \o args
    BY <2>5, FlattenAppend
  <2>7. FlattenSeq(Append(<<>>, args)) = args
    BY <2>6, FlattenEmpty, Concats
  <2> QED BY <2>4, <2>7 DEF Gathered
<1>4. BindOne(q, args, key) = Bound(Rewritten(q, count), args, <<key>>)
  BY DEF BindOne, Failed
<1>5. T \subseteq L /\ "?" \in L /\ "," \in L
  OBVIOUS
<1>6. ReadableIn(R, V) /\ HasTexts(R, T)
  BY ReadableAll, Zenon
<1> HIDE DEF g, count, L, R
<1>7. Reads(Rewritten(q, count), Gathered(NamesOf(q), g), MeantBy(q, g), L, R)
  BY <1>1, <1>5, <1>6, RewrittenReads, Zenon
<1> QED BY <1>2, <1>3, <1>4, <1>7 DEF Reads, Bound

(* The values of the fields, and of the fields a text over T has.          *)
ValuesOf(q, fields, expand) == UNION {ToSet(FieldArgs(fields[n], expand)) : n \in Used(q)}
FieldValues(q, fields, expand) == [n \in Used(q) |-> FieldArgs(fields[n], expand)]

AreFields(q, fields) == \A n \in Used(q) : IsSequence(fields[n].value.items)

LEMMA FieldValuesType ==
  ASSUME NEW q, NEW fields, NEW expand, AreFields(q, fields),
         NEW V, ValuesOf(q, fields, expand) \subseteq V
  PROVE  FieldValues(q, fields, expand) \in [Used(q) -> Seq(V)]
<1>1. ASSUME NEW n \in Used(q) PROVE FieldArgs(fields[n], expand) \in Seq(V)
  <2>1. IsSequence(fields[n].value.items)
    BY DEF AreFields
  <2>2. ToSet(FieldArgs(fields[n], expand)) \subseteq V
    BY DEF ValuesOf
  <2> QED BY <2>1, <2>2, FieldArgsType, Zenon
<1> QED BY <1>1 DEF FieldValues

(* What the names of q stand for, by their fields.                         *)
LEMMA FieldsMeant ==
  ASSUME NEW q, NEW fields, NEW expand
  PROVE  MeantBy(q, FieldValues(q, fields, expand)) = Meant(q, fields, expand)
<1> PICK g : g = FieldValues(q, fields, expand)
  OBVIOUS
<1>1. ASSUME NEW k \in 1 .. Len(q), IsName(q[k])
      PROVE  List(g[q[k]]) = Meaning(fields[q[k]], expand)
  <2>1. q[k] \in Used(q)
    BY <1>1 DEF Used
  <2>2. g[q[k]] = FieldArgs(fields[q[k]], expand)
    BY <2>1 DEF FieldValues
  <2> QED BY <2>2, MeaningIs
<1>2. [k \in 1 .. Len(q) |-> IF IsName(q[k]) THEN List(g[q[k]]) ELSE <<[text |-> q[k]]>>]
        = [k \in 1 .. Len(q) |-> IF IsName(q[k]) THEN Meaning(fields[q[k]], expand)
                                 ELSE <<[text |-> q[k]]>>]
  BY <1>1
<1>3. MeantBy(q, g) = Meant(q, fields, expand)
  BY <1>2, Zenon DEF MeantBy, Meant, Flatten
<1> QED BY <1>3

(* Each name takes as many marks as its field gives arguments.             *)
FieldMarks(q, fields, expand, count) ==
  \A n \in Used(q) : count[n] = Len(FieldArgs(fields[n], expand))
FieldsSent(q, fields, expand) ==
  LET named == NamesOf(q) IN FlattenSeq([k \in 1 .. Len(named) |-> FieldArgs(fields[named[k]], expand)])

LEMMA FieldsRead ==
  ASSUME NEW T, NEW q \in Seq(T), ~Contains(q, "?"), NEW L, T \subseteq L, "?" \in L, "," \in L,
         NEW fields, AreFields(q, fields), NEW expand,
         NEW V, ValuesOf(q, fields, expand) \subseteq V,
         NEW count, FieldMarks(q, fields, expand, count)
  PROVE  Reads(Rewritten(q, count), FieldsSent(q, fields, expand), Meant(q, fields, expand),
               L, Readable(T, V))
<1> DEFINE g == FieldValues(q, fields, expand)
           R == Readable(T, V)
<1>1. g \in [Used(q) -> Seq(V)]
  BY FieldValuesType
<1>2. Counts(count, g)
  BY <1>1 DEF Counts, FieldValues, FieldMarks
<1>3. Gathered(NamesOf(q), g) = FieldsSent(q, fields, expand)
  <2> PICK named : named = NamesOf(q)
    OBVIOUS
  <2>1. \A k \in 1 .. Len(named) : named[k] \in Used(q)
    <3>1. named \in Seq(Used(q))
      BY NamesAre, Zenon
    <3> QED BY <3>1, LenIs, Zenon
  <2>2. \A k \in 1 .. Len(named) : g[named[k]] = FieldArgs(fields[named[k]], expand)
    BY <2>1 DEF FieldValues
  <2>3. [k \in 1 .. Len(named) |-> g[named[k]]]
          = [k \in 1 .. Len(named) |-> FieldArgs(fields[named[k]], expand)]
    <3> HIDE DEF g
    <3> QED BY <2>2
  <2> QED BY <2>3, Zenon DEF Gathered, FieldsSent
<1>4. ReadableIn(R, V) /\ HasTexts(R, T)
  BY ReadableAll, Zenon
<1>5. MeantBy(q, g) = Meant(q, fields, expand)
  BY FieldsMeant
<1> HIDE DEF g, R
<1>6. Reads(Rewritten(q, count), Gathered(NamesOf(q), g), MeantBy(q, g), L, R)
  BY <1>1, <1>2, <1>4, RewrittenReads, Zenon
<1> QED BY <1>3, <1>5, <1>6 DEF R

LEMMA BindFieldsMeans ==
  ASSUME NEW T, NEW q \in Seq(T), ~Contains(q, "?"),
         NEW fields, AreFields(q, fields), NEW expand, BindFields(q, fields, expand).ok
  PROVE  LET bound == BindFields(q, fields, expand)
         IN  Spells(bound.sql, bound.args, Meant(q, fields, expand))
<1> DEFINE V == ValuesOf(q, fields, expand)
           L == T \cup {"?", ","}
           used == ToSet(NamesOf(q))
           count == [n \in used |-> Len(FieldArgs(fields[n], expand))]
<1>1. used = Used(q)
  BY NamesAre, Zenon
<1>2. FieldMarks(q, fields, expand, count)
  BY <1>1 DEF FieldMarks
<1>3. BindFields(q, fields, expand).sql = Rewritten(q, count)
      /\ BindFields(q, fields, expand).args = FieldsSent(q, fields, expand)
  BY DEF BindFields, Failed, Bound, Flatten, FieldsSent
<1>4. T \subseteq L /\ "?" \in L /\ "," \in L
  OBVIOUS
<1> HIDE DEF count, L
<1>5. Reads(Rewritten(q, count), FieldsSent(q, fields, expand), Meant(q, fields, expand),
            L, Readable(T, V))
  BY <1>2, <1>4, FieldsRead
<1> QED BY <1>3, <1>5 DEF Reads

-----------------------------------------------------------------------------
(* The calls that are made. *)

(* A call was made with an argument it can be called with, and gave what   *)
(* bindForExec returns for it.                                             *)
Faithful ==
  /\ statement \in Seq(Names \cup Words)
  /\ call.made => call.arg \in Args /\ call.out = BindForExec(statement, call.arg)

(* In each call, bindForExec has bound the argument to the query.          *)
LEMMA CallsAreFaithful == BindSpec => []Faithful
<1>1. BindInit => Faithful
  BY DEF BindInit, Faithful
<1>2. Faithful /\ [BindNext]_bindVars => Faithful'
  <2> SUFFICES ASSUME Faithful, [BindNext]_bindVars PROVE Faithful'
    OBVIOUS
  <2>1. ASSUME NEW lexeme \in Names \cup Words, Write(lexeme) PROVE Faithful'
    BY <2>1 DEF Faithful, Write
  <2>2. ASSUME NEW a \in Args, Call(a) PROVE Faithful'
    <3>1. statement' = statement
          /\ call' = [made |-> TRUE, arg |-> a, out |-> BindForExec(statement, a)]
      BY <2>2 DEF Call
    <3> QED BY <3>1 DEF Faithful
  <2>3. CASE UNCHANGED bindVars
    BY <2>3 DEF Faithful, bindVars
  <2> QED BY <2>1, <2>2, <2>3 DEF BindNext
<1> QED BY <1>1, <1>2, PTL DEF BindSpec

LEMMA ArgFacts ==
  ASSUME NEW a \in Args
  PROVE  /\ a.kind \in {"scalar", "valuer"} => a.value.kind \in {"scalar", "opaque"}
         /\ a.kind \in {"slice", "anys"} => a.value.kind = "slice"
         /\ IsSequence(a.objs) /\ (a.kind = "object" => Len(a.objs) = 1)
         /\ IsSequence(a.value.items)
         /\ \A o \in ToSet(a.objs) : \A n \in DOMAIN o : IsSequence(o[n].value.items)
<1>1. IsSequence(a.objs) /\ IsArg(a)
  BY BindAssumptions
<1> QED BY <1>1 DEF IsArg

(* The fields of an object that names of a query find.                     *)
LEMMA ObjectFields ==
  ASSUME NEW a \in Args, a.kind = "object", NEW q, Used(q) \subseteq DOMAIN a.objs[1]
  PROVE  AreFields(q, a.objs[1])
<1>1. a.objs[1] \in ToSet(a.objs)
  <2>1. DOMAIN a.objs = 1 .. 1
    BY ArgFacts DEF IsSequence
  <2> QED BY <2>1 DEF ToSet
<1>2. \A n \in DOMAIN a.objs[1] : IsSequence(a.objs[1][n].value.items)
  BY <1>1, ArgFacts, Zenon
<1> QED BY <1>2 DEF AreFields

(* bindNamed binds the argument as it is meant.                            *)
LEMMA NamedMeans ==
  ASSUME NEW T, NEW q \in Seq(T), ~Contains(q, "?"), HasNames(q),
         NEW a \in Args, BindNamed(q, a, Expand).ok
  PROVE  LET bound == BindNamed(q, a, Expand)
         IN  Spells(bound.sql, bound.args, Meant(q, FieldsOf(a), Expand))
<1>1. CASE a.kind \in {"scalar", "valuer"}
  <2> PICK args : args = <<a.value>>
    OBVIOUS
  <2>1. BindNamed(q, a, Expand) = BindOne(q, args, a.value)
    BY <1>1 DEF BindNamed
  <2>2. args \in Seq({a.value})
    BY Singles, Zenon
  <2>3. \A n \in Names : Meaning(FieldsOf(a)[n], Expand) = List(args)
    <3>1. ASSUME NEW n \in Names PROVE FieldsOf(a)[n] = Field(a.value, FALSE, FALSE)
      BY <1>1 DEF FieldsOf
    <3>2. a.value.kind \in {"scalar", "opaque"}
      BY <1>1, ArgFacts
    <3>3. Normal(a.value) = a.value
      BY <3>2 DEF Normal
    <3>4. FieldArgs(Field(a.value, FALSE, FALSE), Expand) = args
      BY <3>2, <3>3 DEF FieldArgs, BindsNull, IsList, Field
    <3> QED BY <3>1, <3>4, MeaningIs
  <2> PICK V : V = {a.value}
    OBVIOUS
  <2> QED BY <2>1, <2>2, <2>3, BindOneMeans
<1>2. CASE a.kind \in {"slice", "anys"}
  <2>1. Expand /\ Expands(a.value)
    BY <1>2 DEF BindNamed, Failed
  <2>2. BindNamed(q, a, Expand) = BindOne(q, Expanded(a.value), a.value)
    BY <1>2, <2>1 DEF BindNamed
  <2> PICK args : args = Expanded(a.value)
    OBVIOUS
  <2> PICK V : V = ToSet(args)
    OBVIOUS
  <2>3. args \in Seq(V)
    BY ArgFacts, ExpandedType
  <2>4. \A n \in Names : Meaning(FieldsOf(a)[n], Expand) = List(args)
    <3>1. ASSUME NEW n \in Names PROVE FieldsOf(a)[n] = Field(a.value, FALSE, FALSE)
      BY <1>2 DEF FieldsOf
    <3>2. a.value.kind = "slice"
      BY <1>2, ArgFacts
    <3>3. FieldArgs(Field(a.value, FALSE, FALSE), Expand) = args
      BY <2>1, <3>2 DEF FieldArgs, BindsNull, IsList, Field
    <3> QED BY <3>1, <3>3, MeaningIs
  <2> QED BY <2>2, <2>3, <2>4, BindOneMeans
<1>3. CASE a.kind = "object"
  <2>1. BindNamed(q, a, Expand) = BindFields(q, a.objs[1], Expand) /\ FieldsOf(a) = a.objs[1]
    BY <1>3 DEF BindNamed, FieldsOf
  <2>2. Used(q) \subseteq DOMAIN a.objs[1]
    <3>1. ToSet(NamesOf(q)) = Used(q)
      BY NamesAre
    <3> QED BY <2>1, <3>1 DEF BindFields, Failed
  <2>3. AreFields(q, a.objs[1])
    BY <1>3, <2>2, ObjectFields
  <2> QED BY <2>1, <2>3, BindFieldsMeans
<1> QED BY <1>1, <1>2, <1>3 DEF BindNamed, Failed

(* A call is bound as its author means (bindNamed, Rebind): every          *)
(* placeholder stands for the value of its own field, or of the call,      *)
(* wherever lists have moved the numbers of those after them.              *)
THEOREM CallsBindAsMeant == BindSpec => []BindsAsMeant
<1>1. Faithful => BindsAsMeant
  <2> SUFFICES ASSUME Faithful, call.made, Named, out.ok, call.arg.kind # "batch"
               PROVE  /\ Spelled(out.sql, out.args) = Meant(statement, FieldsOf(call.arg), Expand)
                      /\ MarksUpTo(out.sql, Len(out.sql)) = Len(out.args)
    BY DEF BindsAsMeant
  <2> PICK q : q = statement
    OBVIOUS
  <2> PICK a : a = call.arg
    OBVIOUS
  <2>1. q \in Seq(Names \cup Words) /\ ~Contains(q, "?") /\ HasNames(q) /\ a \in Args
    BY DEF Faithful, Named
  <2>2. out = BindNamed(q, a, Expand)
    BY <2>1 DEF Faithful, BindForExec, Failed, out
  <2> PICK T : T = Names \cup Words
    OBVIOUS
  <2>3. Spells(out.sql, out.args, Meant(q, FieldsOf(a), Expand))
    BY <2>1, <2>2, NamedMeans
  <2> QED BY <2>3 DEF Spells
<1> QED BY <1>1, CallsAreFaithful, PTL

-----------------------------------------------------------------------------
(* The arguments of the key. *)

(* What is sent for an argument of the key.                                *)
SentFor(key) == IF key.kind = "slice" THEN Expanded(key) ELSE <<key>>
Sent(bindArgs) == FlattenSeq([k \in 1 .. Len(bindArgs) |-> SentFor(bindArgs[k])])

LEMMA NormalIsNoSlice == ASSUME NEW v PROVE Normal(v).kind # "slice"
BY DEF Normal, Value

LEMMA KeyGivesArgs ==
  ASSUME NEW f, NEW expand PROVE FieldArgs(f, expand) = SentFor(FieldKey(f, expand))
<1>1. Null.kind # "slice" /\ Normal(f.value).kind # "slice"
  BY NormalIsNoSlice DEF Null, Value
<1>2. CASE BindsNull(f)
  BY <1>1, <1>2, Zenon DEF FieldArgs, FieldKey, SentFor
<1>3. CASE ~BindsNull(f) /\ IsList(f, expand)
  <2>1. f.value.kind = "slice"
    BY <1>3 DEF IsList
  <2> QED BY <1>3, <2>1, Zenon DEF FieldArgs, FieldKey, SentFor
<1>4. CASE ~BindsNull(f) /\ ~IsList(f, expand)
  BY <1>1, <1>4, Zenon DEF FieldArgs, FieldKey, SentFor
<1> QED BY <1>2, <1>3, <1>4

(* The arguments of a scalar or of a list that is expanded.                *)
LEMMA OneSends ==
  ASSUME NEW q, NEW V, NEW args \in Seq(V), NEW key, BindOne(q, args, key).ok, args = SentFor(key)
  PROVE  LET bound == BindOne(q, args, key) IN bound.args = Sent(bound.bindArgs)
<1>1. BindOne(q, args, key).args = args /\ BindOne(q, args, key).bindArgs = <<key>>
  BY DEF BindOne, Failed, Bound
<1>2. Sent(<<key>>) = args
  <2>1. [k \in 1 .. Len(<<key>>) |-> SentFor(<<key>>[k])] = Append(<<>>, args)
    <3>1. Len(<<key>>) = 1 /\ <<key>>[1] = key
      OBVIOUS
    <3>2. [k \in 1 .. 1 |-> SentFor(<<key>>[k])] = [k \in 1 .. 1 |-> args]
      BY <3>1
    <3>3. Append(<<>>, args) = [k \in 1 .. 1 |-> args]
      <4> PICK x : x = args
        OBVIOUS
      <4> QED OBVIOUS
    <3> QED BY <3>1, <3>2, <3>3
  <2>2. <<>> \in Seq(Seq(V))
    BY NoneIs, Zenon
  <2>3. FlattenSeq(Append(<<>>, args)) = FlattenSeq(<<>>) \o args
    BY <2>2, FlattenAppend
  <2>4. FlattenSeq(Append(<<>>, args)) = args
    BY <2>3, FlattenEmpty, Concats
  <2> QED BY <2>1, <2>4 DEF Sent
<1> QED BY <1>1, <1>2

LEMMA FieldsSend ==
  ASSUME NEW T, NEW q \in Seq(T), NEW fields, NEW expand, BindFields(q, fields, expand).ok
  PROVE  LET bound == BindFields(q, fields, expand) IN bound.args = Sent(bound.bindArgs)
<1> PICK named : named = NamesOf(q)
  OBVIOUS
<1> PICK m \in Nat : m = Len(named) /\ DOMAIN named = 1 .. m
  <2>1. named \in Seq(Used(q))
    BY NamesAre
  <2> QED BY <2>1, LenIs, Zenon
<1> PICK keys : keys = [k \in 1 .. m |-> FieldKey(fields[named[k]], expand)]
  OBVIOUS
<1>1. /\ BindFields(q, fields, expand).bindArgs = keys
      /\ BindFields(q, fields, expand).args
           = FlattenSeq([k \in 1 .. m |-> FieldArgs(fields[named[k]], expand)])
  BY DEF BindFields, Failed, Bound, Flatten
<1>2. Len(keys) = m /\ \A k \in 1 .. m : keys[k] = FieldKey(fields[named[k]], expand)
  OBVIOUS
<1>3. [k \in 1 .. m |-> FieldArgs(fields[named[k]], expand)] = [k \in 1 .. m |-> SentFor(keys[k])]
  <2>1. \A k \in 1 .. m : FieldArgs(fields[named[k]], expand) = SentFor(keys[k])
    BY <1>2, KeyGivesArgs
  <2> QED BY <2>1, Zenon
<1>4. Len(keys) = m
  BY <1>2
<1>5. Sent(keys) = FlattenSeq([k \in 1 .. m |-> SentFor(keys[k])])
  BY <1>4, Zenon DEF Sent
<1> QED BY <1>1, <1>3, <1>5, Zenon

(* Arguments none of which is a list are sent as they are.                 *)
LEMMA ScalarsSend ==
  ASSUME NEW V, \A v \in V : v.kind # "slice", NEW s \in Seq(V) PROVE Sent(s) = s
<1>1. \A k \in 1 .. Len(s) : s[k] \in V
  BY LenIs, Zenon
<1>2. \A k \in 1 .. Len(s) : SentFor(s[k]) = <<s[k]>>
  BY <1>1, Zenon DEF SentFor
<1>3. [k \in 1 .. Len(s) |-> SentFor(s[k])] = [k \in 1 .. Len(s) |-> <<s[k]>>]
  BY <1>2, Zenon
<1> QED BY <1>3, FlattenSingles, Zenon DEF Sent

LEMMA FlattenPartsType ==
  ASSUME NEW V, NEW n \in Nat, NEW parts, parts = [k \in 1 .. n |-> parts[k]],
         \A k \in 1 .. n : parts[k] \in Seq(V)
  PROVE  FlattenSeq(parts) \in Seq(V)
<1>1. parts \in Seq(Seq(V))
  BY MakesSeq, Zenon
<1> QED BY <1>1, FlattenType, Zenon

LEMMA BatchSends ==
  ASSUME NEW T, NEW q \in Seq(T), NEW objs, IsSequence(objs), BindNamedMany(q, objs).ok
  PROVE  LET bound == BindNamedMany(q, objs) IN bound.args = Sent(bound.bindArgs)
<1> PICK named \in Seq(Used(q)) : named = NamesOf(q) /\ ToSet(named) = Used(q)
  BY NamesAre, Zenon
<1> PICK n \in Nat : n = Len(objs)
  BY DEF IsSequence
<1> PICK m \in Nat : m = Len(named)
  BY LenIs, Zenon
<1> DEFINE V == {Null} \cup {Normal(objs[o][x].value) : o \in 1 .. n, x \in Used(q)}
           of(o) == [k \in 1 .. m |-> FieldArgs(objs[o][named[k]], FALSE)]
           parts == [o \in 1 .. n |-> FlattenSeq(of(o))]
           args == FlattenSeq(parts)
<1>1. \A v \in V : v.kind # "slice"
  BY NormalIsNoSlice DEF Null, Value
<1>2. ASSUME NEW o \in 1 .. n, NEW k \in 1 .. m
      PROVE  FieldArgs(objs[o][named[k]], FALSE) \in Seq(V)
  <2> PICK x \in Used(q) : x = named[k]
    BY LenIs, Zenon
  <2> PICK f : f = objs[o][x]
    OBVIOUS
  <2>1. Null \in V /\ Normal(f.value) \in V
    OBVIOUS
  <2>2. FieldArgs(f, FALSE) = IF BindsNull(f) THEN <<Null>> ELSE <<Normal(f.value)>>
    BY DEF FieldArgs, IsList
  <2> HIDE DEF V
  <2>3. <<Null>> \in Seq(V) /\ <<Normal(f.value)>> \in Seq(V)
    BY <2>1, Singles, Zenon
  <2> QED BY <2>2, <2>3
<1> HIDE DEF V
<1>3. args \in Seq(V)
  <2>1. ASSUME NEW o \in 1 .. n PROVE parts[o] \in Seq(V)
    <3> PICK one : one = of(o)
      OBVIOUS
    <3>1. one = [k \in 1 .. m |-> one[k]] /\ \A k \in 1 .. m : one[k] \in Seq(V)
      BY <1>2
    <3>2. FlattenSeq(one) \in Seq(V)
      BY <3>1, FlattenPartsType, Zenon
    <3> QED BY <3>2
  <2>2. parts = [o \in 1 .. n |-> parts[o]]
    OBVIOUS
  <2> HIDE DEF parts
  <2> QED BY <2>1, <2>2, FlattenPartsType, Zenon
<1>4. BindNamedMany(q, objs).args = args /\ BindNamedMany(q, objs).bindArgs = args
  BY DEF BindNamedMany, Failed, Bound, Flatten
<1> HIDE DEF args
<1>5. Sent(args) = args
  BY <1>1, <1>3, ScalarsSend, Zenon
<1> QED BY <1>4, <1>5

(* bindForExec sends what the arguments of the key give.                   *)
LEMMA ExecSends ==
  ASSUME NEW T, NEW q \in Seq(T), HasNames(q), NEW a \in Args, BindForExec(q, a).ok
  PROVE  LET bound == BindForExec(q, a) IN bound.args = Sent(bound.bindArgs)
<1>1. CASE a.kind = "batch"
  <2>1. BindForExec(q, a) = BindNamedMany(q, a.objs)
    BY <1>1 DEF BindForExec
  <2>2. IsSequence(a.objs)
    BY ArgFacts
  <2> QED BY <2>1, <2>2, BatchSends
<1>2. CASE a.kind \in {"scalar", "valuer"}
  <2> PICK args : args = <<a.value>>
    OBVIOUS
  <2> PICK V : V = {a.value}
    OBVIOUS
  <2>1. BindForExec(q, a) = BindOne(q, args, a.value)
    BY <1>2 DEF BindForExec, BindNamed, Failed
  <2>2. args = SentFor(a.value)
    BY <1>2, ArgFacts DEF SentFor
  <2>3. args \in Seq(V)
    <3>1. a.value \in V
      OBVIOUS
    <3> QED BY <3>1, Singles, Zenon
  <2>4. BindOne(q, args, a.value).ok
    BY <2>1, Zenon
  <2>5. BindOne(q, args, a.value).args = Sent(BindOne(q, args, a.value).bindArgs)
    BY <2>2, <2>3, <2>4, OneSends, Zenon
  <2> QED BY <2>1, <2>5, Zenon
<1>3. CASE a.kind \in {"slice", "anys"}
  <2>1. BindForExec(q, a) = BindOne(q, Expanded(a.value), a.value)
    BY <1>3 DEF BindForExec, BindNamed, Failed
  <2>2. Expanded(a.value) = SentFor(a.value)
    BY <1>3, ArgFacts DEF SentFor
  <2> PICK args : args = Expanded(a.value)
    OBVIOUS
  <2> PICK V : V = ToSet(args)
    OBVIOUS
  <2>3. args \in Seq(V)
    BY ArgFacts, ExpandedType
  <2> QED BY <2>1, <2>2, <2>3, OneSends
<1>4. CASE a.kind = "object"
  <2>1. BindForExec(q, a) = BindFields(q, a.objs[1], Expand)
    BY <1>4 DEF BindForExec, BindNamed
  <2> QED BY <2>1, FieldsSend
<1> QED BY <1>1, <1>2, <1>3, <1>4 DEF BindForExec, BindNamed, Failed

(* Two calls that bind to the same text and the same arguments of the key  *)
(* send the same arguments: those the key has, each list expanded.         *)
THEOREM KeysDetermineArgs == BindSpec => []KeyDeterminesArgs
<1>1. Faithful => KeyDeterminesArgs
  <2> SUFFICES ASSUME Faithful, call.made, out.ok, NEW b \in Args,
                      BindForExec(statement, b).ok,
                      BindForExec(statement, b).bindArgs = out.bindArgs
               PROVE  BindForExec(statement, b).args = out.args
    BY DEF KeyDeterminesArgs
  <2> PICK q : q = statement
    OBVIOUS
  <2> PICK a \in Args : a = call.arg /\ out = BindForExec(q, a)
    BY DEF Faithful, out
  <2>1. CASE ~HasNames(q)
    BY <2>1 DEF BindForExec, Bound
  <2>2. CASE HasNames(q)
    <3> PICK T : T = Names \cup Words
      OBVIOUS
    <3>1. q \in Seq(T)
      BY DEF Faithful
    <3>2. out.args = Sent(out.bindArgs)
      BY <2>2, <3>1, ExecSends
    <3>3. BindForExec(q, b).args = Sent(BindForExec(q, b).bindArgs)
      BY <2>2, <3>1, ExecSends
    <3> QED BY <3>2, <3>3
  <2> QED BY <2>1, <2>2
<1> QED BY <1>1, CallsAreFaithful, PTL

-----------------------------------------------------------------------------
(* The key that InvalidateQuery computes. *)

(* Where no field that is named is a list to be expanded, it makes no      *)
(* difference whether lists are expanded.                                  *)
LEMMA NoListNoMatter ==
  ASSUME NEW T, NEW q \in Seq(T), NEW fields, \A n \in ToSet(NamesOf(q)) : ~IsList(fields[n], TRUE)
  PROVE  BindFields(q, fields, TRUE) = BindFields(q, fields, FALSE)
<1> PICK named : named = NamesOf(q)
  OBVIOUS
<1> PICK used : used = ToSet(named)
  OBVIOUS
<1>1. ASSUME NEW n \in used
      PROVE  /\ FieldBinds(fields[n], TRUE) <=> FieldBinds(fields[n], FALSE)
             /\ FieldArgs(fields[n], TRUE) = FieldArgs(fields[n], FALSE)
             /\ FieldKey(fields[n], TRUE) = FieldKey(fields[n], FALSE)
  <2>1. ~IsList(fields[n], TRUE) /\ ~IsList(fields[n], FALSE)
    BY DEF IsList
  <2> QED BY <2>1 DEF FieldBinds, FieldArgs, FieldKey
<1>2. CASE ~(used \subseteq DOMAIN fields)
  BY <1>2 DEF BindFields
<1>3. CASE used \subseteq DOMAIN fields
  <2>1. CASE \E n \in used : ~FieldBinds(fields[n], TRUE)
    <3>1. \E n \in used : ~FieldBinds(fields[n], FALSE)
      BY <1>1, <2>1, Zenon
    <3> QED BY <1>3, <2>1, <3>1 DEF BindFields
  <2>2. CASE ~\E n \in used : ~FieldBinds(fields[n], TRUE)
    <3>1. ~\E n \in used : ~FieldBinds(fields[n], FALSE)
      BY <1>1, <2>2, Zenon
    <3> PICK count : count = [n \in used |-> Len(FieldArgs(fields[n], TRUE))]
      OBVIOUS
    <3>2. count = [n \in used |-> Len(FieldArgs(fields[n], FALSE))]
      BY <1>1
    <3>3. \A k \in DOMAIN named : named[k] \in used
      BY DEF ToSet
    <3> PICK keys : keys = [k \in DOMAIN named |-> FieldKey(fields[named[k]], TRUE)]
      OBVIOUS
    <3>4. keys = [k \in DOMAIN named |-> FieldKey(fields[named[k]], FALSE)]
      BY <1>1, <3>3
    <3> PICK parts : parts = [k \in 1 .. Len(named) |-> FieldArgs(fields[named[k]], TRUE)]
      OBVIOUS
    <3>5. parts = [k \in 1 .. Len(named) |-> FieldArgs(fields[named[k]], FALSE)]
      <4>1. named \in Seq(Used(q))
        BY NamesAre, Zenon
      <4>2. \A k \in 1 .. Len(named) : named[k] \in used
        BY <3>3, <4>1, LenIs, Zenon
      <4> QED BY <1>1, <4>2
    <3>6. BindFields(q, fields, TRUE) = Bound(Rewritten(q, count), FlattenSeq(parts), keys)
      BY <1>3, <2>2 DEF BindFields, Flatten
    <3>7. BindFields(q, fields, FALSE) = Bound(Rewritten(q, count), FlattenSeq(parts), keys)
      BY <1>3, <3>1, <3>2, <3>4, <3>5 DEF BindFields, Flatten
    <3> QED BY <3>6, <3>7
  <2> QED BY <2>1, <2>2
<1> QED BY <1>2, <1>3

(* InvalidateQuery, without the configuration of the cached call, finds    *)
(* the key of that call or fails, where no list was expanded and the call  *)
(* was no batch.                                                           *)
THEOREM InvalidationsFindKeys == BindSpec => []InvalidationFindsKey
<1>1. Faithful => InvalidationFindsKey
  <2> DEFINE key == BindNamed(statement, call.arg, FALSE)
             expands == Expand /\ \E n \in ToSet(NamesOf(statement)) :
                                    IsList(FieldsOf(call.arg)[n], TRUE)
             Found == \/ ~key.ok /\ (call.arg.kind = "batch" \/ expands)
                      \/ key.ok /\ key.sql = out.sql /\ key.bindArgs = out.bindArgs
                      \/ key.ok /\ expands
  <2> SUFFICES ASSUME Faithful, call.made, Named, out.ok PROVE Found
    BY DEF InvalidationFindsKey
  <2> PICK q : q = statement
    OBVIOUS
  <2> PICK a \in Args : a = call.arg /\ out = BindForExec(q, a)
    BY DEF Faithful, out
  <2>1. HasNames(q) /\ key = BindNamed(q, a, FALSE)
    BY DEF Named
  <2>2. expands <=> Expand /\ \E n \in ToSet(NamesOf(q)) : IsList(FieldsOf(a)[n], TRUE)
    OBVIOUS
  <2> HIDE DEF key, expands
  <2>3. CASE a.kind = "batch"
    <3>1. key = Failed
      BY <2>1, <2>3 DEF BindNamed
    <3> QED BY <2>3, <3>1 DEF Failed
  <2>4. CASE a.kind \in {"scalar", "valuer"}
    <3>1. key = BindOne(q, <<a.value>>, a.value) /\ out = key
      BY <2>1, <2>4 DEF BindNamed, BindForExec, Failed
    <3>2. key.ok
      BY <3>1
    <3> QED BY <3>1, <3>2, Zenon
  <2>5. CASE a.kind \in {"slice", "anys"}
    <3>1. key = Failed
      BY <2>1, <2>5 DEF BindNamed
    <3>2. Expand
      BY <2>1, <2>5 DEF BindForExec, BindNamed, Failed
    <3>3. PICK n \in ToSet(NamesOf(q)) : n \in Names
      <4> PICK T : T = Names \cup Words
        OBVIOUS
      <4>1. q \in Seq(T)
        BY DEF Faithful
      <4>2. ToSet(NamesOf(q)) = Used(q)
        BY <4>1, NamesAre, Zenon
      <4>3. DOMAIN q = 1 .. Len(q)
        BY <4>1, LenIs, Zenon
      <4>4. \E n \in Used(q) : n \in Names
        BY <2>1, <4>3 DEF Used, HasNames, IsName
      <4> QED BY <4>2, <4>4
    <3>4. IsList(FieldsOf(a)[n], TRUE)
      <4>1. FieldsOf(a)[n] = Field(a.value, FALSE, FALSE)
        BY <2>5, <3>3 DEF FieldsOf
      <4>2. a.value.kind = "slice"
        BY <2>5, ArgFacts
      <4> QED BY <4>1, <4>2 DEF IsList, BindsNull, Field
    <3> QED BY <2>2, <3>1, <3>2, <3>3, <3>4 DEF Failed
  <2>6. CASE a.kind = "object"
    <3>1. /\ key = BindFields(q, a.objs[1], FALSE) /\ out = BindFields(q, a.objs[1], Expand)
          /\ FieldsOf(a) = a.objs[1]
      BY <2>1, <2>6 DEF BindNamed, BindForExec, FieldsOf
    <3>2. CASE expands
      BY <3>2, Zenon
    <3>3. CASE ~expands
      <4>1. key = out
        <5>1. CASE Expand = TRUE
          <6>1. \A n \in ToSet(NamesOf(q)) : ~IsList(a.objs[1][n], TRUE)
            BY <2>2, <3>1, <3>3, <5>1
          <6> PICK T : T = Names \cup Words
            OBVIOUS
          <6>2. q \in Seq(T)
            BY DEF Faithful
          <6>3. BindFields(q, a.objs[1], TRUE) = BindFields(q, a.objs[1], FALSE)
            BY <6>1, <6>2, NoListNoMatter, Zenon
          <6> QED BY <3>1, <5>1, <6>3, Zenon
        <5>2. CASE Expand = FALSE
          BY <3>1, <5>2, Zenon
        <5> QED BY <5>1, <5>2, BindAssumptions
      <4>2. key.ok
        BY <4>1
      <4> QED BY <4>1, <4>2, Zenon
    <3> QED BY <3>2, <3>3
  <2> QED BY <2>1, <2>3, <2>4, <2>5, <2>6 DEF BindForExec, BindNamed, Failed
<1> QED BY <1>1, CallsAreFaithful, PTL

-----------------------------------------------------------------------------
(* A batch. *)

IsConcat(parts, more) == FlattenSeq(parts \o more) = FlattenSeq(parts) \o FlattenSeq(more)

Associate(x, y, z) == (x \o y) \o z = x \o (y \o z)

LEMMA ConcatsAssociate ==
  ASSUME NEW S, NEW x \in Seq(S), NEW y \in Seq(S), NEW z \in Seq(S) PROVE Associate(x, y, z)
BY DEF Associate

(* After m parts, h goes on as g does.                                     *)
GoesOn(f, g, h, m, k) == h[m + k] = f[m] \o g[k]

LEMMA FlattenConcat ==
  ASSUME NEW S, NEW parts \in Seq(Seq(S)), NEW more \in Seq(Seq(S)) PROVE IsConcat(parts, more)
<1> PICK m \in Nat : m = Len(parts)
  BY LenIs, Zenon
<1> PICK n \in Nat : n = Len(more)
  BY LenIs, Zenon
<1> PICK both : both = parts \o more
  OBVIOUS
<1>1. /\ both \in Seq(Seq(S)) /\ Len(both) = m + n
      /\ \A k \in 1 .. m : both[k] = parts[k]
      /\ \A k \in 1 .. n : both[m + k] = more[k]
  BY Concats
<1>2. PICK f : Runs(f, S, parts) /\ FlattenSeq(parts) = f[Len(parts)]
  BY FlattenRuns, Zenon
<1>3. PICK g : Runs(g, S, more) /\ FlattenSeq(more) = g[Len(more)]
  BY FlattenRuns, Zenon
<1>4. both \in Seq(Seq(S))
  BY <1>1
<1>5. PICK h : Runs(h, S, both) /\ FlattenSeq(both) = h[Len(both)]
  BY <1>4, FlattenRuns, Zenon
<1>6. f[m] = h[m] /\ f[m] \in Seq(S)
  <2>1. SameUpTo(m, parts, both)
    BY <1>1 DEF SameUpTo
  <2>2. SameAt(f, h, m)
    BY <1>2, <1>4, <1>5, <2>1, RunsAgree, Zenon
  <2>3. m \in 0 .. Len(parts) /\ f \in [0 .. Len(parts) -> Seq(S)]
    BY <1>2 DEF Runs
  <2>4. f[m] \in Seq(S)
    BY <2>3, Zenon
  <2> QED BY <2>2, <2>4 DEF SameAt
<1>7. ASSUME NEW k \in 1 .. n, GoesOn(f, g, h, m, k - 1) PROVE GoesOn(f, g, h, m, k)
  <2> PICK j \in Nat : j = m + k
    OBVIOUS
  <2>0. k \in 1 .. Len(more) /\ j \in 1 .. Len(both) /\ j - 1 = m + (k - 1)
    BY <1>1
  <2>1. Adds(g, S, more, k)
    BY <1>3, <2>0, RunsStep, Zenon
  <2>2. Adds(h, S, both, j)
    BY <1>4, <1>5, <2>0, RunsStep, Zenon
  <2>3. h[j] = h[j - 1] \o both[j] /\ both[j] = more[k]
    BY <1>1, <2>2 DEF Adds
  <2>4. h[j] = (f[m] \o g[k - 1]) \o more[k]
    BY <1>7, <2>0, <2>3 DEF GoesOn
  <2> PICK x \in Seq(S) : x = f[m]
    BY <1>6
  <2> PICK y \in Seq(S) : y = g[k - 1]
    BY <2>1 DEF Adds
  <2> PICK z \in Seq(S) : z = more[k]
    BY <2>1 DEF Adds
  <2>5. Associate(x, y, z)
    BY ConcatsAssociate, Zenon
  <2>6. g[k] = y \o z
    BY <2>1, Zenon DEF Adds
  <2>7. h[j] = x \o g[k]
    BY <2>4, <2>5, <2>6, Zenon DEF Associate
  <2> QED BY <2>7, Zenon DEF GoesOn
<1> DEFINE Bad == {k \in 0 .. n : ~GoesOn(f, g, h, m, k)}
<1>8. Bad = {}
  <2> SUFFICES ASSUME Bad # {} PROVE FALSE
    OBVIOUS
  <2>1. PICK k \in Bad : \A j \in Bad : k <= j
    <3>1. Bad \in SUBSET Nat
      OBVIOUS
    <3> HIDE DEF Bad
    <3> QED BY <3>1, LeastNumber
  <2>2. k # 0
    <3>1. g[0] = <<>> /\ m + 0 = m
      BY <1>3 DEF Runs
    <3>2. f[m] \o <<>> = f[m]
      BY <1>6, Concats, Zenon
    <3>3. GoesOn(f, g, h, m, 0)
      BY <1>6, <3>1, <3>2, Zenon DEF GoesOn
    <3> QED BY <2>1, <3>3
  <2>3. k - 1 \in 0 .. n /\ k - 1 \notin Bad /\ k \in 1 .. n
    BY <2>1, <2>2
  <2>4. GoesOn(f, g, h, m, k - 1)
    BY <2>3
  <2>5. GoesOn(f, g, h, m, k)
    BY <1>7, <2>3, <2>4
  <2> QED BY <2>1, <2>5
<1>9. GoesOn(f, g, h, m, n)
  BY <1>8
<1>10. Len(both) = m + n
  BY <1>1
<1> QED BY <1>2, <1>3, <1>5, <1>9, <1>10, Zenon DEF IsConcat, GoesOn

(* A part of a query.                                                      *)
LEMMA Slices ==
  ASSUME NEW S, NEW s \in Seq(S), NEW i \in Nat \ {0}, NEW j \in Nat, i <= j + 1, j <= Len(s)
  PROVE  /\ SubSeq(s, i, j) \in Seq(S) /\ Len(SubSeq(s, i, j)) = j - i + 1
         /\ \A k \in 1 .. j - i + 1 : SubSeq(s, i, j)[k] = s[k + i - 1]
OBVIOUS

IsBoth(s, a, b) == s = a \o b

LEMMA BothParts ==
  ASSUME NEW S, NEW s \in Seq(S), NEW a \in Seq(S), NEW b \in Seq(S), Len(s) = Len(a) + Len(b),
         \A k \in 1 .. Len(a) : s[k] = a[k], \A k \in 1 .. Len(b) : s[Len(a) + k] = b[k]
  PROVE  IsBoth(s, a, b)
<1> PICK m \in Nat : m = Len(a)
  BY LenIs, Zenon
<1> PICK n \in Nat : n = Len(b)
  BY LenIs, Zenon
<1> PICK ab : ab = a \o b
  OBVIOUS
<1>1. ab \in Seq(S) /\ Len(ab) = m + n
  BY Concats
<1>2. \A k \in 1 .. m : ab[k] = a[k]
  BY Concats, Zenon
<1>3. \A k \in 1 .. n : ab[m + k] = b[k]
  <2>1. \A k \in 1 .. Len(b) : (a \o b)[Len(a) + k] = b[k]
    BY Concats
  <2> QED BY <2>1
<1>4. ASSUME NEW k \in 1 .. m + n PROVE s[k] = ab[k]
  <2>1. CASE k <= m
    <3>1. k \in 1 .. m
      BY <2>1
    <3> QED BY <1>2, <3>1, Zenon
  <2>2. CASE ~(k <= m)
    <3> PICK i : i = k - m
      OBVIOUS
    <3>1. i \in 1 .. n /\ k = m + i
      BY <2>2
    <3> QED BY <1>3, <3>1, Zenon
  <2> QED BY <2>1, <2>2
<1>5. ab = [k \in 1 .. Len(ab) |-> ab[k]] /\ s = [k \in 1 .. Len(s) |-> s[k]]
  <2>1. ab \in Seq(S)
    BY <1>1
  <2> QED BY <2>1, SeqIs, Zenon
<1>6. Len(ab) = m + n /\ Len(s) = m + n
  BY <1>1
<1> QED BY <1>4, <1>5, <1>6 DEF IsBoth

LEMMA Splits ==
  ASSUME NEW S, NEW s \in Seq(S), NEW j \in 0 .. Len(s)
  PROVE  IsBoth(s, SubSeq(s, 1, j), SubSeq(s, j + 1, Len(s)))
<1>1. /\ SubSeq(s, 1, j) \in Seq(S) /\ Len(SubSeq(s, 1, j)) = j
      /\ \A k \in 1 .. j : SubSeq(s, 1, j)[k] = s[k]
  OBVIOUS
<1>2. /\ SubSeq(s, j + 1, Len(s)) \in Seq(S) /\ Len(SubSeq(s, j + 1, Len(s))) = Len(s) - j
      /\ \A k \in 1 .. Len(s) - j : SubSeq(s, j + 1, Len(s))[k] = s[j + k]
  OBVIOUS
<1>3. Len(s) = j + (Len(s) - j)
  OBVIOUS
<1> QED BY <1>1, <1>2, <1>3, BothParts, Zenon

NamesConcat(s, t) == NamesOf(s \o t) = NamesOf(s) \o NamesOf(t)

NameParts(q) == [k \in 1 .. Len(q) |-> IF IsName(q[k]) THEN <<q[k]>> ELSE <<>>]

LEMMA NamesOfBoth == ASSUME NEW T, NEW s \in Seq(T), NEW t \in Seq(T) PROVE NamesConcat(s, t)
<1>1. ASSUME NEW q \in Seq(T) PROVE NameParts(q) \in Seq(Seq(T)) /\ Len(NameParts(q)) = Len(q)
  <2> PICK n \in Nat : n = Len(q) /\ \A k \in 1 .. n : q[k] \in T
    BY LenIs, Zenon
  <2> DEFINE f == NameParts(q)
  <2>0. f = [k \in 1 .. n |-> IF IsName(q[k]) THEN <<q[k]>> ELSE <<>>]
    BY DEF NameParts
  <2> HIDE DEF f
  <2>1. f = [k \in 1 .. n |-> f[k]]
    BY <2>0
  <2>2. ASSUME NEW k \in 1 .. n PROVE f[k] \in Seq(T)
    <3>1. <<q[k]>> \in Seq(T) /\ <<>> \in Seq(T)
      BY Singles, NoneIs, Zenon
    <3> QED BY <2>0, <3>1
  <2>3. f \in Seq(Seq(T)) /\ Len(f) = n
    BY <2>1, <2>2, MakesSeq, Zenon
  <2> QED BY <2>3 DEF f
<1> PICK st : st = s \o t
  OBVIOUS
<1>2. /\ st \in Seq(T) /\ Len(st) = Len(s) + Len(t) /\ Len(s) \in Nat /\ Len(t) \in Nat
      /\ \A k \in 1 .. Len(s) : st[k] = s[k]
      /\ \A k \in 1 .. Len(t) : st[Len(s) + k] = t[k]
  BY Concats
<1>3. IsBoth(NameParts(st), NameParts(s), NameParts(t))
  <2>1. /\ NameParts(s) \in Seq(Seq(T)) /\ Len(NameParts(s)) = Len(s)
        /\ NameParts(t) \in Seq(Seq(T)) /\ Len(NameParts(t)) = Len(t)
        /\ NameParts(st) \in Seq(Seq(T)) /\ Len(NameParts(st)) = Len(st)
    BY <1>1, <1>2
  <2>2. \A k \in 1 .. Len(s) : NameParts(st)[k] = NameParts(s)[k]
    BY <1>2 DEF NameParts
  <2>3. \A k \in 1 .. Len(t) : NameParts(st)[Len(s) + k] = NameParts(t)[k]
    BY <1>2 DEF NameParts
  <2>4. Len(NameParts(st)) = Len(NameParts(s)) + Len(NameParts(t))
    BY <1>2, <2>1
  <2> QED BY <2>1, <2>2, <2>3, <2>4, BothParts, Zenon
<1>4. IsConcat(NameParts(s), NameParts(t))
  BY <1>1, FlattenConcat, Zenon
<1>5. FlattenSeq(NameParts(st)) = FlattenSeq(NameParts(s)) \o FlattenSeq(NameParts(t))
  BY <1>3, <1>4, Zenon DEF IsConcat, IsBoth
<1> QED BY <1>5, Zenon DEF NamesConcat, NamesOf, Flatten, NameParts

(* The least and the greatest number of a set that has one.                *)
LEMMA MinIs ==
  ASSUME NEW S \in SUBSET Int, NEW x \in S, \A y \in S : x <= y PROVE Min(S) = x
<1>1. Min(S) \in S /\ \A y \in S : Min(S) <= y
  BY DEF Min
<1> PICK m \in Int : m = Min(S) /\ m \in S
  BY <1>1
<1>2. m <= x /\ x <= m /\ x \in Int
  BY <1>1
<1> QED BY <1>2

LEMMA MaxIs ==
  ASSUME NEW S \in SUBSET Int, NEW x \in S, \A y \in S : x >= y PROVE Max(S) = x
<1>1. Max(S) \in S /\ \A y \in S : Max(S) >= y
  BY DEF Max
<1> PICK m \in Int : m = Max(S) /\ m \in S
  BY <1>1
<1>2. m >= x /\ x >= m /\ x \in Int
  BY <1>1
<1> QED BY <1>2

LEMMA Extremes ==
  ASSUME NEW n \in Nat, NEW S \in SUBSET (1 .. n), S # {}
  PROVE  /\ Min(S) \in S /\ \A y \in S : Min(S) <= y
         /\ Max(S) \in S /\ \A y \in S : Max(S) >= y
<1>1. Min(S) \in S /\ \A y \in S : Min(S) <= y
  <2>1. S \in SUBSET Nat
    OBVIOUS
  <2>2. \E x \in S : \A y \in S : x <= y
    BY <2>1, LeastNumber, Zenon
  <2> QED BY <2>2 DEF Min
<1>2. \E x \in S : \A y \in S : x >= y
  <2> DEFINE B == {n - x : x \in S}
  <2>1. B \in SUBSET Nat /\ B # {}
    <3>1. ASSUME NEW x \in S PROVE n - x \in Nat
      OBVIOUS
    <3>2. B # {}
      OBVIOUS
    <3> QED BY <3>1, <3>2
  <2> HIDE DEF B
  <2>2. PICK b \in B : \A c \in B : b <= c
    BY <2>1, LeastNumber, Zenon
  <2>3. PICK x \in S : b = n - x
    BY <2>2 DEF B
  <2>4. ASSUME NEW y \in S PROVE x >= y
    <3>1. n - y \in B
      BY DEF B
    <3>2. b <= n - y
      BY <2>2, <3>1
    <3> QED BY <2>3, <3>2
  <2> QED BY <2>4
<1>3. Max(S) \in S /\ \A y \in S : Max(S) >= y
  BY <1>2 DEF Max
<1> QED BY <1>1, <1>3

(* The one group of q in parentheses, in which all its names are.          *)
IsGroup(q, from, to) ==
  /\ from < to /\ q[from] = "(" /\ q[to] = ")"
  /\ \A k \in from + 1 .. to - 1 : q[k] # "(" /\ q[k] # ")"
  /\ Positions(q) \subseteq from .. to

(* groupNamedPlaces finds the group.                                       *)
LEMMA GroupFound ==
  ASSUME NEW T, NEW q \in Seq(T), HasNames(q), NEW from \in 1 .. Len(q), NEW to \in 1 .. Len(q),
         IsGroup(q, from, to)
  PROVE  GroupStart(q) = from /\ GroupEnd(q) = to
<1> PICK n \in Nat : n = Len(q) /\ DOMAIN q = 1 .. n
  BY LenIs, Zenon
<1> PICK first : first = FirstName(q)
  OBVIOUS
<1> PICK last : last = LastName(q)
  OBVIOUS
<1>1. first \in Positions(q) /\ last \in Positions(q)
  <2>1. Positions(q) \in SUBSET (1 .. n) /\ Positions(q) # {}
    BY DEF Positions, HasNames
  <2>2. /\ Min(Positions(q)) \in Positions(q) /\ Max(Positions(q)) \in Positions(q)
    BY <2>1, Extremes, Zenon
  <2> QED BY <2>2 DEF FirstName, LastName
<1>2. "(" \notin Names /\ ")" \notin Names
  BY BindAssumptions DEF Signs
<1>3. first \in from + 1 .. to - 1 /\ last \in from + 1 .. to - 1
  <2>1. first \in from .. to /\ last \in from .. to
    BY <1>1 DEF IsGroup
  <2>2. q[first] \in Names /\ q[last] \in Names
    BY <1>1 DEF Positions, IsName
  <2>3. q[from] = "(" /\ q[to] = ")"
    BY DEF IsGroup
  <2>4. first # from /\ first # to /\ last # from /\ last # to
    BY <1>2, <2>2, <2>3
  <2> QED BY <2>1, <2>4
<1>4. GroupStart(q) = from
  <2> DEFINE S == {1} \cup {k \in 1 .. first : q[k] = "("}
  <2>1. S \in SUBSET Int /\ from \in S
    BY <1>3 DEF IsGroup
  <2>2. \A k \in S : from >= k
    <3> SUFFICES ASSUME NEW k \in 1 .. first, q[k] = "(" PROVE from >= k
      OBVIOUS
    <3>1. k \notin from + 1 .. to - 1
      BY DEF IsGroup
    <3> QED BY <1>3, <3>1
  <2>3. GroupStart(q) = Max(S)
    BY DEF GroupStart
  <2> HIDE DEF S
  <2> QED BY <2>1, <2>2, <2>3, MaxIs
<1>5. GroupEnd(q) = to
  <2> DEFINE S == {n} \cup {k \in last .. n : q[k] = ")"}
  <2>1. S \in SUBSET Int /\ to \in S
    BY <1>3 DEF IsGroup
  <2>2. \A k \in S : to <= k
    <3> SUFFICES ASSUME NEW k \in last .. n, q[k] = ")" PROVE to <= k
      OBVIOUS
    <3>1. k \notin from + 1 .. to - 1
      BY DEF IsGroup
    <3> QED BY <1>3, <3>1
  <2>3. GroupEnd(q) = Min(S)
    BY DEF GroupEnd
  <2> HIDE DEF S
  <2> QED BY <2>1, <2>2, <2>3, MinIs
<1> QED BY <1>4, <1>5

IsNone(s) == s = <<>>

LEMMA NoneMade == ASSUME NEW s, s = [k \in 1 .. 0 |-> s[k]] PROVE IsNone(s)
BY DEF IsNone

LEMMA OfNone == ASSUME NEW S, S = {}, NEW s \in Seq(S) PROVE IsNone(s)
<1>1. Len(s) \in Nat /\ \A k \in 1 .. Len(s) : s[k] \in S
  BY LenIs, Zenon
<1>2. ~(1 \in 1 .. Len(s))
  BY <1>1, Zenon
<1>3. Len(s) = 0
  BY <1>1, <1>2
<1>4. s = [k \in 1 .. 0 |-> s[k]]
  BY <1>3, SeqIs
<1> QED BY <1>4, NoneMade, Zenon

LEMMA NoNames == ASSUME NEW T, NEW q \in Seq(T), ~HasNames(q) PROVE NamesOf(q) = <<>>
<1>0. Used(q) = {}
  <2>1. DOMAIN q = 1 .. Len(q)
    BY LenIs, Zenon
  <2> QED BY <2>1 DEF Used, HasNames
<1>1. NamesOf(q) \in Seq(Used(q))
  BY NamesAre, Zenon
<1> PICK s : s = NamesOf(q)
  OBVIOUS
<1>2. s \in Seq(Used(q))
  BY <1>1, Zenon
<1>3. IsNone(s)
  BY <1>0, <1>2, OfNone, Zenon
<1> QED BY <1>3 DEF IsNone

(* A part of a query without names reads as it is written.                 *)
LEMMA WordsRead ==
  ASSUME NEW T, NEW q \in Seq(T), ~Contains(q, "?"), ~HasNames(q),
         NEW L, T \subseteq L, "?" \in L, "," \in L, NEW V
  PROVE  Reads(q, <<>>, Meant(q, <<>>, FALSE), L, Readable(T, V))
<1> PICK n \in Nat : n = Len(q) /\ DOMAIN q = 1 .. n
  BY LenIs, Zenon
<1>1. \A k \in 1 .. n : ~IsName(q[k])
  BY DEF HasNames
<1>2. Used(q) = {}
  BY <1>1 DEF Used
<1>3. NamesOf(q) = <<>>
  BY NoNames, Zenon
<1>4. Rewritten(q, <<>>) = q
  <2>1. [k \in 1 .. Len(q) |-> IF IsName(q[k]) THEN Joined(<<>>[q[k]], <<"?">>) ELSE <<q[k]>>]
          = [k \in 1 .. Len(q) |-> <<q[k]>>]
    BY <1>1
  <2> QED BY <2>1, FlattenSingles, Zenon DEF Rewritten, Flatten
<1>5. FieldsSent(q, <<>>, FALSE) = <<>>
  <2>1. Len(<<>>) = 0
    OBVIOUS
  <2> PICK s : s = [k \in 1 .. 0 |-> FieldArgs(<<>>[<<>>[k]], FALSE)]
    OBVIOUS
  <2>2. s = [k \in 1 .. 0 |-> s[k]]
    OBVIOUS
  <2>3. IsNone(s)
    BY <2>2, NoneMade, Zenon
  <2> QED BY <1>3, <2>1, <2>3, FlattenEmpty DEF FieldsSent, IsNone
<1>6. AreFields(q, <<>>) /\ ValuesOf(q, <<>>, FALSE) \subseteq V /\ FieldMarks(q, <<>>, FALSE, <<>>)
  BY <1>2 DEF AreFields, ValuesOf, FieldMarks
<1>7. Reads(Rewritten(q, <<>>), FieldsSent(q, <<>>, FALSE), Meant(q, <<>>, FALSE), L, Readable(T, V))
  BY <1>6, FieldsRead, Zenon
<1> QED BY <1>4, <1>5, <1>7, Zenon

LEMMA FieldsSentType ==
  ASSUME NEW T, NEW q \in Seq(T), NEW fields, AreFields(q, fields), NEW expand,
         NEW V, ValuesOf(q, fields, expand) \subseteq V
  PROVE  FieldsSent(q, fields, expand) \in Seq(V)
<1> PICK named \in Seq(Used(q)) : named = NamesOf(q)
  BY NamesAre, Zenon
<1> PICK m \in Nat : m = Len(named) /\ \A k \in 1 .. m : named[k] \in Used(q)
  BY LenIs, Zenon
<1> PICK parts : parts = [k \in 1 .. m |-> FieldArgs(fields[named[k]], expand)]
  OBVIOUS
<1>1. \A n \in Used(q) : FieldArgs(fields[n], expand) \in Seq(V)
  <2>1. ASSUME NEW n \in Used(q) PROVE FieldArgs(fields[n], expand) \in Seq(V)
    <3>1. IsSequence(fields[n].value.items)
      BY DEF AreFields
    <3>2. ToSet(FieldArgs(fields[n], expand)) \subseteq V
      BY DEF ValuesOf
    <3> QED BY <3>1, <3>2, FieldArgsType, Zenon
  <2> QED BY <2>1
<1>2. \A k \in 1 .. m : parts[k] \in Seq(V)
  BY <1>1
<1>3. parts = [k \in 1 .. m |-> parts[k]]
  OBVIOUS
<1>4. FlattenSeq(parts) \in Seq(V)
  BY <1>2, <1>3, FlattenPartsType, Zenon
<1> QED BY <1>4 DEF FieldsSent

(* The readings of a text that is repeated, with commas between.           *)
Repeated(n, copies) ==
  Flatten(n, LAMBDA o : (IF o = 1 THEN <<>> ELSE <<[text |-> ","]>>) \o copies[o])

(* One text several times, with commas between, each time with arguments   *)
(* of its own.                                                             *)
LEMMA JoinedReads ==
  ASSUME NEW n \in Nat, NEW L, "," \in L, NEW R, [text |-> ","] \in R, NEW V,
         NEW s, NEW as \in Seq(Seq(V)), Len(as) = n,
         NEW copies, \A o \in 1 .. n : Reads(s, as[o], copies[o], L, R)
  PROVE  Reads(Joined(n, s), FlattenSeq(as), Repeated(n, copies), L, R)
<1> DEFINE texts == [o \in 1 .. n |-> IF o = 1 THEN s ELSE <<",">> \o s]
           means == [o \in 1 .. n |-> (IF o = 1 THEN <<>> ELSE <<[text |-> ","]>>) \o copies[o]]
<1>1. ASSUME NEW o \in 1 .. n PROVE Reads(texts[o], as[o], means[o], L, R)
  <2> PICK a \in Seq(V) : a = as[o]
    BY LenIs, Zenon
  <2> PICK c : c = copies[o]
    OBVIOUS
  <2>1. s \in Seq(L) /\ c \in Seq(R) /\ Spells(s, a, c)
    BY Zenon DEF Reads
  <2>2. CASE o = 1
    <3>1. texts[o] = s /\ means[o] = <<>> \o c
      BY <2>2
    <3>2. <<>> \o c = c
      BY <2>1, Concats, Zenon
    <3> QED BY <2>1, <3>1, <3>2, Zenon DEF Reads
  <2>3. CASE o # 1
    <3> PICK x : x = [text |-> ","]
      OBVIOUS
    <3> PICK comma : comma = <<",">>
      OBVIOUS
    <3> PICK mean : mean = <<x>>
      OBVIOUS
    <3>1. texts[o] = comma \o s /\ means[o] = mean \o c
      BY <2>3
    <3>2. Reads(comma, <<>>, mean, L, R)
      <4>1. "," # "?"
        OBVIOUS
      <4> QED BY <4>1, WordReads, Zenon
    <3>3. comma \in Seq(L) /\ mean \in Seq(R) /\ Spells(comma, <<>>, mean)
      BY <3>2, Zenon DEF Reads
    <3>4. <<>> \in Seq(V) /\ <<>> \o a = a
      BY NoneIs, Concats, Zenon
    <3>5. Spells(comma \o s, <<>> \o a, mean \o c)
      BY <2>1, <3>3, <3>4, SpellsConcat, Zenon
    <3>6. comma \o s \in Seq(L) /\ mean \o c \in Seq(R)
      BY <2>1, <3>3, Concats, Zenon
    <3> QED BY <3>1, <3>4, <3>5, <3>6, Zenon DEF Reads
  <2> QED BY <2>2, <2>3
<1>2. texts = [o \in 1 .. n |-> texts[o]] /\ means = [o \in 1 .. n |-> means[o]]
  OBVIOUS
<1>3. Joined(n, s) = FlattenSeq(texts) /\ Repeated(n, copies) = FlattenSeq(means)
  BY DEF Joined, Repeated, Flatten
<1> HIDE DEF texts, means
<1>4. texts \in Seq(Seq(L)) /\ Len(texts) = n
  <2>1. \A o \in 1 .. n : texts[o] \in Seq(L)
    BY <1>1 DEF Reads
  <2> QED BY <1>2, <2>1, MakesSeq, Zenon
<1>5. means \in Seq(Seq(R)) /\ Len(means) = n
  <2>1. \A o \in 1 .. n : means[o] \in Seq(R)
    BY <1>1 DEF Reads
  <2> QED BY <1>2, <2>1, MakesSeq, Zenon
<1>6. Spells(FlattenSeq(texts), FlattenSeq(as), FlattenSeq(means))
  <2>1. \A o \in 1 .. n : Spells(texts[o], as[o], means[o])
    BY <1>1 DEF Reads
  <2> QED BY <1>4, <1>5, <2>1, SpellsFlatten
<1>7. FlattenSeq(texts) \in Seq(L) /\ FlattenSeq(means) \in Seq(R)
  BY <1>4, <1>5, FlattenType, Zenon
<1> QED BY <1>3, <1>6, <1>7 DEF Reads

(* The three parts of a query with one group.                              *)
Before(q, from) == SubSeq(q, 1, from - 1)
Inside(q, from, to) == SubSeq(q, from, to)
After(q, to) == SubSeq(q, to + 1, Len(q))

LEMMA GroupParts ==
  ASSUME NEW T, NEW q \in Seq(T), ~Contains(q, "?"),
         NEW from \in 1 .. Len(q), NEW to \in 1 .. Len(q), IsGroup(q, from, to)
  PROVE  /\ Before(q, from) \in Seq(T) /\ ~Contains(Before(q, from), "?") /\ ~HasNames(Before(q, from))
         /\ Inside(q, from, to) \in Seq(T) /\ ~Contains(Inside(q, from, to), "?")
         /\ After(q, to) \in Seq(T) /\ ~Contains(After(q, to), "?") /\ ~HasNames(After(q, to))
         /\ NamesOf(q) = NamesOf(Inside(q, from, to))
<1> PICK n \in Nat : n = Len(q) /\ DOMAIN q = 1 .. n
  BY LenIs, Zenon
<1> PICK a : a = Before(q, from)
  OBVIOUS
<1> PICK b : b = Inside(q, from, to)
  OBVIOUS
<1> PICK c : c = After(q, to)
  OBVIOUS
<1> PICK ab : ab = SubSeq(q, 1, to)
  OBVIOUS
<1>0. from < to
  BY DEF IsGroup
<1>1. /\ a \in Seq(T) /\ Len(a) = from - 1 /\ DOMAIN a = 1 .. from - 1
      /\ \A k \in 1 .. from - 1 : a[k] = q[k]
  <2>1. 1 <= (from - 1) + 1 /\ from - 1 <= Len(q) /\ from - 1 \in Nat /\ 1 \in Nat \ {0}
    BY <1>0
  <2> QED BY <2>1, Slices DEF Before
<1>2. /\ b \in Seq(T) /\ Len(b) = to - from + 1
      /\ \A k \in 1 .. to - from + 1 : b[k] = q[k + from - 1]
  <2>1. from <= to + 1 /\ to <= Len(q) /\ to \in Nat /\ from \in Nat \ {0}
    BY <1>0
  <2> QED BY <2>1, Slices DEF Inside
<1>3. /\ c \in Seq(T) /\ Len(c) = n - to /\ DOMAIN c = 1 .. n - to
      /\ \A k \in 1 .. n - to : c[k] = q[to + k]
  <2> PICK i : i = to + 1
    OBVIOUS
  <2>1. i <= n + 1 /\ n <= Len(q) /\ i \in Nat \ {0} /\ c = SubSeq(q, i, n)
    BY DEF After
  <2>2. c \in Seq(T) /\ Len(c) = n - i + 1 /\ \A k \in 1 .. n - i + 1 : c[k] = q[k + i - 1]
    BY <2>1, Slices
  <2>3. n - i + 1 = n - to /\ \A k \in 1 .. n - to : k + i - 1 = to + k
    OBVIOUS
  <2> QED BY <2>2, <2>3
<1>4. ab \in Seq(T) /\ Len(ab) = to /\ \A k \in 1 .. to : ab[k] = q[k]
  <2>1. 1 <= to + 1 /\ to <= Len(q) /\ to \in Nat /\ 1 \in Nat \ {0}
    OBVIOUS
  <2> QED BY <2>1, Slices
<1>5. \A k \in 1 .. n : q[k] # "?"
  BY DEF Contains
<1>6. \A k \in 1 .. n : IsName(q[k]) => k \in from .. to
  BY DEF IsGroup, Positions
<1>7. ~Contains(a, "?") /\ ~HasNames(a)
  <2>1. \A k \in 1 .. from - 1 : k \in 1 .. n /\ k \notin from .. to
    BY <1>0
  <2> QED BY <1>1, <1>5, <1>6, <2>1 DEF Contains, HasNames
<1>8. ~Contains(c, "?") /\ ~HasNames(c)
  <2>1. \A k \in 1 .. n - to : to + k \in 1 .. n /\ to + k \notin from .. to
    BY <1>0
  <2> QED BY <1>3, <1>5, <1>6, <2>1 DEF Contains, HasNames
<1>9. ~Contains(b, "?")
  <2>1. \A k \in 1 .. to - from + 1 : k + from - 1 \in 1 .. n
    BY <1>0
  <2> QED BY <1>2, <1>5, <2>1 DEF Contains
<1>10. NamesOf(q) = NamesOf(b)
  <2>1. IsBoth(ab, a, b)
    <3>1. /\ Len(ab) = Len(a) + Len(b)
          /\ \A k \in 1 .. Len(a) : ab[k] = a[k]
          /\ \A k \in 1 .. Len(b) : ab[Len(a) + k] = b[k]
      BY <1>0, <1>1, <1>2, <1>4
    <3> QED BY <1>1, <1>2, <1>4, <3>1, BothParts, Zenon
  <2>2. IsBoth(q, ab, c)
    <3>1. /\ Len(q) = Len(ab) + Len(c)
          /\ \A k \in 1 .. Len(ab) : q[k] = ab[k]
          /\ \A k \in 1 .. Len(c) : q[Len(ab) + k] = c[k]
      BY <1>3, <1>4
    <3> QED BY <1>3, <1>4, <3>1, BothParts, Zenon
  <2>3. NamesConcat(a, b) /\ NamesConcat(ab, c)
    BY <1>1, <1>2, <1>3, <1>4, NamesOfBoth, Zenon
  <2>4. NamesOf(a) = <<>> /\ NamesOf(c) = <<>>
    BY <1>1, <1>3, <1>7, <1>8, NoNames, Zenon
  <2>5. NamesOf(q) = (NamesOf(a) \o NamesOf(b)) \o NamesOf(c)
    BY <2>1, <2>2, <2>3, Zenon DEF NamesConcat, IsBoth
  <2>6. NamesOf(b) \in Seq(Used(b))
    BY <1>2, NamesAre, Zenon
  <2>7. <<>> \o NamesOf(b) = NamesOf(b) /\ NamesOf(b) \o <<>> = NamesOf(b)
    BY <2>6, Concats, Zenon
  <2> QED BY <2>4, <2>5, <2>7, Zenon
<1> QED BY <1>1, <1>2, <1>3, <1>7, <1>8, <1>9, <1>10

(* What the group means for each object.                                   *)
Copies(group, objs) == [o \in 1 .. Len(objs) |-> Meant(group, objs[o], FALSE)]
BatchMeant(q, objs, from, to) ==
  (Meant(Before(q, from), <<>>, FALSE) \o Repeated(Len(objs), Copies(Inside(q, from, to), objs)))
    \o Meant(After(q, to), <<>>, FALSE)

(* bindNamedMany repeats the group, once for each object.                  *)
LEMMA BatchMeans ==
  ASSUME NEW T, NEW q \in Seq(T), ~Contains(q, "?"), HasNames(q),
         NEW objs, IsSequence(objs), \A o \in DOMAIN objs : \A x \in DOMAIN objs[o] : IsSequence(objs[o][x].value.items),
         BindNamedMany(q, objs).ok,
         NEW from \in 1 .. Len(q), NEW to \in 1 .. Len(q), IsGroup(q, from, to)
  PROVE  LET bound == BindNamedMany(q, objs)
         IN  Spells(bound.sql, bound.args, BatchMeant(q, objs, from, to))
<1> PICK n \in Nat : n = Len(objs) /\ DOMAIN objs = 1 .. n
  BY DEF IsSequence
<1> PICK group : group = Inside(q, from, to)
  OBVIOUS
<1> PICK a : a = Before(q, from)
  OBVIOUS
<1> PICK c : c = After(q, to)
  OBVIOUS
<1>1. /\ a \in Seq(T) /\ ~Contains(a, "?") /\ ~HasNames(a)
      /\ group \in Seq(T) /\ ~Contains(group, "?")
      /\ c \in Seq(T) /\ ~Contains(c, "?") /\ ~HasNames(c)
      /\ NamesOf(q) = NamesOf(group)
  BY GroupParts, Zenon
<1> PICK V : V = UNION {ValuesOf(group, objs[o], FALSE) : o \in 1 .. n}
  OBVIOUS
<1> PICK L : L = T \cup {"?", ","}
  OBVIOUS
<1> DEFINE R == Readable(T, V)
           one == [x \in Names |-> 1]
           s == Rewritten(group, one)
           as == [o \in 1 .. n |-> FieldsSent(group, objs[o], FALSE)]
           copies == Copies(group, objs)
           middle == Repeated(n, copies)
<1>2. T \subseteq L /\ "?" \in L /\ "," \in L /\ [text |-> ","] \in R
  BY DEF Readable
<1>3. ToSet(NamesOf(q)) = Used(group)
  BY <1>1, NamesAre, Zenon
<1>4. Used(group) \subseteq Names
  BY DEF Used, IsName
<1>5. ASSUME NEW o \in 1 .. n
      PROVE  Reads(s, as[o], copies[o], L, R) /\ as[o] \in Seq(V)
  <2> PICK fields : fields = objs[o]
    OBVIOUS
  <2>1. Used(group) \subseteq DOMAIN fields
    BY <1>3 DEF BindNamedMany, Failed
  <2>2. AreFields(group, fields)
    BY <2>1 DEF AreFields
  <2>3. ValuesOf(group, fields, FALSE) \subseteq V
    OBVIOUS
  <2>4. FieldMarks(group, fields, FALSE, one)
    <3>1. ASSUME NEW x \in Used(group) PROVE Len(FieldArgs(fields[x], FALSE)) = 1
      BY DEF FieldArgs, IsList
    <3> QED BY <1>4, <3>1 DEF FieldMarks
  <2> HIDE DEF one
  <2>5. Reads(s, FieldsSent(group, fields, FALSE), Meant(group, fields, FALSE), L, R)
    BY <1>1, <1>2, <2>2, <2>3, <2>4, FieldsRead, Zenon
  <2>6. FieldsSent(group, fields, FALSE) \in Seq(V)
    BY <1>1, <2>2, <2>3, FieldsSentType, Zenon
  <2>7. as[o] = FieldsSent(group, fields, FALSE) /\ copies[o] = Meant(group, fields, FALSE)
    BY DEF Copies
  <2> QED BY <2>5, <2>6, <2>7, Zenon
<1>6. as = [o \in 1 .. n |-> as[o]]
  OBVIOUS
<1>7. /\ BindNamedMany(q, objs).sql = (a \o Joined(n, s)) \o c
      /\ BindNamedMany(q, objs).args = FlattenSeq(as)
  <2>1. GroupStart(q) = from /\ GroupEnd(q) = to
    BY GroupFound, Zenon
  <2>2. as = [o \in 1 .. n |-> Flatten(Len(NamesOf(q)), LAMBDA k : FieldArgs(objs[o][NamesOf(q)[k]], FALSE))]
    BY <1>1, Zenon DEF FieldsSent, Flatten
  <2>3. a = SubSeq(q, 1, GroupStart(q) - 1) /\ c = SubSeq(q, GroupEnd(q) + 1, Len(q))
        /\ group = SubSeq(q, GroupStart(q), GroupEnd(q))
    BY <2>1 DEF Before, After, Inside
  <2> HIDE DEF as
  <2> QED BY <2>2, <2>3 DEF BindNamedMany, Failed, Bound, Flatten
<1> HIDE DEF as, copies, one, s, R
<1>9. as \in Seq(Seq(V)) /\ Len(as) = n
  BY <1>5, <1>6, MakesSeq, Zenon
<1>10. Reads(Joined(n, s), FlattenSeq(as), middle, L, R)
  <2>1. \A o \in 1 .. n : Reads(s, as[o], copies[o], L, R)
    BY <1>5
  <2> QED BY <1>2, <1>9, <2>1, JoinedReads, Zenon
<1> HIDE DEF middle
<1>11. FlattenSeq(as) \in Seq(V)
  BY <1>9, FlattenType, Zenon
<1>12. Reads(a, <<>>, Meant(a, <<>>, FALSE), L, R) /\ Reads(c, <<>>, Meant(c, <<>>, FALSE), L, R)
  BY <1>1, <1>2, WordsRead, Zenon DEF R
<1> PICK A \in Seq(V) : A = FlattenSeq(as)
  BY <1>11
<1> PICK j : j = Joined(n, s)
  OBVIOUS
<1> PICK am : am = Meant(a, <<>>, FALSE)
  OBVIOUS
<1> PICK cm : cm = Meant(c, <<>>, FALSE)
  OBVIOUS
<1>13. /\ a \in Seq(L) /\ am \in Seq(R) /\ Spells(a, <<>>, am)
       /\ c \in Seq(L) /\ cm \in Seq(R) /\ Spells(c, <<>>, cm)
       /\ j \in Seq(L) /\ middle \in Seq(R) /\ Spells(j, A, middle)
  BY <1>10, <1>12, Zenon DEF Reads
<1>14. <<>> \in Seq(V) /\ <<>> \o A = A /\ A \o <<>> = A
  BY NoneIs, Concats, Zenon
<1>15. Spells(a \o j, <<>> \o A, am \o middle)
  BY <1>13, <1>14, SpellsConcat, Zenon
<1>16. a \o j \in Seq(L) /\ Spells(a \o j, A, am \o middle)
  BY <1>13, <1>14, <1>15, Concats, Zenon
<1>17. Spells((a \o j) \o c, A \o <<>>, (am \o middle) \o cm)
  BY <1>13, <1>14, <1>16, SpellsConcat, Zenon
<1>18. Spells((a \o j) \o c, A, (am \o middle) \o cm)
  BY <1>14, <1>17, Zenon
<1>19. BatchMeant(q, objs, from, to) = (am \o middle) \o cm
  BY DEF BatchMeant, middle, copies
<1> QED BY <1>7, <1>18, <1>19

(* In a batch, the one parenthesised group is repeated (bindNamedMany),    *)
(* once for each object, with the values of that object.                   *)
THEOREM BatchesRepeatTheGroup == BindSpec => []BatchRepeatsGroup
<1>1. Faithful => BatchRepeatsGroup
  <2> DEFINE copy(o, from, to) == Meant(SubSeq(statement, from, to), call.arg.objs[o], FALSE)
             comma(o) == IF o = 1 THEN <<>> ELSE <<[text |-> ","]>>
             inside(from, to) == SubSeq(statement, from + 1, to - 1)
  <2> SUFFICES ASSUME Faithful, call.made, Named, out.ok, call.arg.kind = "batch",
                      NEW from \in DOMAIN statement, NEW to \in DOMAIN statement,
                      from < to, statement[from] = "(", statement[to] = ")",
                      ~Contains(inside(from, to), "("), ~Contains(inside(from, to), ")"),
                      Positions(statement) \subseteq from .. to
               PROVE  Spelled(out.sql, out.args) =
                        Meant(SubSeq(statement, 1, from - 1), <<>>, FALSE)
                          \o Flatten(Len(call.arg.objs), LAMBDA o : comma(o) \o copy(o, from, to))
                          \o Meant(SubSeq(statement, to + 1, Len(statement)), <<>>, FALSE)
    BY DEF BatchRepeatsGroup
  <2> PICK T : T = Names \cup Words
    OBVIOUS
  <2> PICK q : q = statement
    OBVIOUS
  <2> PICK objs : objs = call.arg.objs
    OBVIOUS
  <2>1. q \in Seq(T) /\ ~Contains(q, "?") /\ HasNames(q) /\ call.arg \in Args
    BY DEF Faithful, Named
  <2>2. out = BindNamedMany(q, objs)
    BY <2>1 DEF Faithful, BindForExec, out
  <2>3. IsSequence(objs)
        /\ \A o \in DOMAIN objs : \A x \in DOMAIN objs[o] : IsSequence(objs[o][x].value.items)
    <3>1. \A o \in ToSet(objs) : \A x \in DOMAIN o : IsSequence(o[x].value.items)
      BY <2>1, ArgFacts
    <3>2. \A o \in DOMAIN objs : objs[o] \in ToSet(objs)
      BY DEF ToSet
    <3> QED BY <2>1, <3>1, <3>2, ArgFacts
  <2>4. from \in 1 .. Len(q) /\ to \in 1 .. Len(q)
    <3>1. DOMAIN q = 1 .. Len(q)
      BY <2>1, LenIs, Zenon
    <3> QED BY <3>1
  <2>5. IsGroup(q, from, to)
    <3>1. /\ Len(inside(from, to)) = to - from - 1
          /\ \A k \in 1 .. to - from - 1 : inside(from, to)[k] = q[k + from]
      <4> PICK i : i = from + 1
        OBVIOUS
      <4> PICK j : j = to - 1
        OBVIOUS
      <4>1. i \in Nat \ {0} /\ j \in Nat /\ i <= j + 1 /\ j <= Len(q)
        BY <2>1, <2>4
      <4>2. /\ Len(SubSeq(q, i, j)) = j - i + 1
            /\ \A k \in 1 .. j - i + 1 : SubSeq(q, i, j)[k] = q[k + i - 1]
        BY <2>1, <4>1, Slices
      <4>3. j - i + 1 = to - from - 1 /\ \A k \in 1 .. to - from - 1 : k + i - 1 = k + from
        BY <2>4
      <4> QED BY <4>2, <4>3
    <3>2. ASSUME NEW k \in from + 1 .. to - 1 PROVE q[k] # "(" /\ q[k] # ")"
      <4> PICK i : i = k - from
        OBVIOUS
      <4>1. i \in 1 .. to - from - 1 /\ k = i + from
        BY <2>4
      <4> HIDE DEF inside
      <4>2. inside(from, to)[i] = q[k] /\ i \in 1 .. Len(inside(from, to))
        BY <3>1, <4>1
      <4> QED BY <4>2 DEF Contains
    <3> QED BY <3>2 DEF IsGroup
  <2> HIDE DEF inside
  <2>6. Spells(out.sql, out.args, BatchMeant(q, objs, from, to))
    <3>1. BindNamedMany(q, objs).ok
      BY <2>2
    <3> QED BY <2>1, <2>2, <2>3, <2>4, <2>5, <3>1, BatchMeans
  <2>7. Repeated(Len(objs), Copies(Inside(q, from, to), objs))
          = Flatten(Len(objs), LAMBDA o : comma(o) \o copy(o, from, to))
    <3>1. \A o \in 1 .. Len(objs) : Copies(Inside(q, from, to), objs)[o] = copy(o, from, to)
      BY DEF Copies, Inside
    <3>2. [o \in 1 .. Len(objs) |-> comma(o) \o Copies(Inside(q, from, to), objs)[o]]
            = [o \in 1 .. Len(objs) |-> comma(o) \o copy(o, from, to)]
      <4> HIDE DEF comma, copy
      <4> QED BY <3>1
    <3> QED BY <3>2, Zenon DEF Repeated, Flatten
  <2> QED BY <2>6, <2>7, Zenon DEF Spells, BatchMeant, Before, After
<1> QED BY <1>1, CallsAreFaithful, PTL
=============================================================================
