----------------------------- MODULE StoreProofs -----------------------------
(***************************************************************************)
(* Proofs about the two stores of the cache: MemoryStore, for every set of *)
(* keys, prefixes and values, every capacity and every expiration time,    *)
(* and RedisStore, for every number of clients, names, prefixes and calls  *)
(* under way, and every batch a SCAN may return.                           *)
(***************************************************************************)
EXTENDS MemoryStore, RedisStore, Recursion, FiniteSetTheorems

USE StoreAssumptions

-----------------------------------------------------------------------------
(* The list without some keys. *)

(* a comes before b in s. *)
Before(s, a, b) == \E p, q \in DOMAIN s : p < q /\ s[p] = a /\ s[q] = b
Members(s) == {s[p] : p \in DOMAIN s}

(* One more element comes after all the others.                            *)
LEMMA AppendOrder ==
  ASSUME NEW S, NEW s \in Seq(S), NEW e \in S
  PROVE  /\ Append(s, e) \in Seq(S)
         /\ Members(Append(s, e)) = Members(s) \cup {e}
         /\ \A a, b : Before(Append(s, e), a, b)
                        <=> Before(s, a, b) \/ (a \in Members(s) /\ b = e)
<1> DEFINE t == Append(s, e)
<1>1. /\ t \in Seq(S) /\ Len(s) \in Nat
      /\ DOMAIN s = 1 .. Len(s) /\ DOMAIN t = 1 .. Len(s) + 1
      /\ \A p \in 1 .. Len(s) : t[p] = s[p]
      /\ t[Len(s) + 1] = e
  OBVIOUS
<1> HIDE DEF t
<1>2. Members(t) = Members(s) \cup {e}
  BY <1>1 DEF Members
<1>3. ASSUME NEW a, NEW b
      PROVE  Before(t, a, b) <=> Before(s, a, b) \/ (a \in Members(s) /\ b = e)
  BY <1>1 DEF Before, Members
<1> QED BY <1>1, <1>2, <1>3 DEF t

(* Without keeps the elements that are not removed, in their order.        *)
LEMMA WithoutKeeps ==
  ASSUME NEW S, NEW s \in Seq(S), NEW ks
  PROVE  /\ Without(s, ks) \in Seq(S)
         /\ Members(Without(s, ks)) = Members(s) \ ks
         /\ \A a, b : Before(Without(s, ks), a, b)
                        <=> Before(s, a, b) /\ a \notin ks /\ b \notin ks
<1> DEFINE Rule(f) ==
      f = [n \in 0 .. Len(s) |->
             IF n = 0 THEN <<>>
             ELSE IF s[n] \in ks THEN f[n - 1] ELSE Append(f[n - 1], s[n])]
           kept == CHOOSE f : Rule(f)
<1>0. Len(s) \in Nat /\ DOMAIN s = 1 .. Len(s) /\ \A n \in 1 .. Len(s) : s[n] \in S
  OBVIOUS
<1>1. \E f : Rule(f)
  <2> DEFINE step == [n \in 1 .. Len(s) |->
                        [t \in Seq(S) |-> IF s[n] \in ks THEN t ELSE Append(t, s[n])]]
  <2>1. step \in [1 .. Len(s) -> [Seq(S) -> Seq(S)]] /\ <<>> \in Seq(S)
    BY <1>0
  <2>2. PICK f \in [0 .. Len(s) -> Seq(S)] :
          f[0] = <<>> /\ \A n \in 1 .. Len(s) : f[n] = step[n][f[n - 1]]
    <3> HIDE DEF step
    <3> DEFINE N == Len(s)
               T == Seq(S)
               base == <<>>
    <3>1. N \in Nat /\ base \in T /\ step \in [1 .. N -> [T -> T]]
      BY <1>0, <2>1
    <3> HIDE DEF N, T, base
    <3>2. \E f \in [0 .. N -> T] : Follows(f, N, base, step)
      BY <3>1, RecursionExists
    <3> QED BY <3>2 DEF Follows, N, T, base
  <2>3. ASSUME NEW n \in 1 .. Len(s)
        PROVE  f[n] = IF s[n] \in ks THEN f[n - 1] ELSE Append(f[n - 1], s[n])
    <3>1. f[n - 1] \in Seq(S)
      BY <1>0
    <3> QED BY <2>2, <3>1
  <2>4. f = [n \in 0 .. Len(s) |-> f[n]]
    BY <2>2
  <2>5. \A n \in 0 .. Len(s) : n = 0 \/ n \in 1 .. Len(s)
    BY <1>0
  <2>6. \A n \in 0 .. Len(s) :
          f[n] = IF n = 0 THEN <<>>
                 ELSE IF s[n] \in ks THEN f[n - 1] ELSE Append(f[n - 1], s[n])
    BY <2>2, <2>3, <2>5
  <2>7. Rule(f)
    BY <2>4, <2>6, Zenon
  <2> QED BY <2>7
<1>2. Rule(kept)
  BY <1>1
<1>3. Without(s, ks) = kept[Len(s)]
  BY DEF Without
<1>4. /\ kept[0] = <<>>
      /\ \A n \in 1 .. Len(s) :
           kept[n] = IF s[n] \in ks THEN kept[n - 1] ELSE Append(kept[n - 1], s[n])
  <2> HIDE DEF kept
  <2>1. \A n \in 0 .. Len(s) :
          kept[n] = IF n = 0 THEN <<>>
                    ELSE IF s[n] \in ks THEN kept[n - 1] ELSE Append(kept[n - 1], s[n])
    BY <1>2, Zenon
  <2> HIDE DEF Rule
  <2> QED BY <1>0, <2>1
<1> HIDE DEF kept, Rule
<1> DEFINE Good(n) ==
      /\ kept[n] \in Seq(S)
      /\ \A a : a \in Members(kept[n]) <=> a \notin ks /\ \E p \in 1 .. n : s[p] = a
      /\ \A a, b : Before(kept[n], a, b) <=>
           /\ a \notin ks /\ b \notin ks
           /\ \E p, q \in 1 .. n : p < q /\ s[p] = a /\ s[q] = b
<1>5. Good(0)
  BY <1>4 DEF Members, Before
<1>6. ASSUME NEW n \in 1 .. Len(s), Good(n - 1) PROVE Good(n)
  <2>1. /\ n - 1 \in Nat /\ s[n] \in S /\ n \in Nat
        /\ \A p : p \in 1 .. n <=> p \in 1 .. n - 1 \/ p = n
        /\ \A p \in 1 .. n - 1 : p < n /\ ~(n < p)
    BY <1>0
  <2>2. CASE s[n] \in ks
    <3>1. kept[n] = kept[n - 1]
      BY <1>4, <2>2
    <3>2. \A a : a \notin ks => ((\E p \in 1 .. n : s[p] = a) <=> \E p \in 1 .. n - 1 : s[p] = a)
      BY <2>1, <2>2
    <3>3. \A a, b : a \notin ks /\ b \notin ks =>
            ((\E p, q \in 1 .. n : p < q /\ s[p] = a /\ s[q] = b)
               <=> \E p, q \in 1 .. n - 1 : p < q /\ s[p] = a /\ s[q] = b)
      BY <2>1, <2>2
    <3> QED BY <1>6, <3>1, <3>2, <3>3
  <2>3. CASE s[n] \notin ks
    <3>1. /\ kept[n] \in Seq(S)
          /\ \A a : a \in Members(kept[n]) <=> a \in Members(kept[n - 1]) \/ a = s[n]
          /\ \A a, b : Before(kept[n], a, b) <=>
               Before(kept[n - 1], a, b) \/ (a \in Members(kept[n - 1]) /\ b = s[n])
      <4> DEFINE t == kept[n - 1]
                 e == s[n]
      <4>1. kept[n] = Append(t, e) /\ t \in Seq(S) /\ e \in S
        BY <1>4, <1>6, <2>1, <2>3
      <4> HIDE DEF t, e
      <4>2. /\ Append(t, e) \in Seq(S)
            /\ Members(Append(t, e)) = Members(t) \cup {e}
            /\ \A a, b : Before(Append(t, e), a, b)
                           <=> Before(t, a, b) \/ (a \in Members(t) /\ b = e)
        BY <4>1, AppendOrder
      <4>3. \A a : a \in Members(kept[n]) <=> a \in Members(t) \/ a = e
        BY <4>1, <4>2
      <4> QED BY <4>1, <4>2, <4>3 DEF t, e
    <3>2. ASSUME NEW a
          PROVE  a \in Members(kept[n]) <=> a \notin ks /\ \E p \in 1 .. n : s[p] = a
      BY <1>6, <2>1, <2>3, <3>1
    <3>3. ASSUME NEW a, NEW b
          PROVE  Before(kept[n], a, b) <=>
                   /\ a \notin ks /\ b \notin ks
                   /\ \E p, q \in 1 .. n : p < q /\ s[p] = a /\ s[q] = b
      <4>1. (\E p, q \in 1 .. n : p < q /\ s[p] = a /\ s[q] = b) <=>
              \/ \E p, q \in 1 .. n - 1 : p < q /\ s[p] = a /\ s[q] = b
              \/ s[n] = b /\ \E p \in 1 .. n - 1 : s[p] = a
        BY <2>1
      <4> QED BY <1>6, <2>3, <3>1, <4>1
    <3> QED BY <3>1, <3>2, <3>3
  <2> QED BY <2>2, <2>3
<1> HIDE DEF Good
<1>7. Good(Len(s))
  <2> DEFINE Bad == {n \in 0 .. Len(s) : ~Good(n)}
  <2> SUFFICES ASSUME Bad # {} PROVE FALSE
    BY <1>0
  <2>1. PICK m \in Bad : \A n \in Bad : m <= n
    <3>1. Bad \in SUBSET Nat
      BY <1>0
    <3> HIDE DEF Bad
    <3> QED BY <3>1, LeastNumber
  <2>2. m \in 1 .. Len(s)
    BY <1>0, <1>5, <2>1
  <2>3. m - 1 \in 0 .. Len(s) /\ m - 1 \notin Bad
    BY <1>0, <2>1, <2>2
  <2> QED BY <1>6, <2>1, <2>2, <2>3
<1>8. /\ \A a : a \in Members(s) <=> \E p \in 1 .. Len(s) : s[p] = a
      /\ \A a, b : Before(s, a, b) <=> \E p, q \in 1 .. Len(s) : p < q /\ s[p] = a /\ s[q] = b
  BY <1>0 DEF Members, Before
<1> QED BY <1>3, <1>7, <1>8 DEF Good

(* t is s with k moved or put to its front. *)
Fronted(t, s, k) ==
  /\ Members(t) = Members(s) \cup {k}
  /\ \A a, b : Before(t, a, b) <=> \/ a = k /\ b \in Members(s) \ {k}
                                   \/ Before(s, a, b) /\ a # k /\ b # k

LEMMA ToFrontOrder ==
  ASSUME NEW S, NEW s \in Seq(S), NEW k \in S
  PROVE  ToFront(s, k) \in Seq(S) /\ Fronted(ToFront(s, k), s, k)
<1> DEFINE t == Without(s, {k})
<1>1. /\ t \in Seq(S)
      /\ Members(t) = Members(s) \ {k}
      /\ \A a, b : Before(t, a, b) <=> Before(s, a, b) /\ a # k /\ b # k
  BY WithoutKeeps
<1> DEFINE u == <<k>> \o t
<1> HIDE DEF t
<1>2. /\ u \in Seq(S) /\ Len(t) \in Nat
      /\ DOMAIN t = 1 .. Len(t) /\ DOMAIN u = 1 .. Len(t) + 1
      /\ u[1] = k /\ \A p \in 1 .. Len(t) : u[p + 1] = t[p]
  BY <1>1
<1> HIDE DEF u
<1>3. \A p \in DOMAIN u : p = 1 \/ (p - 1 \in DOMAIN t /\ u[p] = t[p - 1])
  BY <1>2
<1>4. Members(u) = Members(t) \cup {k}
  <2>1. ASSUME NEW p \in DOMAIN u PROVE u[p] \in Members(t) \cup {k}
    BY <1>2, <1>3 DEF Members
  <2>2. ASSUME NEW p \in DOMAIN t PROVE t[p] \in Members(u)
    <3>1. p + 1 \in DOMAIN u /\ u[p + 1] = t[p]
      BY <1>2
    <3> QED BY <3>1 DEF Members
  <2>3. k \in Members(u)
    BY <1>2 DEF Members
  <2>4. Members(u) \subseteq Members(t) \cup {k} /\ Members(t) \subseteq Members(u)
    BY <2>1, <2>2 DEF Members
  <2> QED BY <2>3, <2>4
<1>5. ASSUME NEW a, NEW b
      PROVE  Before(u, a, b) <=> (a = k /\ b \in Members(t)) \/ Before(t, a, b)
  <2>1. ASSUME NEW p \in DOMAIN u, NEW q \in DOMAIN u, p < q, u[p] = a, u[q] = b
        PROVE  (a = k /\ b \in Members(t)) \/ Before(t, a, b)
    <3>1. q - 1 \in DOMAIN t /\ t[q - 1] = b
      BY <1>2, <1>3, <2>1
    <3>2. p = 1 \/ (p - 1 \in DOMAIN t /\ t[p - 1] = a /\ p - 1 < q - 1)
      BY <1>2, <1>3, <2>1
    <3> QED BY <1>2, <2>1, <3>1, <3>2 DEF Members, Before
  <2>2. ASSUME a = k, NEW q \in DOMAIN t, t[q] = b PROVE Before(u, a, b)
    <3>1. 1 \in DOMAIN u /\ q + 1 \in DOMAIN u /\ 1 < q + 1 /\ u[1] = a /\ u[q + 1] = b
      BY <1>2, <2>2
    <3> QED BY <3>1 DEF Before
  <2>3. ASSUME NEW p \in DOMAIN t, NEW q \in DOMAIN t, p < q, t[p] = a, t[q] = b
        PROVE  Before(u, a, b)
    <3>1. p + 1 \in DOMAIN u /\ q + 1 \in DOMAIN u /\ p + 1 < q + 1
          /\ u[p + 1] = a /\ u[q + 1] = b
      BY <1>2, <2>3
    <3> QED BY <3>1 DEF Before
  <2> QED BY <2>1, <2>2, <2>3 DEF Before, Members
<1>6. ToFront(s, k) = u
  BY DEF ToFront, u, t
<1>7. Members(u) = Members(s) \cup {k}
  BY <1>1, <1>4
<1>8. ASSUME NEW a, NEW b
      PROVE  Before(u, a, b) <=> \/ a = k /\ b \in Members(s) \ {k}
                                 \/ Before(s, a, b) /\ a # k /\ b # k
  <2>1. Before(u, a, b) <=> (a = k /\ b \in Members(t)) \/ Before(t, a, b)
    BY <1>5
  <2>2. Before(t, a, b) <=> Before(s, a, b) /\ a # k /\ b # k
    BY <1>1
  <2>3. b \in Members(t) <=> b \in Members(s) \ {k}
    BY <1>1
  <2> QED BY <2>1, <2>2, <2>3
<1> QED
  <2>1. Fronted(u, s, k)
    BY <1>7, <1>8 DEF Fronted
  <2> QED BY <1>2, <1>6, <2>1

(* A list without repetitions is as long as the set of its elements.       *)
LEMMA LengthOfSet ==
  ASSUME NEW S, NEW s \in Seq(S), \A k \in S : ~Before(s, k, k)
  PROVE  IsFiniteSet(Members(s)) /\ Cardinality(Members(s)) = Len(s)
<1>1. Len(s) \in Nat /\ DOMAIN s = 1 .. Len(s) /\ \A p \in 1 .. Len(s) : s[p] \in S
  OBVIOUS
<1>2. ASSUME NEW p \in 1 .. Len(s), NEW q \in 1 .. Len(s), s[p] = s[q] PROVE p = q
  <2>1. ~(p < q) /\ ~(q < p)
    BY <1>1, <1>2 DEF Before
  <2> QED BY <1>1, <2>1
<1>3. s \in Bijection(1 .. Len(s), Members(s))
  <2>1. s \in [1 .. Len(s) -> Members(s)]
    BY <1>1 DEF Members
  <2>2. \A x \in Members(s) : \E p \in 1 .. Len(s) : s[p] = x
    BY <1>1 DEF Members
  <2> QED BY <1>2, <2>1, <2>2 DEF Bijection, Injection, Surjection, IsInjective
<1>4. IsFiniteSet(1 .. Len(s)) /\ Cardinality(1 .. Len(s)) = Len(s)
  BY <1>1, FS_Interval
<1> QED BY <1>3, <1>4, FS_Bijection DEF ExistsBijection

-----------------------------------------------------------------------------
(* The invariant. *)

(* The list holds what the map holds, once.                                *)
MatchInv == Members(lru) = DOMAIN items /\ \A k \in Keys : ~Before(lru, k, k)

(* The order of the list is the order of use: the elements that have left  *)
(* are missing, the others stand as they were touched.                     *)
OrderInv ==
  /\ Members(lru) \subseteq Members(used)
  /\ \A a, b \in Keys : Before(lru, a, b) => Before(used, a, b)

ListInv == TypeOK /\ MatchInv /\ OrderInv /\ WithinCapacity

LEMMA ItemTypes ==
  ASSUME TypeOK
  PROVE  /\ DOMAIN items \in SUBSET Keys
         /\ \A k \in DOMAIN items : items[k] \in Entry
  BY DEF TypeOK

(* The map, the list and their lengths agree. *)
LEMMA MatchedLengths ==
  ASSUME TypeOK, MatchInv
  PROVE  /\ IsFiniteSet(DOMAIN items)
         /\ Len(lru) = Cardinality(DOMAIN items)
         /\ Len(lru) \in Nat
         /\ lru # <<>> => lru[Len(lru)] \in DOMAIN items
<1>1. lru \in Seq(Keys)
  BY DEF TypeOK
<1>2. IsFiniteSet(Members(lru)) /\ Cardinality(Members(lru)) = Len(lru)
  BY <1>1, LengthOfSet DEF MatchInv
<1>3. lru # <<>> => lru[Len(lru)] \in Members(lru)
  BY <1>1 DEF Members
<1> QED BY <1>1, <1>2, <1>3 DEF MatchInv

LEMMA ListInit == Init => ListInv
<1> SUFFICES ASSUME Init PROVE ListInv
  OBVIOUS
<1>1. TypeOK
  <2>1. items \in [{} -> Entry] /\ {} \in SUBSET Keys
    BY DEF Init
  <2>2. lru \in Seq(Keys) /\ used \in Seq(Keys) /\ now \in 1 .. Horizon
    BY DEF Init
  <2> QED BY <2>1, <2>2 DEF Init, TypeOK
<1>2. Members(<<>>) = {} /\ \A a, b : ~Before(<<>>, a, b)
  BY DEF Members, Before
<1>3. DOMAIN items = {}
  BY DEF Init
<1> QED BY <1>1, <1>2, <1>3 DEF ListInv, MatchInv, OrderInv, WithinCapacity, Init

(* A step that removes some keys from the map and from the list.           *)
LEMMA RemovalStep ==
  ASSUME ListInv, NEW ks, lru' = Without(lru, ks),
         items' = [k \in DOMAIN items \ ks |-> items[k]],
         used' = used, now' = now,
         answer' \in [of : Keys, val : Vals \cup {None}] \cup {None}
  PROVE  ListInv'
<1>1. TypeOK /\ MatchInv /\ OrderInv /\ WithinCapacity /\ lru \in Seq(Keys)
  BY DEF ListInv, TypeOK
<1>2. /\ lru' \in Seq(Keys)
      /\ Members(lru') = Members(lru) \ ks
      /\ \A a, b : Before(lru', a, b) <=> Before(lru, a, b) /\ a \notin ks /\ b \notin ks
  BY <1>1, WithoutKeeps
<1>3. DOMAIN items' = DOMAIN items \ ks
  OBVIOUS
<1>4. TypeOK'
  <2>1. DOMAIN items \ ks \in SUBSET Keys
    BY <1>1, ItemTypes
  <2>2. items' \in [DOMAIN items \ ks -> Entry]
    BY <1>1, ItemTypes
  <2> QED BY <1>1, <1>2, <2>1, <2>2 DEF TypeOK
<1>5. MatchInv'
  BY <1>1, <1>2, <1>3 DEF MatchInv
<1>6. OrderInv'
  BY <1>1, <1>2 DEF OrderInv
<1>7. WithinCapacity'
  <2>1. Len(lru') = Cardinality(DOMAIN items \ ks) /\ Len(lru') \in Nat
    <3>1. PICK s \in Seq(Keys) : s = lru'
      BY <1>2
    <3>2. \A k \in Keys : ~Before(s, k, k)
      BY <1>5, <3>1 DEF MatchInv, Before
    <3>3. Cardinality(Members(s)) = Len(s) /\ Len(s) \in Nat
      BY <3>1, <3>2, LengthOfSet
    <3> QED BY <1>3, <1>5, <3>1, <3>3 DEF MatchInv, Members
  <2>2. Cardinality(DOMAIN items \ ks) <= Cardinality(DOMAIN items)
    BY <1>1, MatchedLengths, FS_Subset
  <2>3. Len(lru) = Cardinality(DOMAIN items) /\ Len(lru) \in Nat
    BY <1>1, MatchedLengths
  <2> QED BY <1>1, <2>1, <2>2, <2>3 DEF WithinCapacity
<1> QED BY <1>4, <1>5, <1>6, <1>7 DEF ListInv

(* A step that moves a key of the list to its front.                       *)
LEMMA TouchStep ==
  ASSUME ListInv, NEW k \in DOMAIN items, lru' = ToFront(lru, k),
         used' = ToFront(used, k),
         DOMAIN items' = DOMAIN items, TypeOK'
  PROVE  ListInv'
<1>1. TypeOK /\ MatchInv /\ OrderInv /\ WithinCapacity
      /\ lru \in Seq(Keys) /\ used \in Seq(Keys) /\ k \in Keys
  BY ItemTypes DEF ListInv, TypeOK
<1>2. Fronted(lru', lru, k)
  BY <1>1, ToFrontOrder
<1>3. Fronted(used', used, k)
  BY <1>1, ToFrontOrder
<1>4. MatchInv'
  BY <1>1, <1>2 DEF MatchInv, Fronted
<1>5. OrderInv'
  BY <1>1, <1>2, <1>3 DEF OrderInv, Fronted
<1>6. WithinCapacity'
  <2>1. PICK s \in Seq(Keys) : s = lru'
    BY DEF TypeOK
  <2>2. \A j \in Keys : ~Before(s, j, j)
    BY <1>4, <2>1 DEF MatchInv, Before
  <2>3. Cardinality(Members(s)) = Len(s)
    BY <2>1, <2>2, LengthOfSet
  <2>4. Members(s) = DOMAIN items
    BY <1>4, <2>1 DEF MatchInv, Members
  <2>5. Len(lru) = Cardinality(DOMAIN items)
    BY <1>1, MatchedLengths
  <2> QED BY <1>1, <2>1, <2>3, <2>4, <2>5 DEF WithinCapacity
<1> QED BY <1>4, <1>5, <1>6 DEF ListInv

(* What evict removes is in the list, and leaves room for one.             *)
LEMMA EvictedRoom ==
  ASSUME ListInv, NEW k \in Keys, k \notin DOMAIN items
  PROVE  /\ Evicted(k) \subseteq DOMAIN items
         /\ Cap > 0 => Cardinality(DOMAIN items \ Evicted(k)) < Cap
<1>1. TypeOK /\ MatchInv /\ WithinCapacity
  BY DEF ListInv
<1>2. /\ IsFiniteSet(DOMAIN items) /\ Len(lru) = Cardinality(DOMAIN items)
      /\ Len(lru) \in Nat /\ (lru # <<>> => lru[Len(lru)] \in DOMAIN items)
  BY <1>1, MatchedLengths
<1>3. Evicted(k) \subseteq DOMAIN items
  BY <1>2 DEF Evicted
<1>4. ASSUME Cap > 0 PROVE Cardinality(DOMAIN items \ Evicted(k)) < Cap
  <2>1. CASE Len(lru) < Cap
    <3>1. Evicted(k) = {}
      BY <1>2, <2>1 DEF Evicted
    <3>2. DOMAIN items \ {} = DOMAIN items
      OBVIOUS
    <3> QED BY <1>2, <2>1, <3>1, <3>2
  <2>2. CASE Len(lru) >= Cap
    <3>1. Len(lru) = Cap /\ lru # <<>>
      BY <1>1, <1>2, <1>4, <2>2 DEF WithinCapacity, TypeOK
    <3>2. Evicted(k) = {lru[Len(lru)]}
      BY <1>4, <3>1, <2>2 DEF Evicted
    <3>3. Cardinality(DOMAIN items \ {lru[Len(lru)]}) = Cardinality(DOMAIN items) - 1
      BY <1>2, <3>1, FS_RemoveElement
    <3>4. Cardinality(DOMAIN items \ Evicted(k)) = Cap - 1
      BY <1>2, <3>1, <3>2, <3>3
    <3> QED BY <3>4
  <2> QED BY <1>2, <2>1, <2>2
<1> QED BY <1>3, <1>4

(* Set, which may evict. *)
LEMMA SetStep ==
  ASSUME ListInv, NEW k \in Keys, NEW v \in Vals, NEW ttl \in TTLs, Set(k, v, ttl)
  PROVE  ListInv'
<1> DEFINE rest == DOMAIN items \ Evicted(k)
           mid == Without(lru, Evicted(k))
<1>1. TypeOK /\ MatchInv /\ OrderInv /\ WithinCapacity
      /\ lru \in Seq(Keys) /\ used \in Seq(Keys) /\ DOMAIN items \in SUBSET Keys
  BY ItemTypes DEF ListInv, TypeOK
<1>2. /\ mid \in Seq(Keys)
      /\ Members(mid) = Members(lru) \ Evicted(k)
      /\ \A a, b : Before(mid, a, b)
                     <=> Before(lru, a, b) /\ a \notin Evicted(k) /\ b \notin Evicted(k)
  BY <1>1, WithoutKeeps
<1>3. lru' = ToFront(mid, k) /\ used' = ToFront(used, k) /\ DOMAIN items' = rest \cup {k}
  BY DEF Set
<1> HIDE DEF mid
<1>4. lru' \in Seq(Keys) /\ Fronted(lru', mid, k)
  BY <1>2, <1>3, ToFrontOrder
<1>5. used' \in Seq(Keys) /\ Fronted(used', used, k)
  BY <1>1, <1>3, ToFrontOrder
<1>6. TypeOK'
  <2>1. [val |-> v, expires |-> Deadline(ttl)] \in Entry
    BY <1>1 DEF Entry, Deadline, Never, TypeOK
  <2>2. items' \in [rest \cup {k} -> Entry] /\ rest \cup {k} \in SUBSET Keys
    BY <1>1, <2>1, ItemTypes DEF Set
  <2>3. now' = now /\ answer' = None
    BY DEF Set
  <2> QED BY <1>1, <1>4, <1>5, <2>2, <2>3 DEF TypeOK
<1>7. MatchInv'
  BY <1>1, <1>2, <1>3, <1>4 DEF MatchInv, Fronted
<1>8. OrderInv'
  BY <1>1, <1>2, <1>4, <1>5 DEF OrderInv, Fronted
<1>9. WithinCapacity'
  <2>1. PICK s \in Seq(Keys) : s = lru'
    BY <1>4
  <2>2. \A j \in Keys : ~Before(s, j, j)
    BY <1>7, <2>1 DEF MatchInv, Before
  <2>3. Cardinality(Members(s)) = Len(s)
    BY <2>1, <2>2, LengthOfSet
  <2>4. Members(s) = rest \cup {k}
    BY <1>3, <1>7, <2>1 DEF MatchInv, Members
  <2>5. IsFiniteSet(DOMAIN items) /\ Len(lru) = Cardinality(DOMAIN items)
    BY <1>1, MatchedLengths
  <2>6. CASE k \in DOMAIN items
    <3>1. rest \cup {k} = DOMAIN items
      BY <2>6 DEF Evicted
    <3> QED BY <1>1, <2>1, <2>3, <2>4, <2>5, <3>1 DEF WithinCapacity
  <2>7. CASE k \notin DOMAIN items
    <3>1. Cap > 0 => Cardinality(rest) < Cap
      BY <2>7, EvictedRoom
    <3>2. IsFiniteSet(rest) /\ Cardinality(rest) \in Nat
      BY <2>5, FS_Subset, FS_CardinalityType
    <3>3. Cardinality(rest \cup {k}) = Cardinality(rest) + 1
      BY <2>7, <3>2, FS_AddElement
    <3> QED BY <2>1, <2>3, <2>4, <3>1, <3>2, <3>3 DEF WithinCapacity
  <2> QED BY <2>6, <2>7
<1> QED BY <1>6, <1>7, <1>8, <1>9 DEF ListInv

(* Get, which may find the entry too old. *)
LEMMA GetStep == ASSUME ListInv, NEW k \in Keys, Get(k) PROVE ListInv'
<1>1. CASE k \notin DOMAIN items
  BY <1>1 DEF Get, ListInv, TypeOK, MatchInv, OrderInv, WithinCapacity
<1>2. CASE k \in DOMAIN items /\ Expired(items[k])
  <2>1. items' = [j \in DOMAIN items \ {k} |-> items[j]]
    <3>1. DOMAIN items \cap (Keys \ {k}) = DOMAIN items \ {k}
      BY ItemTypes DEF ListInv
    <3> QED BY <1>2, <3>1 DEF Get, Only
  <2> QED BY <1>2, <2>1, RemovalStep DEF Get
<1>3. CASE k \in DOMAIN items /\ ~Expired(items[k])
  <2>1. TypeOK'
    <3>1. items[k].val \in Vals
      BY <1>3, ItemTypes DEF ListInv, Entry
    <3>2. ToFront(lru, k) \in Seq(Keys) /\ ToFront(used, k) \in Seq(Keys)
      BY ToFrontOrder DEF ListInv, TypeOK
    <3> QED BY <1>3, <3>1, <3>2 DEF Get, ListInv, TypeOK
  <2> QED BY <1>3, <2>1, TouchStep DEF Get
<1> QED BY <1>1, <1>2, <1>3

(* Delete, DeletePrefix and Flush. *)
LEMMA RemoveStep ==
  ASSUME ListInv, NEW ks, Remove(ks) PROVE ListInv'
<1>1. DOMAIN items \cap (Keys \ ks) = DOMAIN items \ ks
  BY ItemTypes DEF ListInv
<1>2. items' = [k \in DOMAIN items \ ks |-> items[k]]
  BY <1>1 DEF Remove, Only
<1> QED BY <1>2, RemovalStep DEF Remove, ListInv, TypeOK

LEMMA FlushStep == ASSUME ListInv, Flush PROVE ListInv'
<1>1. Members(<<>>) = {} /\ \A a, b : ~Before(<<>>, a, b)
  BY DEF Members, Before
<1>2. DOMAIN items' = {} /\ lru' = <<>> /\ answer' = None /\ UNCHANGED <<now, used>>
  BY DEF Flush
<1>3. TypeOK'
  <2>1. items' \in [{} -> Entry] /\ {} \in SUBSET Keys /\ <<>> \in Seq(Keys)
    BY DEF Flush
  <2> QED BY <1>2, <2>1 DEF ListInv, TypeOK
<1> QED BY <1>1, <1>2, <1>3 DEF ListInv, MatchInv, OrderInv, WithinCapacity

LEMMA ListNext == ListInv /\ [Next]_vars => ListInv'
<1> SUFFICES ASSUME ListInv, [Next]_vars PROVE ListInv'
  OBVIOUS
<1>1. CASE Tick \/ UNCHANGED vars
  BY <1>1 DEF Tick, vars, ListInv, TypeOK, MatchInv, OrderInv, WithinCapacity
<1> QED BY <1>1, GetStep, SetStep, RemoveStep, FlushStep DEF Next, Delete, DeletePrefix

LEMMA Invariance == Spec => []ListInv
BY ListInit, ListNext, PTL DEF Spec

(* Every variable keeps its type. *)
THEOREM TypeCorrect == Spec => []TypeOK
BY Invariance, PTL DEF ListInv

(* The map and the list of a store hold the same keys, each of them once,  *)
(* whatever removes one of them (store.go:62, :86, :97, :107, :116).       *)
THEOREM ListsMatchMaps == Spec => []ListMatchesMap
<1>1. ListInv => ListMatchesMap
  <2> SUFFICES ASSUME ListInv PROVE ListMatchesMap
    OBVIOUS
  <2>1. Len(lru) = Cardinality(DOMAIN items)
    BY MatchedLengths DEF ListInv
  <2>2. \A k \in Keys : k \in DOMAIN items <=> \E i \in DOMAIN lru : lru[i] = k
    BY DEF ListInv, MatchInv, Members
  <2> QED BY <2>1, <2>2 DEF ListMatchesMap
<1> QED BY <1>1, Invariance, PTL

(* A store never holds more than its capacity (store.go:85).               *)
THEOREM CapacityIsKept == Spec => []WithinCapacity
BY Invariance, PTL DEF ListInv

-----------------------------------------------------------------------------
(* What is pushed out. *)

(* Only Set adds a key, and what it evicts is the last of the list. *)
LEMMA EvictsStep ==
  ASSUME ListInv, [Next]_vars,
         NEW k \in DOMAIN items' \ DOMAIN items, NEW j \in DOMAIN items \ DOMAIN items'
  PROVE  /\ Cap > 0
         /\ Len(lru) = Cap
         /\ \A i \in DOMAIN items \ {j} : Older(j, i)
<1>1. PICK n \in Keys, v \in Vals, ttl \in TTLs : Set(n, v, ttl)
  BY DEF Next, Get, Delete, DeletePrefix, Remove, Only, Flush, Tick, vars
<1>2. /\ TypeOK /\ MatchInv /\ OrderInv /\ WithinCapacity
      /\ lru \in Seq(Keys) /\ DOMAIN items \in SUBSET Keys
  BY ItemTypes DEF ListInv, TypeOK
<1>3. DOMAIN items' = (DOMAIN items \ Evicted(n)) \cup {n}
  BY <1>1 DEF Set
<1>4. j \in Evicted(n)
  BY <1>3
<1>5. Cap > 0 /\ Len(lru) >= Cap /\ j = lru[Len(lru)] /\ lru # <<>>
  BY <1>4 DEF Evicted
<1>6. Len(lru) = Cap
  BY <1>2, <1>5 DEF WithinCapacity
<1>7. ASSUME NEW i \in DOMAIN items \ {j} PROVE Older(j, i)
  <2>1. PICK m \in DOMAIN lru : lru[m] = i
    BY <1>2, <1>7 DEF MatchInv, Members
  <2>2. Len(lru) \in DOMAIN lru /\ m < Len(lru)
    BY <1>2, <1>5, <1>7, <2>1
  <2>3. Before(lru, i, j)
    BY <1>5, <2>1, <2>2 DEF Before
  <2>4. Before(used, i, j)
    BY <1>2, <1>7, <2>3 DEF OrderInv
  <2> QED BY <2>4 DEF Before, Older
<1> QED BY <1>5, <1>6, <1>7

(* A new key pushes another one out only when the store is full, and then  *)
(* the one that was got or set least recently (store.go:85, :126).         *)
THEOREM OldestIsEvicted == Spec => EvictsOldest
<1>1. ListInv /\ [Next]_vars =>
        [\A k \in DOMAIN items' \ DOMAIN items, j \in DOMAIN items \ DOMAIN items' :
           /\ Cap > 0
           /\ Len(lru) = Cap
           /\ \A i \in DOMAIN items \ {j} : Older(j, i)]_vars
  BY EvictsStep
<1> QED BY <1>1, Invariance, PTL DEF Spec, EvictsOldest

-----------------------------------------------------------------------------
(* The store implements TTLMap. *)

LEMMA MapInit == Init => Map!Init
BY DEF Init, Map!Init, Live

(* An entry is old when it has no time left, and an entry that is set has  *)
(* the time that was asked for.                                            *)
LEMMA OldIsOver ==
  ASSUME TypeOK, NEW k \in Keys
  PROVE  /\ k \notin DOMAIN items \/ Expired(items[k]) => Live(k) = None
         /\ k \in DOMAIN items /\ ~Expired(items[k]) =>
              /\ Live(k) # None
              /\ Live(k).val = items[k].val
<1>1. CASE k \notin DOMAIN items
  BY <1>1 DEF Live
<1>2. CASE k \in DOMAIN items
  <2>1. items[k] \in Entry /\ now \in Nat
    BY <1>2, ItemTypes DEF TypeOK
  <2>2. items[k].expires \in Nat /\ items[k].val \in Vals
    BY <2>1 DEF Entry
  <2>3. ASSUME NEW left \in Int PROVE [val |-> items[k].val, left |-> left] # None
    BY <2>2, NoneAssumption
  <2>4. items[k].expires - now \in Int /\ -1 \in Int
    BY <2>1, <2>2
  <2> QED BY <1>2, <2>1, <2>2, <2>3, <2>4 DEF Live, Expired, Never
<1> QED BY <1>1, <1>2

LEMMA FreshEntry ==
  ASSUME TypeOK, NEW k \in Keys, NEW v \in Vals, NEW ttl \in TTLs, Set(k, v, ttl)
  PROVE  Live(k)' = [val |-> v, left |-> Map!Life(ttl)]
<1>1. /\ k \in DOMAIN items' /\ now' = now /\ now \in Nat \ {0}
      /\ items'[k] = [val |-> v, expires |-> Deadline(ttl)]
  BY DEF Set, TypeOK
<1>2. ttl \in Int /\ DefaultTTL \in Int
  OBVIOUS
<1>3. CASE ttl > 0
  <2>1. Map!Life(ttl) = ttl
    BY <1>2, <1>3 DEF Map!Life
  <2>2. Deadline(ttl) = now + ttl /\ now + ttl # Never /\ now + ttl >= now /\ (now + ttl) - now = ttl
    BY <1>1, <1>2, <1>3 DEF Deadline, Never
  <2> QED BY <1>1, <2>1, <2>2 DEF Live
<1>4. CASE ~(ttl > 0) /\ DefaultTTL > 0
  <2>1. Map!Life(ttl) = DefaultTTL
    BY <1>2, <1>4 DEF Map!Life
  <2>2. /\ Deadline(ttl) = now + DefaultTTL /\ now + DefaultTTL # Never
        /\ now + DefaultTTL >= now /\ (now + DefaultTTL) - now = DefaultTTL
    BY <1>1, <1>2, <1>4 DEF Deadline, Never
  <2> QED BY <1>1, <2>1, <2>2 DEF Live
<1>5. CASE ~(ttl > 0) /\ ~(DefaultTTL > 0)
  <2>1. Map!Life(ttl) = -1
    BY <1>2, <1>5 DEF Map!Life, Map!Forever
  <2>2. Deadline(ttl) = Never
    BY <1>5 DEF Deadline
  <2> QED BY <1>1, <2>1, <2>2 DEF Live
<1> QED BY <1>3, <1>4, <1>5

(* A step that answers nothing and loses some keys. *)
LEMMA LossStep ==
  ASSUME answer' = None, NEW ks \in SUBSET Keys,
         \A k \in Keys : Live(k)' = IF k \in ks THEN None ELSE Live(k)
  PROVE  Map!Next
<1>1. Map!Lose(ks)
  BY DEF Map!Lose, Map!Without
<1> QED BY <1>1 DEF Map!Next

LEMMA MapGet == ASSUME ListInv, NEW k \in Keys, Get(k) PROVE Map!Next
<1>1. Live(k) = None => k \notin DOMAIN items \/ Expired(items[k])
  BY OldIsOver DEF ListInv
<1>2. answer' = [of |-> k, val |-> IF Live(k) = None THEN None ELSE Live(k).val]
  BY <1>1, OldIsOver DEF Get, ListInv
<1>3. ASSUME NEW j \in Keys PROVE Live(j)' = Live(j)
  <2>1. CASE UNCHANGED items
    BY <2>1 DEF Get, Live
  <2>2. CASE k \in DOMAIN items /\ Expired(items[k]) /\ items' = Only(Keys \ {k})
    <3>1. CASE j = k
      <4>1. Live(k)' = None
        BY <2>2 DEF Only, Live
      <4> QED BY <2>2, <3>1, <4>1, OldIsOver DEF ListInv
    <3>2. CASE j # k
      BY <2>2, <3>2 DEF Get, Only, Live
    <3> QED BY <3>1, <3>2
  <2> QED BY <2>1, <2>2 DEF Get
<1>4. Map!Get(k)
  BY <1>2, <1>3 DEF Map!Get
<1> QED BY <1>4 DEF Map!Next

LEMMA MapSet ==
  ASSUME ListInv, NEW k \in Keys, NEW v \in Vals, NEW ttl \in TTLs, Set(k, v, ttl)
  PROVE  Map!Next
<1>1. /\ Evicted(k) \in SUBSET (Keys \ {k})
      /\ \A i, j \in Evicted(k) : i = j
  <2>1. Evicted(k) \subseteq DOMAIN items /\ (k \in DOMAIN items => Evicted(k) = {})
    BY EvictedRoom DEF Evicted
  <2>2. DOMAIN items \in SUBSET Keys
    BY ItemTypes DEF ListInv
  <2> QED BY <2>1, <2>2 DEF Evicted
<1>2. Live(k)' = [val |-> v, left |-> Map!Life(ttl)]
  BY FreshEntry DEF ListInv
<1>3. ASSUME NEW j \in Keys \ {k}
      PROVE  Live(j)' = IF j \in Evicted(k) THEN None ELSE Live(j)
  BY <1>3 DEF Set, Live
<1>4. answer' = None
  BY DEF Set
<1>5. Map!Set(k, v, ttl)
  BY <1>1, <1>2, <1>3, <1>4 DEF Map!Set, Map!Without
<1> QED BY <1>5 DEF Map!Next

(* With a step of the clock every entry has less time, or none. *)
LEMMA MapTick == ASSUME ListInv, Tick PROVE Map!Next
<1>1. now' = now + 1 /\ now \in Nat /\ items' = items /\ answer' = None
  BY DEF Tick, ListInv, TypeOK
<1>2. ASSUME NEW k \in Keys
      PROVE  Live(k)' = IF Live(k) = None THEN None
                        ELSE IF Live(k).left = 0 THEN None
                        ELSE IF Live(k).left = -1 THEN Live(k)
                        ELSE [Live(k) EXCEPT !.left = @ - 1]
  <2>1. CASE k \notin DOMAIN items
    BY <1>1, <2>1 DEF Live
  <2>2. CASE k \in DOMAIN items
    <3>1. PICK n \in Nat : n = items[k].expires
      BY <2>2, ItemTypes DEF ListInv, Entry
    <3>2. items[k].val \in Vals
      BY <2>2, ItemTypes DEF ListInv, Entry
    <3>3. ASSUME NEW left \in Int PROVE [val |-> items[k].val, left |-> left] # None
      BY <3>2, NoneAssumption
    <3>4. CASE n = Never
      BY <1>1, <2>2, <3>1, <3>3, <3>4 DEF Live
    <3>5. CASE n # Never /\ n > now
      <4>1. n - now \in Int /\ n - now # 0 /\ n - now # -1 /\ n >= now /\ n >= now + 1
            /\ (n - now) - 1 = n - (now + 1)
        BY <1>1, <3>5
      <4> QED BY <1>1, <2>2, <3>1, <3>3, <3>5, <4>1 DEF Live
    <3>6. CASE n # Never /\ n = now
      <4>1. n - now = 0 /\ 0 \in Int /\ n >= now /\ ~(n >= now + 1)
        BY <1>1, <3>6
      <4> QED BY <1>1, <2>2, <3>1, <3>3, <3>6, <4>1 DEF Live
    <3>7. CASE n # Never /\ n < now
      <4>1. ~(n >= now) /\ ~(n >= now + 1)
        BY <1>1, <3>7
      <4> QED BY <1>1, <2>2, <3>1, <3>7, <4>1 DEF Live
    <3> QED BY <1>1, <3>4, <3>5, <3>6, <3>7
  <2> QED BY <2>1, <2>2
<1>3. Map!Tick
  BY <1>1, <1>2 DEF Map!Tick, Map!Forever
<1> QED BY <1>3 DEF Map!Next

LEMMA MapNext == ASSUME ListInv, [Next]_vars PROVE [Map!Next]_(Map!vars)
<1>1. ASSUME NEW ks \in SUBSET Keys, Remove(ks) PROVE Map!Next
  <2>1. \A k \in Keys : Live(k)' = IF k \in ks THEN None ELSE Live(k)
    BY <1>1 DEF Remove, Only, Live
  <2> QED BY <1>1, <2>1, LossStep DEF Remove
<1>2. ASSUME Flush PROVE Map!Next
  <2>1. \A k \in Keys : Live(k)' = IF k \in Keys THEN None ELSE Live(k)
    BY <1>2 DEF Flush, Live
  <2> QED BY <1>2, <2>1, LossStep DEF Flush
<1>3. CASE UNCHANGED vars
  BY <1>3 DEF vars, Map!vars, Live
<1> QED BY <1>1, <1>2, <1>3, MapGet, MapSet, MapTick, StoreAssumptions DEF Next, Delete, DeletePrefix

(* A Get answers with the last value set for its key until its deadline,   *)
(* and never after it (store.go:51, :61, :72).                             *)
THEOREM Refinement == Spec => ImplementsTTLMap
BY MapInit, MapNext, Invariance, PTL DEF Spec, ImplementsTTLMap, Map!Spec

-----------------------------------------------------------------------------
(***************************************************************************)
(* The Redis store.                                                        *)
(***************************************************************************)
USE RedisAssumptions

(* A key that is due and still there is one the SCAN loop owes, or one of  *)
(* the batch it is about to delete.                                        *)
Left(w) == old[w] \cap sweep[w].keys \cap Present

SweepInv ==
  \A w \in Sweeps :
    /\ sweep[w].at = "scan" => Left(w) \subseteq sweep[w].owed
    /\ sweep[w].at = "del" => Left(w) \subseteq sweep[w].owed \cup sweep[w].batch
    /\ sweep[w].at = "last" => Left(w) \subseteq sweep[w].batch
    /\ sweep[w].at = "done" => Left(w) = {}

(* What a store is given, and what lies under its keys, was set through    *)
(* it, or through another store without a prefix if it has none.           *)
Kin(s) == {Nobody} \cup (IF s \in Prefixed THEN {s} ELSE Stores \ Prefixed)

OwnInv ==
  /\ \A s \in Stores, n \in Names : redis[key(s, n)] \in Kin(s)
  /\ \A s \in Stores : reply[s] \in Kin(s)

-----------------------------------------------------------------------------
(* Type correctness. *)

LEMMA SetsOfKeys ==
  ASSUME NEW s \in Stores
  PROVE  /\ {key(s, n) : n \in Names} \subseteq DBKeys
         /\ \A p \in Globs : {key(s, n) : n \in Matched[p]} \subseteq DBKeys
         /\ \A n \in Names : key(s, n) \in DBKeys
  BY DEF DBKeys

(* A step of a call of DeletePrefix or Flush. *)
Sweeping(w) ==
  \/ \E keys \in SUBSET DBKeys, due \in SUBSET DBKeys : Begin(w, keys, due)
  \/ Scan(w) \/ Del(w) \/ Fail(w)

(* The steps of the store, with what they begin made explicit. *)
LEMMA Steps ==
  ASSUME RedisTypeOK, RedisNext
  PROVE  \/ \E s \in Stores, n \in Names : RedisGet(s, n) \/ RedisSet(s, n) \/ RedisDelete(s, n)
         \/ \E k \in DBKeys : Expire(k)
         \/ Lose(DBKeys) /\ UNCHANGED <<sweep, reply, old>>
         \/ \E w \in Sweeps : Sweeping(w)
<1>1. ASSUME NEW w \in Sweeps, NEW s \in Stores, RedisFlush(w, s)
      PROVE  \/ Lose(DBKeys) /\ UNCHANGED <<sweep, reply, old>>
             \/ Sweeping(w)
  BY <1>1, SetsOfKeys DEF RedisFlush, Sweeping
<1>2. ASSUME NEW w \in Sweeps, NEW s \in Stores, NEW p \in Globs, RedisDeletePrefix(w, s, p)
      PROVE  Sweeping(w)
  <2>1. {key(s, n) : n \in Due[p]} \subseteq DBKeys
    BY DEF DBKeys
  <2>2. QED
    BY <1>2, <2>1, SetsOfKeys DEF RedisDeletePrefix, Sweeping
<1>3. QED
  BY <1>1, <1>2 DEF RedisNext, Sweeping

LEMMA RedisTypeInit == RedisInit => RedisTypeOK
  BY DEF RedisInit, RedisTypeOK, Idle, Places

LEMMA RedisTypeNext == RedisTypeOK /\ [RedisNext]_redisVars => RedisTypeOK'
<1> SUFFICES ASSUME RedisTypeOK, [RedisNext]_redisVars PROVE RedisTypeOK'
  OBVIOUS
<1> USE DEF RedisTypeOK, Places
<1>1. ASSUME NEW s \in Stores, NEW n \in Names, RedisGet(s, n) \/ RedisSet(s, n) \/ RedisDelete(s, n)
      PROVE  RedisTypeOK'
  BY <1>1, SetsOfKeys DEF RedisGet, RedisSet, RedisDelete, Lose
<1>2. ASSUME NEW k \in DBKeys, Expire(k) PROVE RedisTypeOK'
  BY <1>2 DEF Expire, Lose
<1>3. CASE Lose(DBKeys) /\ UNCHANGED <<sweep, reply, old>>
  BY <1>3 DEF Lose
<1>4. ASSUME NEW w \in Sweeps, Sweeping(w) PROVE RedisTypeOK'
  <2>1. ASSUME NEW keys \in SUBSET DBKeys, NEW due \in SUBSET DBKeys, Begin(w, keys, due)
        PROVE  RedisTypeOK'
    <3>1. Present \subseteq DBKeys
      BY DEF Present
    <3>2. QED
      BY <2>1, <3>1 DEF Begin
  <2>2. CASE Scan(w)
    <3>1. PICK batch \in SUBSET (sweep[w].keys \cap Present), more \in BOOLEAN :
            sweep' = [sweep EXCEPT
                        ![w].owed = (sweep[w].owed \cap Present) \ batch, ![w].batch = batch,
                        ![w].at = IF batch # {} THEN IF more THEN "del" ELSE "last"
                                  ELSE IF more THEN "scan" ELSE "done"]
      BY <2>2 DEF Scan
    <3> DEFINE at == IF batch # {} THEN IF more THEN "del" ELSE "last"
                     ELSE IF more THEN "scan" ELSE "done"
               r == [sweep[w] EXCEPT !.owed = (@ \cap Present) \ batch, !.batch = batch,
                                     !.at = at]
    <3>2. /\ at \in Places /\ batch \in SUBSET DBKeys
          /\ (sweep[w].owed \cap Present) \ batch \in SUBSET DBKeys
      BY DEF Present
    <3> HIDE DEF at
    <3>3. r \in [at : Places, keys : SUBSET DBKeys, owed : SUBSET DBKeys, batch : SUBSET DBKeys]
      <4>1. sweep[w] \in [at : Places, keys : SUBSET DBKeys,
                          owed : SUBSET DBKeys, batch : SUBSET DBKeys]
        OBVIOUS
      <4>2. QED
        BY ONLY <3>2, <4>1
    <3>4. sweep' = [sweep EXCEPT ![w] = r]
      BY <3>1 DEF at
    <3> HIDE DEF r
    <3>5. UNCHANGED <<redis, reply, old>>
      BY <2>2 DEF Scan
    <3>6. QED
      BY <3>3, <3>4, <3>5
  <2>3. CASE Del(w)
    BY <2>3 DEF Del, Lose
  <2>4. CASE Fail(w)
    BY <2>4 DEF Fail
  <2>5. QED
    BY <1>4, <2>1, <2>2, <2>3, <2>4 DEF Sweeping
<1>5. CASE UNCHANGED redisVars
  BY <1>5 DEF redisVars
<1>6. QED
  BY <1>1, <1>2, <1>3, <1>4, <1>5, Steps

-----------------------------------------------------------------------------
(* What is set stays with its kin. *)

LEMMA OwnInit == RedisInit => OwnInv
  BY DEF RedisInit, OwnInv, Kin, DBKeys

(* Two stores with one key are kin. *)
LEMMA KinByKey ==
  ASSUME NEW s \in Stores, NEW t \in Stores, NEW m, NEW n, key(s, n) = key(t, m)
  PROVE  s \in Kin(t) /\ Kin(s) = Kin(t)
<1>1. {s} \cap Prefixed = {t} \cap Prefixed
  BY DEF key
<1>2. CASE s \in Prefixed
  BY <1>1, <1>2 DEF Kin
<1>3. CASE s \notin Prefixed
  BY <1>1, <1>3 DEF Kin
<1>4. QED
  BY <1>2, <1>3

LEMMA OwnNext == RedisTypeOK /\ OwnInv /\ [RedisNext]_redisVars => OwnInv'
<1> SUFFICES ASSUME RedisTypeOK, OwnInv, [RedisNext]_redisVars PROVE OwnInv'
  OBVIOUS
<1>0. \A s \in Stores : Nobody \in Kin(s)
  BY DEF Kin
<1>a. \A s \in Stores, n \in Names : key(s, n) \in DBKeys
  BY SetsOfKeys
<1>1. ASSUME NEW s \in Stores, NEW n \in Names, RedisGet(s, n) PROVE OwnInv'
  BY <1>1 DEF RedisGet, OwnInv, RedisTypeOK, Kin
<1>2. ASSUME NEW s \in Stores, NEW n \in Names, RedisSet(s, n) PROVE OwnInv'
  <2>1. ASSUME NEW t \in Stores, NEW m \in Names PROVE redis'[key(t, m)] \in Kin(t)
    <3>1. CASE key(t, m) = key(s, n)
      <4>1. redis'[key(t, m)] = s
        BY <1>2, <1>a, <3>1 DEF RedisSet, RedisTypeOK
      <4>2. QED
        BY <3>1, <4>1, KinByKey
    <3>2. CASE key(t, m) # key(s, n)
      BY <1>2, <1>a, <3>2 DEF RedisSet, OwnInv, RedisTypeOK
    <3>3. QED
      BY <3>1, <3>2
  <2>2. UNCHANGED reply
    BY <1>2 DEF RedisSet
  <2>3. QED
    BY <2>1, <2>2 DEF OwnInv, Kin
<1>3. ASSUME NEW ks \in SUBSET DBKeys, Lose(ks), UNCHANGED reply PROVE OwnInv'
  <2>1. ASSUME NEW t \in Stores, NEW m \in Names PROVE redis'[key(t, m)] \in Kin(t)
    BY <1>0, <1>a, <1>3 DEF Lose, OwnInv
  <2>2. QED
    BY <1>3, <2>1 DEF OwnInv, Kin
<1>4. ASSUME UNCHANGED <<redis, reply>> PROVE OwnInv'
  BY <1>4 DEF OwnInv, Kin, key
<1>5. ASSUME NEW s \in Stores, NEW n \in Names, RedisDelete(s, n) PROVE OwnInv'
  BY <1>a, <1>3, <1>5 DEF RedisDelete
<1>6. ASSUME NEW k \in DBKeys, Expire(k) PROVE OwnInv'
  BY <1>3, <1>6 DEF Expire
<1>7. ASSUME NEW w \in Sweeps, Sweeping(w) PROVE OwnInv'
  <2>1. CASE Del(w)
    <3>1. sweep[w].batch \in SUBSET DBKeys
      BY DEF RedisTypeOK
    <3>2. CASE Lose(sweep[w].batch)
      BY <1>3, <2>1, <3>1, <3>2 DEF Del
    <3>3. QED
      BY <2>1, <3>2 DEF Del
  <2>2. CASE ~Del(w)
    BY <1>4, <1>7, <2>2 DEF Sweeping, Begin, Scan, Fail
  <2>3. QED
    BY <2>1, <2>2
<1>8. QED
  BY <1>1, <1>2, <1>3, <1>4, <1>5, <1>6, <1>7, Steps DEF redisVars

-----------------------------------------------------------------------------
(* The SCAN loop. *)

LEMMA SweepInit == RedisInit => SweepInv
  BY DEF RedisInit, SweepInv, Left, Idle

(* When nothing new is due, and what remains of it has not grown, the      *)
(* invariant holds of a call that has made no step.                        *)
LEMMA LessLeft ==
  ASSUME SweepInv, NEW w \in Sweeps, sweep'[w] = sweep[w],
         old'[w] \cap Present' \subseteq old[w] \cap Present
  PROVE  /\ sweep'[w].at = "scan" => Left(w)' \subseteq sweep'[w].owed
         /\ sweep'[w].at = "del" => Left(w)' \subseteq sweep'[w].owed \cup sweep'[w].batch
         /\ sweep'[w].at = "last" => Left(w)' \subseteq sweep'[w].batch
         /\ sweep'[w].at = "done" => Left(w)' = {}
  BY DEF SweepInv, Left

LEMMA LoseLess ==
  ASSUME NEW ks \in SUBSET DBKeys, Lose(ks)
  PROVE  Present' = Present \ ks
  BY DEF Lose, Present

LEMMA SweepNext == RedisTypeOK /\ SweepInv /\ [RedisNext]_redisVars => SweepInv'
<1> SUFFICES ASSUME RedisTypeOK, SweepInv, [RedisNext]_redisVars PROVE SweepInv'
  OBVIOUS
<1>1. ASSUME UNCHANGED sweep,
             \A w \in Sweeps : old'[w] \cap Present' \subseteq old[w] \cap Present
      PROVE  SweepInv'
  BY <1>1, LessLeft DEF SweepInv
<1>2. ASSUME NEW s \in Stores, NEW n \in Names, RedisSet(s, n) PROVE SweepInv'
  <2>1. Present' \subseteq Present \cup {key(s, n)}
    BY <1>2 DEF RedisSet, Present, RedisTypeOK
  <2>2. \A w \in Sweeps : old'[w] = old[w] \ {key(s, n)}
    BY <1>2 DEF RedisSet
  <2>3. QED
    BY <1>1, <1>2, <2>1, <2>2 DEF RedisSet
<1>3. ASSUME NEW ks \in SUBSET DBKeys, Lose(ks), UNCHANGED <<sweep, old>> PROVE SweepInv'
  BY <1>1, <1>3, LoseLess
<1>4. ASSUME NEW s \in Stores, NEW n \in Names, RedisGet(s, n) \/ RedisDelete(s, n) PROVE SweepInv'
  <2>1. CASE RedisGet(s, n)
    BY <1>1, <2>1 DEF RedisGet, Present
  <2>2. CASE RedisDelete(s, n)
    BY <1>3, <2>2, SetsOfKeys DEF RedisDelete
  <2>3. QED
    BY <1>4, <2>1, <2>2
<1>5. ASSUME NEW k \in DBKeys, Expire(k) PROVE SweepInv'
  BY <1>3, <1>5 DEF Expire
<1>6. ASSUME NEW w \in Sweeps, Sweeping(w) PROVE SweepInv'
  <2>1. ASSUME NEW keys \in SUBSET DBKeys, NEW due \in SUBSET DBKeys, Begin(w, keys, due)
        PROVE  SweepInv'
    <3>1. /\ sweep' = [sweep EXCEPT ![w] = [at |-> "scan", keys |-> keys,
                                            owed |-> keys \cap Present, batch |-> {}]]
          /\ old' = [old EXCEPT ![w] = due \cap Present] /\ UNCHANGED redis
      BY <2>1 DEF Begin
    <3>2. Present' = Present
      BY <3>1 DEF Present
    <3>3. sweep'[w].at = "scan" /\ Left(w)' \subseteq sweep'[w].owed
      BY <3>1, <3>2 DEF Left, RedisTypeOK
    <3>4. \A v \in Sweeps \ {w} : sweep'[v] = sweep[v] /\ old'[v] = old[v]
      BY <3>1 DEF RedisTypeOK
    <3>5. QED
      BY <3>2, <3>3, <3>4, LessLeft DEF SweepInv
  <2>2. CASE Scan(w)
    <3>1. PICK batch \in SUBSET (sweep[w].keys \cap Present), more \in BOOLEAN :
            /\ (sweep[w].owed \cap Present) \ batch # {} => more
            /\ sweep' = [sweep EXCEPT
                           ![w].owed = (sweep[w].owed \cap Present) \ batch, ![w].batch = batch,
                           ![w].at = IF batch # {} THEN IF more THEN "del" ELSE "last"
                                     ELSE IF more THEN "scan" ELSE "done"]
      BY <2>2 DEF Scan
    <3>2. UNCHANGED <<redis, old>> /\ Present' = Present /\ sweep[w].at = "scan"
      BY <2>2 DEF Scan, Present
    <3>3. /\ sweep'[w].owed = (sweep[w].owed \cap Present) \ batch
          /\ sweep'[w].batch = batch /\ sweep'[w].keys = sweep[w].keys
          /\ sweep'[w].at = IF batch # {} THEN IF more THEN "del" ELSE "last"
                            ELSE IF more THEN "scan" ELSE "done"
      BY <3>1 DEF RedisTypeOK
    <3>4. Left(w)' \subseteq sweep[w].owed \cap Present
      BY <3>2, <3>3 DEF Left, SweepInv
    <3>5. \A v \in Sweeps \ {w} : sweep'[v] = sweep[v] /\ old'[v] = old[v]
      BY <3>1, <3>2 DEF RedisTypeOK
    <3>6. /\ sweep'[w].at = "scan" => Left(w)' \subseteq sweep'[w].owed
          /\ sweep'[w].at = "del" => Left(w)' \subseteq sweep'[w].owed \cup sweep'[w].batch
          /\ sweep'[w].at = "last" => Left(w)' \subseteq sweep'[w].batch
          /\ sweep'[w].at = "done" => Left(w)' = {}
      <4>1. Left(w)' \subseteq sweep'[w].owed \cup batch
        BY <3>3, <3>4
      <4>2. ~more => Left(w)' \subseteq batch
        BY <3>1, <3>4
      <4>3. batch = {} /\ ~more => Left(w)' = {}
        BY <4>2
      <4>4. QED
        BY <3>3, <4>1, <4>2, <4>3
    <3>7. QED
      BY <3>2, <3>5, <3>6, LessLeft DEF SweepInv
  <2>3. CASE Del(w)
    <3>1. /\ sweep[w].at \in {"del", "last"} /\ UNCHANGED old
          /\ Present' = Present \ sweep[w].batch
      BY <2>3, LoseLess DEF Del, RedisTypeOK
    <3>2. /\ sweep'[w].at = IF sweep[w].at = "del" THEN "scan" ELSE "done"
          /\ sweep'[w].keys = sweep[w].keys /\ sweep'[w].owed = sweep[w].owed
      BY <2>3 DEF Del, RedisTypeOK
    <3>3. \A v \in Sweeps \ {w} : sweep'[v] = sweep[v] /\ old'[v] = old[v]
      BY <2>3 DEF Del, RedisTypeOK
    <3>4. Left(w)' = Left(w) \ sweep[w].batch
      BY <3>1, <3>2 DEF Left
    <3>5. /\ sweep'[w].at \in {"scan", "done"}
          /\ sweep'[w].at = "scan" => Left(w)' \subseteq sweep'[w].owed
          /\ sweep'[w].at = "done" => Left(w)' = {}
      BY <3>1, <3>2, <3>4 DEF SweepInv
    <3>6. QED
      BY <3>1, <3>3, <3>5, LessLeft DEF SweepInv
  <2>4. CASE Fail(w)
    <3>1. UNCHANGED <<redis, old>> /\ Present' = Present /\ sweep'[w].at = "failed"
      BY <2>4 DEF Fail, Present, RedisTypeOK
    <3>2. \A v \in Sweeps \ {w} : sweep'[v] = sweep[v] /\ old'[v] = old[v]
      BY <2>4 DEF Fail, RedisTypeOK
    <3>3. QED
      BY <3>1, <3>2, LessLeft DEF SweepInv
  <2>5. QED
    BY <1>6, <2>1, <2>2, <2>3, <2>4 DEF Sweeping
<1>7. CASE UNCHANGED redisVars
  BY <1>1, <1>7 DEF redisVars, Present
<1>8. QED
  BY <1>2, <1>3, <1>4, <1>5, <1>6, <1>7, Steps

-----------------------------------------------------------------------------
(* Every variable keeps its type in every behaviour of the store. *)
THEOREM RedisTypeCorrect == RedisSpec => []RedisTypeOK
<1>1. RedisInit => RedisTypeOK
  BY RedisTypeInit
<1>2. RedisTypeOK /\ [RedisNext]_redisVars => RedisTypeOK'
  BY RedisTypeNext
<1>3. QED
  BY <1>1, <1>2, PTL DEF RedisSpec

(* A DeletePrefix or Flush that returns nil has cleared what was due,      *)
(* whatever other clients do between its commands (redis.go:87).           *)
THEOREM PrefixGetsCleared == RedisSpec => []PrefixIsCleared
<1>1. RedisInit => SweepInv
  BY SweepInit
<1>2. RedisTypeOK /\ SweepInv /\ [RedisNext]_redisVars => SweepInv'
  BY SweepNext
<1>3. RedisTypeOK /\ SweepInv => PrefixIsCleared
  BY DEF RedisTypeOK, SweepInv, Left, Present, PrefixIsCleared
<1>4. QED
  BY <1>1, <1>2, <1>3, RedisTypeCorrect, PTL DEF RedisSpec

(* Stores with prefixes of their own share a database unharmed             *)
(* (redis.go:27, :106).                                                    *)
THEOREM StoresStayApart == RedisSpec => []StoresApart
<1>1. RedisInit => OwnInv
  BY OwnInit
<1>2. RedisTypeOK /\ OwnInv /\ [RedisNext]_redisVars => OwnInv'
  BY OwnNext
<1>3. OwnInv => StoresApart
  BY DEF OwnInv, Kin, StoresApart
<1>4. QED
  BY <1>1, <1>2, <1>3, RedisTypeCorrect, PTL DEF RedisSpec
=============================================================================
