----------------------- MODULE FirestoreQuery_proofs ------------------------
(***************************************************************************)
(* Theorems about FirestoreQuery.                                          *)
(***************************************************************************)
EXTENDS FirestoreQuery, FiniteSetTheorems, WellFoundedInduction, TLAPS

(* A relation, as a set of pairs, that puts the elements of S in a line.   *)
Lines(S, R) ==
    /\ \A a, b \in S : a = b \/ <<a, b>> \in R \/ <<b, a>> \in R
    /\ \A a \in S : <<a, a>> \notin R
    /\ \A a, b, c \in S : <<a, b>> \in R /\ <<b, c>> \in R => <<a, c>> \in R

(* The place of an element is the number of those before it.  No two have  *)
(* one place, so that every place is taken.                                *)
LEMMA PlacesTaken ==
    ASSUME NEW S, IsFiniteSet(S), NEW R, Lines(S, R)
    PROVE  \E place \in [S -> 1..Cardinality(S)] :
              /\ \A a, b \in S : <<a, b>> \in R <=> place[a] < place[b]
              /\ \A k \in 1..Cardinality(S) : \E a \in S : place[a] = k
<1> DEFINE n == Cardinality(S)
           UpTo(a) == {b \in S : b = a \/ <<b, a>> \in R}
           place == [a \in S |-> Cardinality(UpTo(a))]
<1>1. n \in Nat
  BY FS_CardinalityType
<1>2. ASSUME NEW a \in S PROVE IsFiniteSet(UpTo(a)) /\ place[a] \in 1..n
  <2>1. IsFiniteSet(UpTo(a)) /\ Cardinality(UpTo(a)) <= n
    BY FS_Subset
  <2>2. Cardinality(UpTo(a)) # 0
    BY <2>1, FS_EmptySet
  <2> QED
    BY <1>1, <2>1, <2>2, FS_CardinalityType
<1>3. ASSUME NEW a \in S, NEW b \in S, <<a, b>> \in R PROVE place[a] < place[b]
  <2>1. UpTo(a) \in SUBSET UpTo(b) /\ b \in UpTo(b) /\ b \notin UpTo(a)
    BY <1>3 DEF Lines
  <2>2. Cardinality(UpTo(a)) <= Cardinality(UpTo(b)) /\ Cardinality(UpTo(a)) # Cardinality(UpTo(b))
    BY <1>2, <2>1, FS_Subset
  <2> QED
    BY <1>2, <2>2
<1>4. \A a, b \in S : <<a, b>> \in R <=> place[a] < place[b]
  <2>1. ASSUME NEW a \in S, NEW b \in S, place[a] < place[b] PROVE <<a, b>> \in R
    <3>1. place[a] \in Nat /\ place[b] \in Nat
      BY <1>1, <1>2
    <3> HIDE DEF place
    <3>2. a # b /\ ~(place[b] < place[a])
      BY <2>1, <3>1
    <3> QED
      BY <1>3, <3>2 DEF Lines
  <2> QED
    BY <1>3, <2>1
<1>5. place \in Injection(S, 1..n)
  <2>1. ASSUME NEW a \in S, NEW b \in S, place[a] = place[b] PROVE a = b
    <3>1. ~(place[a] < place[b]) /\ ~(place[b] < place[a])
      BY <1>2, <2>1
    <3> QED
      BY <1>4, <3>1 DEF Lines
  <2>2. place \in [S -> 1..n]
    BY <1>2
  <2> HIDE DEF place
  <2> QED
    BY <2>1, <2>2 DEF Injection, IsInjective
<1>6. IsFiniteSet(1..n) /\ Cardinality(1..n) = n
  <2>1. 1 \in Int /\ n \in Int
    BY <1>1
  <2>2. IsFiniteSet(1..n) /\ Cardinality(1..n) = IF 1 > n THEN 0 ELSE n - 1 + 1
    BY <2>1, FS_Interval
  <2> QED
    BY <1>1, <2>2
<1>7. place \in Surjection(S, 1..n)
  BY <1>5, <1>6, FS_Injection
<1> HIDE DEF place
<1> QED
  BY <1>4, <1>7 DEF Surjection

(* An enumeration.                                                         *)
Enumerates(s, S) ==
    /\ s \in [1..Cardinality(S) -> S]
    /\ \A i, j \in 1..Cardinality(S) : s[i] = s[j] => i = j
    /\ \A a \in S : \E i \in 1..Cardinality(S) : s[i] = a

LEMMA SeqsEnumerate ==
    ASSUME NEW S, IsFiniteSet(S), NEW s
    PROVE  s \in SetToSeqs(S) <=> Enumerates(s, S)
<1> DEFINE n == Cardinality(S)
<1>1. n \in Nat
  BY FS_CardinalityType
<1>2. s \in SetToSeqs(S) <=> s \in [1..n -> S] /\ \A i, j \in 1..n : s[i] = s[j] => i = j
  BY DEF SetToSeqs
<1>3. ASSUME s \in [1..n -> S], \A i, j \in 1..n : s[i] = s[j] => i = j
      PROVE  \A a \in S : \E i \in 1..n : s[i] = a
  <2>1. s \in Injection(1..n, S)
    BY <1>3 DEF Injection, IsInjective
  <2>2. IsFiniteSet(1..n) /\ Cardinality(1..n) = n
    <3>1. 1 \in Int /\ n \in Int
      BY <1>1
    <3>2. IsFiniteSet(1..n) /\ Cardinality(1..n) = IF 1 > n THEN 0 ELSE n - 1 + 1
      BY <3>1, FS_Interval
    <3> QED
      BY <1>1, <3>2
  <2>3. s \in Surjection(1..n, S)
    BY <2>1, <2>2, FS_Injection
  <2> QED
    BY <2>3 DEF Surjection
<1> QED
  BY <1>2, <1>3 DEF Enumerates

(* What Ordered chooses is there: the elements in their places.            *)
LEMMA OrderIsThere ==
    ASSUME NEW S, IsFiniteSet(S), NEW R, Lines(S, R)
    PROVE  \E s \in SetToSeqs(S) : \A i, j \in DOMAIN s : i < j => <<s[i], s[j]>> \in R
<1> DEFINE n == Cardinality(S)
<1>1. PICK place \in [S -> 1..n] :
          /\ \A a, b \in S : <<a, b>> \in R <=> place[a] < place[b]
          /\ \A k \in 1..n : \E a \in S : place[a] = k
  BY PlacesTaken
<1> DEFINE s == [k \in 1..n |-> CHOOSE a \in S : place[a] = k]
<1>2. \A k \in 1..n : s[k] \in S /\ place[s[k]] = k
  BY <1>1
<1>3. s \in [1..n -> S]
  BY <1>2
<1> HIDE DEF s
<1>4. \A i, j \in 1..n : i < j => <<s[i], s[j]>> \in R
  BY <1>1, <1>2
<1>5. \A i, j \in 1..n : i # j => s[i] # s[j]
  BY <1>2
<1>6. s \in SetToSeqs(S)
  BY <1>3, <1>5 DEF SetToSeqs
<1> QED
  BY <1>3, <1>4, <1>6

(* The names of a set of documents, in order.                              *)
LEMMA NamesInOrder ==
    ASSUME NEW S, IsFiniteSet(S), S \subseteq Nat
    PROVE  Enumerates(Ordered(S, <), S)
<1> DEFINE R == {e \in S \X S : e[1] < e[2]}
<1>1. Lines(S, R)
  BY DEF Lines
<1>2. \E s \in SetToSeqs(S) : \A i, j \in DOMAIN s : i < j => s[i] < s[j]
  <2>1. PICK s \in SetToSeqs(S) : \A i, j \in DOMAIN s : i < j => <<s[i], s[j]>> \in R
    BY <1>1, OrderIsThere
  <2> QED
    BY <2>1
<1>3. Ordered(S, <) \in SetToSeqs(S)
  BY <1>2 DEF Ordered
<1> QED
  BY <1>3, SeqsEnumerate

-----------------------------------------------------------------------------
(* The order of values, and of documents by several keys.                  *)

LEMMA Compares ==
    ASSUME NEW a, NEW b, a.type \in Int, a.n \in Int, b.type \in Int, b.n \in Int
    PROVE  /\ compareValues(a, b) \in Int
           /\ compareValues(a, b) < 0 <=> Below(a, b)
           /\ compareValues(a, b) > 0 <=> Below(b, a)
           /\ compareValues(a, b) = 0 <=> ~Below(a, b) /\ ~Below(b, a)
  BY DEF compareValues, Below, Sign

LEMMA BelowIsWeak ==
    ASSUME NEW a, NEW b, NEW c, a.type \in Int, a.n \in Int, b.type \in Int, b.n \in Int,
           c.type \in Int, c.n \in Int
    PROVE  /\ ~(Below(a, b) /\ Below(b, a))
           /\ Below(a, b) => Below(a, c) \/ Below(c, b)
  BY DEF Below

LEMMA LeastOf == ASSUME NEW T, T \subseteq Nat, T # {} PROVE \E m \in T : \A k \in T : m <= k
<1>1. PICK m \in T : \A k \in T : ~(<<k, m>> \in OpToRel(<, Nat))
  BY NatLessThanWellFounded, WFMin
<1>2. \A k \in T : ~(k < m)
  BY <1>1, Zenon DEF OpToRel
<1> QED
  BY <1>2

(* The pairs of D that the triples of B, a key and two elements that it    *)
(* tells apart, put in order: the first key that does decides.             *)
ByKeys(m, D, B) ==
    {e \in D \X D : \E k \in 1..m :
        /\ <<k, e[1], e[2]>> \in B
        /\ \A j \in 1..(k - 1) : <<j, e[1], e[2]>> \notin B /\ <<j, e[2], e[1]>> \notin B}

(* A key tells elements apart in one way, and who is between two of them   *)
(* is apart from one.                                                      *)
Keys(m, D, B) ==
    /\ \A k \in 1..m, a, b \in D : ~(<<k, a, b>> \in B /\ <<k, b, a>> \in B)
    /\ \A k \in 1..m, a, b, c \in D : <<k, a, b>> \in B => <<k, a, c>> \in B \/ <<k, c, b>> \in B

Weak(D, L) ==
    /\ \A a, b \in D : ~(<<a, b>> \in L /\ <<b, a>> \in L)
    /\ \A a, b, c \in D : <<a, b>> \in L => <<a, c>> \in L \/ <<c, b>> \in L

LEMMA KeysAreWeak ==
    ASSUME NEW m \in Nat, NEW D, NEW B, Keys(m, D, B)
    PROVE  Weak(D, ByKeys(m, D, B))
<1> DEFINE L == ByKeys(m, D, B)
           Same(k, a, b) == <<k, a, b>> \notin B /\ <<k, b, a>> \notin B
<1>1. \A a, b \in D : <<a, b>> \in L <=> \E k \in 1..m : <<k, a, b>> \in B /\ \A j \in 1..(k - 1) : Same(j, a, b)
  BY DEF ByKeys
<1> HIDE DEF L
<1>2. ASSUME NEW a \in D, NEW b \in D, <<a, b>> \in L, <<b, a>> \in L PROVE FALSE
  <2>1. PICK k \in 1..m : <<k, a, b>> \in B /\ \A j \in 1..(k - 1) : Same(j, a, b)
    BY <1>1, <1>2
  <2>2. PICK l \in 1..m : <<l, b, a>> \in B /\ \A j \in 1..(l - 1) : Same(j, b, a)
    BY <1>1, <1>2
  <2>3. k \in 1..(l - 1) \/ l \in 1..(k - 1) \/ k = l
    OBVIOUS
  <2> QED
    BY <2>1, <2>2, <2>3 DEF Keys
<1>3. ASSUME NEW a \in D, NEW b \in D, NEW c \in D, <<a, b>> \in L PROVE <<a, c>> \in L \/ <<c, b>> \in L
  <2>1. PICK k \in 1..m : <<k, a, b>> \in B /\ \A j \in 1..(k - 1) : Same(j, a, b)
    BY <1>1, <1>3
  <2> DEFINE T == {j \in 1..k : ~Same(j, a, c) \/ ~Same(j, c, b)}
  <2>2. k \in T /\ T \subseteq Nat
    BY <2>1 DEF Keys
  <2>3. PICK l \in T : \A j \in T : l <= j
    BY <2>2, LeastOf
  <2>4. \A j \in 1..(l - 1) : Same(j, a, c) /\ Same(j, c, b)
    BY <2>3
  <2>5. l \in 1..m /\ (l = k \/ l \in 1..(k - 1))
    BY <2>3
  <2>6. <<l, a, c>> \in B \/ <<l, c, b>> \in B
    <3>1. CASE l = k
      BY <2>1, <3>1 DEF Keys
    <3>2. CASE l \in 1..(k - 1)
      <4>1. Same(l, a, b) /\ (~Same(l, a, c) \/ ~Same(l, c, b))
        BY <2>1, <2>3, <3>2
      <4> QED
        BY <2>5, <4>1 DEF Keys
    <3> QED
      BY <2>5, <3>1, <3>2
  <2> QED
    BY <1>1, <2>4, <2>5, <2>6
<1> QED
  BY <1>2, <1>3 DEF Weak, L

(* A sort that is stable leaves in place what the order does not tell      *)
(* apart, and so it is a line.                                             *)
Stable(D, L) == {e \in D \X D : e \in L \/ (<<e[2], e[1]>> \notin L /\ e[1] < e[2])}

LEMMA StableIsLine ==
    ASSUME NEW D, D \subseteq Nat, NEW L, Weak(D, L)
    PROVE  Lines(D, Stable(D, L))
<1>1. \A a, b \in D : <<a, b>> \in Stable(D, L) <=> <<a, b>> \in L \/ (<<b, a>> \notin L /\ a < b)
  BY DEF Stable
<1>2. ASSUME NEW a \in D, NEW b \in D PROVE a = b \/ <<a, b>> \in Stable(D, L) \/ <<b, a>> \in Stable(D, L)
  <2>1. a = b \/ a < b \/ b < a
    OBVIOUS
  <2> QED
    BY <1>1, <2>1
<1>3. \A a \in D : <<a, a>> \notin Stable(D, L)
  BY <1>1 DEF Weak
<1>4. ASSUME NEW a \in D, NEW b \in D, NEW c \in D,
             <<a, b>> \in Stable(D, L), <<b, c>> \in Stable(D, L)
      PROVE  <<a, c>> \in Stable(D, L)
  <2>1. (a < b /\ b < c) => a < c
    OBVIOUS
  <2> QED
    BY <1>1, <1>4, <2>1 DEF Weak
<1> QED
  BY <1>2, <1>3, <1>4 DEF Lines

LEMMA LengthOf ==
    ASSUME NEW n \in Nat
    PROVE  IsFiniteSet(1..n) /\ Cardinality(1..n) = n
<1>1. 1 \in Int /\ n \in Int
  OBVIOUS
<1>2. IsFiniteSet(1..n) /\ Cardinality(1..n) = IF 1 > n THEN 0 ELSE n - 1 + 1
  BY <1>1, FS_Interval
<1> QED
  BY <1>2

(* What sort.SliceStable promises of keys that stay as they are.           *)
InOrder(orders, ds, at, i, j) ==
    Less(orders, ds[at[i]], ds[at[j]]) \/ (~Less(orders, ds[at[j]], ds[at[i]]) /\ at[i] < at[j])

LEMMA SortedIs ==
    ASSUME NEW X, NEW ds \in Seq(X), NEW Y, NEW orders \in Seq(Y),
           \A k \in DOMAIN orders, i \in DOMAIN ds :
              SortKey(orders[k], ds[i]).type \in Int /\ SortKey(orders[k], ds[i]).n \in Int
    PROVE  \E at : /\ Enumerates(at, DOMAIN ds)
                   /\ Sorted(ds, orders) = [k \in DOMAIN ds |-> ds[at[k]]]
                   /\ \A i, j \in DOMAIN ds : i < j => InOrder(orders, ds, at, i, j)
<1> DEFINE D == DOMAIN ds
           m == Len(orders)
           Cmp(k, i, j) == compareValues(SortKey(orders[k], ds[i]), SortKey(orders[k], ds[j]))
           B == {e \in (1..m) \X D \X D :
                    IF orders[e[1]].desc THEN Cmp(e[1], e[2], e[3]) > 0 ELSE Cmp(e[1], e[2], e[3]) < 0}
           L == ByKeys(m, D, B)
<1>1. m \in Nat /\ DOMAIN orders = 1..m /\ D = 1..Len(ds) /\ Len(ds) \in Nat /\ D \subseteq Nat
  OBVIOUS
<1>2. IsFiniteSet(D) /\ Cardinality(D) = Len(ds)
  BY <1>1, LengthOf
<1>3. ASSUME NEW k \in 1..m, NEW i \in D, NEW j \in D
      PROVE  /\ Cmp(k, i, j) \in Int
             /\ Cmp(k, i, j) < 0 <=> Below(SortKey(orders[k], ds[i]), SortKey(orders[k], ds[j]))
             /\ Cmp(k, i, j) > 0 <=> Below(SortKey(orders[k], ds[j]), SortKey(orders[k], ds[i]))
             /\ Cmp(k, i, j) = 0 <=> ~(Cmp(k, i, j) < 0) /\ ~(Cmp(k, i, j) > 0)
  BY <1>1, Compares
<1>4. ASSUME NEW k \in 1..m, NEW i \in D, NEW j \in D
      PROVE  /\ <<k, i, j>> \in B <=> IF orders[k].desc THEN Cmp(k, i, j) > 0 ELSE Cmp(k, i, j) < 0
             /\ <<k, i, j>> \in B <=> IF orders[k].desc
                                      THEN Below(SortKey(orders[k], ds[j]), SortKey(orders[k], ds[i]))
                                      ELSE Below(SortKey(orders[k], ds[i]), SortKey(orders[k], ds[j]))
             /\ Cmp(k, i, j) = 0 <=> <<k, i, j>> \notin B /\ <<k, j, i>> \notin B
  <2>1. \A a, b \in D : <<k, a, b>> \in B <=> IF orders[k].desc THEN Cmp(k, a, b) > 0 ELSE Cmp(k, a, b) < 0
    OBVIOUS
  <2> HIDE DEF B, Cmp
  <2> QED
    BY <1>3, <2>1
<1>5. Keys(m, D, B)
  <2>1. ASSUME NEW k \in 1..m, NEW i \in D, NEW j \in D PROVE ~(<<k, i, j>> \in B /\ <<k, j, i>> \in B)
    <3>1. ~(Below(SortKey(orders[k], ds[i]), SortKey(orders[k], ds[j]))
            /\ Below(SortKey(orders[k], ds[j]), SortKey(orders[k], ds[i])))
      BY <1>1, BelowIsWeak
    <3> HIDE DEF B
    <3> QED
      BY <1>4, <3>1
  <2>2. ASSUME NEW k \in 1..m, NEW i \in D, NEW j \in D, NEW l \in D, <<k, i, j>> \in B
        PROVE  <<k, i, l>> \in B \/ <<k, l, j>> \in B
    <3> DEFINE K(x) == SortKey(orders[k], ds[x])
    <3>1. /\ Below(K(i), K(j)) => Below(K(i), K(l)) \/ Below(K(l), K(j))
          /\ Below(K(j), K(i)) => Below(K(j), K(l)) \/ Below(K(l), K(i))
      BY <1>1, BelowIsWeak
    <3> HIDE DEF B
    <3> QED
      BY <1>4, <2>2, <3>1
  <2> HIDE DEF B
  <2> QED
    BY <2>1, <2>2 DEF Keys
<1>6. ASSUME NEW i \in D, NEW j \in D PROVE Less(orders, ds[i], ds[j]) <=> <<i, j>> \in L
  <2>1. Less(orders, ds[i], ds[j]) <=>
            \E k \in 1..m : /\ \A l \in 1..(k - 1) : Cmp(l, i, j) = 0
                            /\ IF orders[k].desc THEN Cmp(k, i, j) > 0 ELSE Cmp(k, i, j) < 0
    BY <1>1 DEF Less
  <2>2. \A k \in 1..m : \A l \in 1..(k - 1) : l \in 1..m
    OBVIOUS
  <2>3. <<i, j>> \in L <=> \E k \in 1..m :
            /\ <<k, i, j>> \in B
            /\ \A l \in 1..(k - 1) : <<l, i, j>> \notin B /\ <<l, j, i>> \notin B
    BY DEF ByKeys
  <2> HIDE DEF B, Cmp, L
  <2> QED
    BY <1>4, <2>1, <2>2, <2>3
<1>7. Lines(D, Stable(D, L))
  <2>1. Weak(D, L)
    BY <1>1, <1>5, KeysAreWeak
  <2> QED
    BY <1>1, <2>1, StableIsLine
<1> DEFINE before(i, j) == Less(orders, ds[i], ds[j]) \/ (~Less(orders, ds[j], ds[i]) /\ i < j)
           at == CHOOSE s \in SetToSeqs(D) : \A i, j \in DOMAIN s : i < j => before(s[i], s[j])
<1>8. PICK s0 \in SetToSeqs(D) : \A i, j \in DOMAIN s0 : i < j => <<s0[i], s0[j]>> \in Stable(D, L)
  BY <1>2, <1>7, OrderIsThere
<1>9. \A s \in SetToSeqs(D) : Enumerates(s, D) /\ DOMAIN s = D /\ \A i \in D : s[i] \in D
  <2>1. \A s \in SetToSeqs(D) : Enumerates(s, D)
    BY <1>2, SeqsEnumerate
  <2> QED
    BY <1>1, <1>2, <2>1 DEF Enumerates
<1>10. \A i, j \in DOMAIN s0 : i < j => before(s0[i], s0[j])
  <2> HIDE DEF L
  <2> SUFFICES ASSUME NEW i \in D, NEW j \in D, i < j PROVE before(s0[i], s0[j])
    BY <1>9
  <2>1. s0[i] \in D /\ s0[j] \in D /\ <<s0[i], s0[j]>> \in Stable(D, L)
    BY <1>8, <1>9
  <2>2. \A a, b \in D : <<a, b>> \in Stable(D, L) => <<a, b>> \in L \/ (<<b, a>> \notin L /\ a < b)
    BY DEF Stable
  <2>3. <<s0[i], s0[j]>> \in L \/ (<<s0[j], s0[i]>> \notin L /\ s0[i] < s0[j])
    BY <2>1, <2>2
  <2> QED
    BY <1>6, <2>1, <2>3
<1>11. at \in SetToSeqs(D) /\ \A i, j \in DOMAIN at : i < j => before(at[i], at[j])
  BY <1>10
<1>12. Sorted(ds, orders) = [k \in D |-> ds[at[k]]]
  BY DEF Sorted, Ordered
<1> HIDE DEF at, D
<1>13. \A i, j \in D : i < j => InOrder(orders, ds, at, i, j)
  BY <1>9, <1>11 DEF InOrder
<1> QED
  BY <1>9, <1>11, <1>12, <1>13 DEF D

LEMMA PartOf ==
    ASSUME NEW X, NEW s \in Seq(X), NEW a \in Nat, NEW b \in Nat, a >= 1, b <= Len(s)
    PROVE  /\ SubSeq(s, a, b) \in Seq(X)
           /\ Len(SubSeq(s, a, b)) = IF a <= b THEN b - a + 1 ELSE 0
           /\ \A k \in 1..Len(SubSeq(s, a, b)) : SubSeq(s, a, b)[k] = s[a + k - 1]
  OBVIOUS

LEMMA PageIs ==
    ASSUME NEW X, NEW ds \in Seq(X), NEW q, q.offset \in Nat, q.limit \in Nat \cup {NoLimit}
    PROVE  /\ Page(ds, q) \in Seq(X)
           /\ \A k \in DOMAIN Page(ds, q) :
                 /\ q.offset + k \in DOMAIN ds /\ Page(ds, q)[k] = ds[q.offset + k]
                 /\ q.limit # NoLimit => k <= q.limit
           /\ \A i \in DOMAIN ds : i > q.offset /\ (q.limit # NoLimit => i <= q.offset + q.limit) =>
                 i - q.offset \in DOMAIN Page(ds, q)
<1> DEFINE rest == IF q.offset >= Len(ds) THEN <<>> ELSE SubSeq(ds, q.offset + 1, Len(ds))
           page == IF q.limit # NoLimit /\ q.limit < Len(rest) THEN SubSeq(rest, 1, q.limit) ELSE rest
<1>1. Len(ds) \in Nat /\ DOMAIN ds = 1..Len(ds)
  OBVIOUS
<1>2. /\ rest \in Seq(X) /\ Len(rest) = IF q.offset >= Len(ds) THEN 0 ELSE Len(ds) - q.offset
      /\ \A k \in 1..Len(rest) : rest[k] = ds[q.offset + k]
  <2>1. CASE q.offset >= Len(ds)
    BY <2>1
  <2>2. CASE ~(q.offset >= Len(ds))
    <3>1. /\ q.offset + 1 \in Nat /\ Len(ds) \in Nat /\ q.offset + 1 >= 1 /\ Len(ds) <= Len(ds)
      BY <1>1
    <3>2. /\ rest \in Seq(X) /\ Len(rest) = IF q.offset + 1 <= Len(ds) THEN Len(ds) - (q.offset + 1) + 1 ELSE 0
          /\ \A k \in 1..Len(rest) : rest[k] = ds[q.offset + 1 + k - 1]
      BY <2>2, <3>1, PartOf
    <3> HIDE DEF rest
    <3>3. Len(rest) = Len(ds) - q.offset
      BY <1>1, <2>2, <3>2
    <3>4. \A k \in 1..Len(rest) : q.offset + 1 + k - 1 = q.offset + k
      BY <1>1, <3>3
    <3> QED
      BY <2>2, <3>2, <3>3, <3>4
  <2> QED
    BY <2>1, <2>2
<1> HIDE DEF rest
<1>3. Len(rest) \in Nat /\ DOMAIN rest = 1..Len(rest)
  BY <1>2
<1>4. /\ page \in Seq(X)
      /\ Len(page) = IF q.limit # NoLimit /\ q.limit < Len(rest) THEN q.limit ELSE Len(rest)
      /\ \A k \in 1..Len(page) : page[k] = rest[k]
  <2>1. CASE q.limit # NoLimit /\ q.limit < Len(rest)
    <3>1. q.limit \in Nat /\ 1 \in Nat /\ 1 >= 1 /\ q.limit <= Len(rest)
      BY <1>3, <2>1
    <3>2. /\ page \in Seq(X) /\ Len(page) = IF 1 <= q.limit THEN q.limit - 1 + 1 ELSE 0
          /\ \A k \in 1..Len(page) : page[k] = rest[1 + k - 1]
      BY <1>2, <2>1, <3>1, PartOf
    <3> HIDE DEF page
    <3> QED
      BY <2>1, <3>1, <3>2
  <2>2. CASE ~(q.limit # NoLimit /\ q.limit < Len(rest))
    BY <1>2, <2>2
  <2> QED
    BY <2>1, <2>2
<1>5. page = Page(ds, q)
  BY DEF Page, rest
<1> HIDE DEF page
<1>6. Len(page) \in Nat /\ DOMAIN page = 1..Len(page)
  BY <1>4
<1>7. q.limit # NoLimit => q.limit \in Nat
  OBVIOUS
<1>8. ASSUME NEW k \in DOMAIN page
      PROVE  /\ q.offset + k \in DOMAIN ds /\ page[k] = ds[q.offset + k]
             /\ q.limit # NoLimit => k <= q.limit
  BY <1>1, <1>2, <1>3, <1>4, <1>6, <1>7
<1>9. ASSUME NEW i \in DOMAIN ds, i > q.offset, q.limit # NoLimit => i <= q.offset + q.limit
      PROVE  i - q.offset \in DOMAIN page
  BY <1>1, <1>2, <1>3, <1>4, <1>6, <1>7, <1>9
<1> QED
  BY <1>4, <1>5, <1>8, <1>9

-----------------------------------------------------------------------------
(* The invariant.  What a handler knows of each document it has read is    *)
(* said of the document's place in read, as every list of documents it     *)
(* works on is made of those.  A document is sound as long as its map has  *)
(* not been written.                                                       *)

FieldMap == [Field -> Value]
Found == [name : Doc, map : Nat, fields : FieldMap]
RefDoc == [name : Doc, map : Nat]
Reply == [name : Doc, fields : FieldMap]
Run == [pc : {"collect", "filter", "order", "sort", "send"}, query : Query, source : Nat,
        docs : Seq(RefDoc), filter : Nat, todo : Seq(RefDoc), kept : Seq(RefDoc), sent : Seq(Reply),
        read : Seq(Found), written : SUBSET Nat, moved : BOOLEAN]

Ref(x) == [name |-> x.name, map |-> x.map]
Of(r, ds) == \A k \in DOMAIN ds : \E i \in DOMAIN r.read : ds[k] = Ref(r.read[i])
Sound(r, i) == r.read[i].map \notin r.written

(* Every list of documents is of those that were read, each name once; and *)
(* a sound document's map has the fields that were read.                   *)
NamesApart(r) ==
    /\ \A i, j \in DOMAIN r.read : r.read[i].name = r.read[j].name => i = j
    /\ \A i \in DOMAIN r.read : \E s \in 1..(r.source - 1) : r.read[i].name \in Members[r.query.from[s]]

MapsAsRead(r) ==
    /\ \A i \in DOMAIN r.read :
          /\ r.read[i].map \in 1..Len(maps)
          /\ Sound(r, i) => maps[r.read[i].map] = r.read[i].fields
    /\ \A m \in r.written : \E i \in DOMAIN r.read : r.read[i].map = m
    /\ r.moved => r.written # {}

Shape(r) ==
    /\ r.source \in 1..(Len(r.query.from) + 1)
    /\ r.pc = "collect" => r.source <= Len(r.query.from)
    /\ r.pc = "filter" => r.filter \in DOMAIN r.query.filters
    /\ Of(r, r.docs) /\ Of(r, r.todo) /\ Of(r, r.kept)
    /\ r.pc \in {"collect", "filter"} =>
          Len(r.docs) = Len(r.read) /\ \A i \in DOMAIN r.read : r.docs[i] = Ref(r.read[i])
    /\ r.pc = "collect" => r.kept = <<>> /\ r.filter = 1 /\ r.todo = r.docs
    /\ r.pc # "send" => r.sent = <<>>

(* Where in read a document is, and whether it is in a list.               *)
Ix(r, x) == CHOOSE i \in DOMAIN r.read : Ref(r.read[i]) = x
In(r, i, ds) == \E k \in DOMAIN ds : ds[k] = Ref(r.read[i])
Ascends(r, ds) == \A k, l \in DOMAIN ds : k < l => Ix(r, ds[k]) < Ix(r, ds[l])

Holds(r, i, f) ==
    matchesOp(r.read[i].fields[r.query.filters[f].field], r.query.filters[f].value, r.query.filters[f].op)

Hit(r, i) == Matches(r.query, r.read[i].fields)

(* The order of a query without ORDER BY.                                  *)
Before(r, i, j) ==
    LET fi == FirstMatch(r.query, r.read[i].fields)
        fj == FirstMatch(r.query, r.read[j].fields)
    IN  fi < fj \/ (fi = fj /\ i < j)

(* In the pass of a filter of an AND.                                      *)
AndPass(r) ==
    /\ \A k \in DOMAIN r.todo : Sound(r, Ix(r, r.todo[k])) =>
          \A f \in 1..(r.filter - 1) : Holds(r, Ix(r, r.todo[k]), f)
    /\ \A k \in DOMAIN r.kept : Sound(r, Ix(r, r.kept[k])) =>
          \A f \in 1..r.filter : Holds(r, Ix(r, r.kept[k]), f)
    /\ \A i \in DOMAIN r.read : Sound(r, i) /\ (\A f \in 1..r.filter : Holds(r, i, f)) =>
          In(r, i, r.kept) \/ In(r, i, r.todo)
    /\ Ascends(r, r.todo) /\ Ascends(r, r.kept)
    /\ \A k \in DOMAIN r.kept, l \in DOMAIN r.todo : Ix(r, r.kept[k]) < Ix(r, r.todo[l])

(* In the pass of a filter of an OR.                                       *)
OrPass(r) ==
    /\ Ascends(r, r.todo)
    /\ \A k \in DOMAIN r.kept : Sound(r, Ix(r, r.kept[k])) =>
          \E f \in 1..r.filter : Holds(r, Ix(r, r.kept[k]), f)
    /\ \A k, l \in DOMAIN r.kept : k < l =>
          /\ r.kept[k] # r.kept[l]
          /\ Sound(r, Ix(r, r.kept[k])) /\ Sound(r, Ix(r, r.kept[l])) =>
                Before(r, Ix(r, r.kept[k]), Ix(r, r.kept[l]))
    /\ \A i \in DOMAIN r.read, f \in 1..r.filter : Sound(r, i) /\ Holds(r, i, f) =>
          In(r, i, r.kept) \/ (f = r.filter /\ In(r, i, r.todo))
    /\ \A k \in DOMAIN r.kept, l \in DOMAIN r.todo :
          Sound(r, Ix(r, r.kept[k])) /\ Ix(r, r.todo[l]) <= Ix(r, r.kept[k]) =>
             \E f \in 1..(r.filter - 1) : Holds(r, Ix(r, r.kept[k]), f)

(* After the filters.                                                      *)
Filtered(r) ==
    /\ \A k \in DOMAIN r.docs : Sound(r, Ix(r, r.docs[k])) => Hit(r, Ix(r, r.docs[k]))
    /\ \A i \in DOMAIN r.read : Sound(r, i) /\ Hit(r, i) => In(r, i, r.docs)
    /\ \A k, l \in DOMAIN r.docs : k < l =>
          /\ r.docs[k] # r.docs[l]
          /\ Sound(r, Ix(r, r.docs[k])) /\ Sound(r, Ix(r, r.docs[l])) =>
                Before(r, Ix(r, r.docs[k]), Ix(r, r.docs[l]))

(* While it sends: what was and what will be sent is the page.             *)
Place(r, i) == Cardinality({j \in {k \in DOMAIN r.read : Hit(r, k)} : Precedes(r.query, r.read, j, i)})
OnPage(r, i) ==
    /\ Hit(r, i)
    /\ Place(r, i) >= r.query.offset
    /\ r.query.limit # NoLimit => Place(r, i) < r.query.offset + r.query.limit

Total(r) == Len(r.sent) + Len(r.docs)
NameAt(r, k) == IF k <= Len(r.sent) THEN r.sent[k].name ELSE r.docs[k - Len(r.sent)].name

Sending(r) ==
    /\ \A k, l \in 1..Total(r) : NameAt(r, k) = NameAt(r, l) => k = l
    /\ \A k \in DOMAIN r.sent : \E i \in DOMAIN r.read :
          /\ r.sent[k].name = r.read[i].name
          /\ Sound(r, i) => r.sent[k].fields = r.read[i].fields /\ Hit(r, i)
    /\ \A k \in DOMAIN r.docs : Sound(r, Ix(r, r.docs[k])) => Hit(r, Ix(r, r.docs[k]))
    /\ r.written = {} =>
          /\ \A k \in 1..Total(r), i \in DOMAIN r.read : NameAt(r, k) = r.read[i].name =>
                OnPage(r, i) /\ k = Place(r, i) - r.query.offset + 1
          /\ \A i \in DOMAIN r.read : OnPage(r, i) =>
                \E k \in 1..Total(r) : NameAt(r, k) = r.read[i].name

Progress(r) ==
    /\ r.pc = "filter" => IF r.query.compose = "AND" THEN AndPass(r) ELSE OrPass(r)
    /\ r.pc \in {"order", "sort"} => Filtered(r)
    /\ r.pc = "send" => Sending(r)

RunInv(r) == r \in Run /\ Shape(r) /\ NamesApart(r) /\ MapsAsRead(r) /\ Progress(r)

StoreTypes ==
    /\ maps \in Seq(FieldMap)
    /\ docs \in [Doc -> 0..Len(maps)]
    /\ \A d, e \in Doc : docs[d] = docs[e] /\ docs[d] # NoMap => d = e
    /\ DOMAIN readers = Reader

QInv == StoreTypes /\ \A h \in Reader : readers[h] # NoQuery => RunInv(readers[h])

-----------------------------------------------------------------------------
(* Places in read.                                                         *)

LEMMA RunFacts ==
    ASSUME NEW r \in Run
    PROVE  /\ r # NoQuery /\ r.query \in Query /\ r.query \in QueryType /\ r.source \in Nat /\ r.filter \in Nat
           /\ r.docs \in Seq(RefDoc) /\ r.todo \in Seq(RefDoc) /\ r.kept \in Seq(RefDoc)
           /\ r.sent \in Seq(Reply) /\ r.read \in Seq(Found) /\ r.moved \in BOOLEAN
           /\ r.pc \in {"collect", "filter", "order", "sort", "send"} /\ r.written \subseteq Nat
           /\ Len(r.read) \in Nat /\ DOMAIN r.read = 1..Len(r.read)
           /\ Len(r.docs) \in Nat /\ DOMAIN r.docs = 1..Len(r.docs)
           /\ Len(r.todo) \in Nat /\ DOMAIN r.todo = 1..Len(r.todo)
           /\ Len(r.kept) \in Nat /\ DOMAIN r.kept = 1..Len(r.kept)
           /\ Len(r.sent) \in Nat /\ DOMAIN r.sent = 1..Len(r.sent)
<1>1. /\ r.query \in Query /\ r.source \in Nat /\ r.filter \in Nat
      /\ r.docs \in Seq(RefDoc) /\ r.todo \in Seq(RefDoc) /\ r.kept \in Seq(RefDoc)
      /\ r.sent \in Seq(Reply) /\ r.read \in Seq(Found) /\ r.moved \in BOOLEAN
      /\ r.pc \in {"collect", "filter", "order", "sort", "send"} /\ r.written \subseteq Nat
  BY DEF Run
<1>2. r # NoQuery
  BY <1>1 DEF NoQuery
<1>3. r.query \in QueryType
  BY <1>1, QueryAssumption
<1> QED
  BY <1>1, <1>2, <1>3

LEMMA QueryFacts ==
    ASSUME NEW q \in Query
    PROVE  /\ q.from \in Seq(Collection) /\ q.from # <<>> /\ IsInjective(q.from)
           /\ q.compose \in {"AND", "OR"} /\ (q.compose = "OR" => q.filters # <<>>)
           /\ q.filters \in Seq([field : Field, op : STRING, value : Value])
           /\ q.order \in Seq([field : Field \cup {"__name__"}, desc : BOOLEAN])
           /\ q.offset \in Nat /\ q.limit \in Nat \cup {NoLimit}
           /\ Len(q.filters) \in Nat /\ DOMAIN q.filters = 1..Len(q.filters)
           /\ Len(q.from) \in Nat /\ DOMAIN q.from = 1..Len(q.from) /\ Len(q.from) >= 1
<1>1. q \in QueryType
  BY QueryAssumption
<1>2. /\ q.from \in Seq(Collection) \ {<<>>} /\ q.compose \in {"AND", "OR"}
      /\ q.filters \in Seq([field : Field, op : STRING, value : Value])
      /\ q.order \in Seq([field : Field \cup {"__name__"}, desc : BOOLEAN])
      /\ q.offset \in Nat /\ q.limit \in Nat \cup {NoLimit}
  BY <1>1 DEF QueryType
<1>3. IsInjective(q.from) /\ (q.compose = "OR" => q.filters # <<>>)
  BY QueryAssumption
<1>4. q.from \in Seq(Collection) /\ q.from # <<>>
  BY <1>2
<1>5. Len(q.from) \in Nat /\ DOMAIN q.from = 1..Len(q.from) /\ Len(q.from) >= 1
  BY <1>4
<1> QED
  BY <1>2, <1>3, <1>4, <1>5

LEMMA Places ==
    ASSUME NEW r \in Run, NamesApart(r)
    PROVE  /\ \A i \in DOMAIN r.read : Ix(r, Ref(r.read[i])) = i
           /\ \A ds : Of(r, ds) => \A k \in DOMAIN ds :
                 Ix(r, ds[k]) \in DOMAIN r.read /\ Ref(r.read[Ix(r, ds[k])]) = ds[k]
<1>1. ASSUME NEW i \in DOMAIN r.read PROVE Ix(r, Ref(r.read[i])) = i
  <2>1. \A j \in DOMAIN r.read : Ref(r.read[j]) = Ref(r.read[i]) => j = i
    <3>1. \A j \in DOMAIN r.read : Ref(r.read[j]).name = r.read[j].name
      BY DEF Ref
    <3> QED
      BY <3>1 DEF NamesApart
  <2> QED
    BY <2>1 DEF Ix
<1>2. ASSUME NEW ds, Of(r, ds), NEW k \in DOMAIN ds
      PROVE  Ix(r, ds[k]) \in DOMAIN r.read /\ Ref(r.read[Ix(r, ds[k])]) = ds[k]
  BY <1>2 DEF Of, Ix
<1> QED
  BY <1>1, <1>2

-----------------------------------------------------------------------------
(* A handler's step changes what that handler knows; a step of the store   *)
(* changes maps, and what is sound.                                        *)

LEMMA HandlerMoves ==
    ASSUME QInv, NEW h \in Reader, NEW r, r # NoQuery => RunInv(r),
           readers' = [readers EXCEPT ![h] = r], UNCHANGED <<docs, maps>>
    PROVE  QInv'
<1>1. StoreTypes'
  BY DEF QInv, StoreTypes
<1>2. ASSUME NEW g \in Reader, readers'[g] # NoQuery PROVE RunInv(readers[g])'
  <2>1. \A x : RunInv(x) <=> RunInv(x)'
    BY DEF RunInv, MapsAsRead
  <2>2. RunInv(readers'[g])
    <3>1. CASE g = h
      BY <1>2, <3>1 DEF QInv, StoreTypes
    <3>2. CASE g # h
      BY <1>2, <3>2 DEF QInv, StoreTypes
    <3> QED
      BY <3>1, <3>2
  <2> QED
    BY <2>2 DEF RunInv, MapsAsRead
<1> QED
  BY <1>1, <1>2 DEF QInv

(* What changes nothing but the maps known to be written takes nothing     *)
(* away.                                                                   *)
LEMMA ProgressLasts ==
    ASSUME NEW r \in Run, NEW s \in Run, NEW m,
           s.pc = r.pc, s.query = r.query, s.source = r.source, s.docs = r.docs, s.filter = r.filter,
           s.todo = r.todo, s.kept = r.kept, s.sent = r.sent, s.read = r.read, s.written = r.written \cup {m}
    PROVE  /\ Progress(r) => Progress(s)
           /\ Shape(r) => Shape(s)
           /\ NamesApart(r) => NamesApart(s)
<1>1. /\ \A i : Sound(s, i) => Sound(r, i)
      /\ \A x : Ix(s, x) = Ix(r, x)
      /\ \A i, ds : In(s, i, ds) <=> In(r, i, ds)
      /\ \A i, f : Holds(s, i, f) <=> Holds(r, i, f)
      /\ \A i : Hit(s, i) <=> Hit(r, i)
      /\ \A i, j : Before(s, i, j) <=> Before(r, i, j)
      /\ \A ds : Of(r, ds) <=> Of(s, ds)
      /\ \A k : NameAt(s, k) = NameAt(r, k)
      /\ Total(s) = Total(r)
  BY DEF Sound, Ix, In, Holds, Hit, Before, Of, NameAt, Total
<1>2. \A ds : Ascends(s, ds) <=> Ascends(r, ds)
  BY <1>1 DEF Ascends
<1>3. AndPass(r) => AndPass(s)
  BY <1>1, <1>2 DEF AndPass
<1>4. OrPass(r) => OrPass(s)
  BY <1>1, <1>2 DEF OrPass
<1>5. Filtered(r) => Filtered(s)
  BY <1>1 DEF Filtered
<1>6. Sending(r) => Sending(s)
  <2>1. s.written # {}
    OBVIOUS
  <2> QED
    BY <1>1, <2>1 DEF Sending
<1>7. Progress(r) => Progress(s)
  BY <1>3, <1>4, <1>5, <1>6 DEF Progress
<1>8. Shape(r) => Shape(s)
  BY <1>1 DEF Shape
<1>9. NamesApart(r) => NamesApart(s)
  BY DEF NamesApart
<1> QED
  BY <1>7, <1>8, <1>9

LEMMA PutAt ==
    ASSUME NEW X, NEW s \in Seq(X), NEW i \in DOMAIN s, NEW v \in X
    PROVE  LET t == [s EXCEPT ![i] = v] IN
           /\ t \in Seq(X) /\ Len(t) = Len(s) /\ t[i] = v
           /\ \A j \in DOMAIN s : j # i => t[j] = s[j]
<1> DEFINE t == [s EXCEPT ![i] = v]
<1>1. Len(s) \in Nat /\ DOMAIN s = 1..Len(s) /\ s \in [1..Len(s) -> X]
  OBVIOUS
<1>2. t \in [1..Len(s) -> X] /\ t[i] = v /\ \A j \in DOMAIN s : j # i => t[j] = s[j]
  BY <1>1
<1>3. t \in Seq(X) /\ Len(t) = Len(s)
  BY <1>1, <1>2
<1> QED
  BY <1>2, <1>3

LEMMA NewMap ==
    ASSUME QInv, NEW d \in Doc, NEW fields \in FieldMap, PutDocument(d, fields)
    PROVE  QInv'
<1>1. /\ maps' = Append(maps, fields) /\ docs' = [docs EXCEPT ![d] = Len(maps) + 1] /\ UNCHANGED readers
  BY DEF PutDocument
<1>2. /\ maps \in Seq(FieldMap) /\ docs \in [Doc -> 0..Len(maps)] /\ Len(maps) \in Nat
  BY DEF QInv, StoreTypes
<1>3. /\ maps' \in Seq(FieldMap) /\ Len(maps') = Len(maps) + 1
      /\ \A m \in 1..Len(maps) : maps'[m] = maps[m]
  BY <1>1, <1>2
<1>4. StoreTypes'
  <2>1. docs' \in [Doc -> 0..Len(maps')]
    BY <1>1, <1>2, <1>3
  <2>2. \A e, f \in Doc : docs'[e] = docs'[f] /\ docs'[e] # NoMap => e = f
    <3>1. \A e \in Doc : docs[e] # Len(maps) + 1
      BY <1>2
    <3> QED
      BY <1>1, <1>2, <3>1 DEF QInv, StoreTypes
  <2> QED
    BY <1>1, <1>3, <2>1, <2>2 DEF QInv, StoreTypes
<1>5. ASSUME NEW h \in Reader, readers[h] # NoQuery PROVE RunInv(readers[h])'
  <2> DEFINE r == readers[h]
  <2>1. RunInv(r)
    BY <1>5 DEF QInv
  <2>2. \A m \in 1..Len(maps) : m \in 1..Len(maps') /\ maps'[m] = maps[m]
    BY <1>2, <1>3
  <2>3. MapsAsRead(r)'
    BY <1>1, <2>1, <2>2 DEF RunInv, MapsAsRead, Sound
  <2> QED
    BY <1>1, <2>1, <2>3 DEF RunInv
<1> QED
  BY <1>1, <1>4, <1>5 DEF QInv

LEMMA DocumentGone ==
    ASSUME QInv, NEW d \in Doc, DeleteDocument(d)
    PROVE  QInv'
<1>1. docs' = [docs EXCEPT ![d] = NoMap] /\ UNCHANGED <<maps, readers>>
  BY DEF DeleteDocument
<1>2. StoreTypes'
  BY <1>1 DEF QInv, StoreTypes, NoMap
<1>3. ASSUME NEW h \in Reader, readers[h] # NoQuery PROVE RunInv(readers[h])'
  <2>1. RunInv(readers[h])
    BY <1>3 DEF QInv
  <2> QED
    BY <1>1, <2>1 DEF RunInv, MapsAsRead
<1> QED
  BY <1>1, <1>2, <1>3 DEF QInv

LEMMA MapIsWritten ==
    ASSUME QInv, NEW d \in Doc, NEW fields \in FieldMap, NEW mask, UpdateFields(d, fields, mask)
    PROVE  QInv'
<1> DEFINE m == docs[d]
           new == [f \in Field |-> IF f \in mask THEN fields[f] ELSE maps[m][f]]
<1>1. m # NoMap /\ maps' = [maps EXCEPT ![m] = new] /\ readers' = MapWritten(m) /\ UNCHANGED docs
  BY DEF UpdateFields
<1>2. maps \in Seq(FieldMap) /\ docs \in [Doc -> 0..Len(maps)] /\ Len(maps) \in Nat /\ DOMAIN maps = 1..Len(maps)
  BY DEF QInv, StoreTypes
<1>3. m \in DOMAIN maps
  BY <1>1, <1>2 DEF NoMap
<1>4. new \in FieldMap
  <2>1. maps[m] \in FieldMap
    BY <1>2, <1>3
  <2> QED
    BY <2>1 DEF FieldMap
<1> HIDE DEF m, new
<1>5. maps' \in Seq(FieldMap) /\ Len(maps') = Len(maps) /\ \A l \in 1..Len(maps) : l # m => maps'[l] = maps[l]
  BY <1>1, <1>2, <1>3, <1>4, PutAt
<1>6. StoreTypes'
  BY <1>1, <1>5 DEF QInv, StoreTypes, MapWritten
<1>7. ASSUME NEW h \in Reader, readers'[h] # NoQuery PROVE RunInv(readers[h])'
  <2> DEFINE r == readers[h]
             s == [r EXCEPT !.written = @ \cup {m}, !.moved = @ \/ r.pc = "sort"]
  <2>1. readers'[h] = IF \E i \in DOMAIN r.read : r.read[i].map = m THEN s ELSE r
    BY <1>1 DEF MapWritten
  <2>2. r # NoQuery
    BY <1>7, <2>1 DEF NoQuery
  <2>3. RunInv(r)
    BY <2>2 DEF QInv
  <2>4. CASE \E i \in DOMAIN r.read : r.read[i].map = m
    <3>1. r \in Run
      BY <2>3 DEF RunInv
    <3>2. m \in Nat
      BY <1>2, <1>3
    <3>3. /\ s \in Run
          /\ s.pc = r.pc /\ s.query = r.query /\ s.source = r.source /\ s.docs = r.docs /\ s.filter = r.filter
          /\ s.todo = r.todo /\ s.kept = r.kept /\ s.sent = r.sent /\ s.read = r.read
          /\ s.written = r.written \cup {m}
      <4>1. r.written \cup {m} \in SUBSET Nat /\ (r.moved \/ r.pc = "sort") \in BOOLEAN
        BY <3>1, <3>2 DEF Run
      <4> QED
        BY <3>1, <4>1 DEF Run
    <3> HIDE DEF s
    <3>4. Progress(s) /\ Shape(s) /\ NamesApart(s)
      BY <2>3, <3>1, <3>3, ProgressLasts DEF RunInv
    <3>5. MapsAsRead(r)
      BY <2>3 DEF RunInv
    <3>6. MapsAsRead(readers[h])'
      <4>1. readers'[h] = s
        BY <2>1, <2>4
      <4>2. ASSUME NEW i \in DOMAIN s.read
            PROVE  /\ s.read[i].map \in 1..Len(maps')
                   /\ s.read[i].map \notin s.written => maps'[s.read[i].map] = s.read[i].fields
        BY <1>5, <3>3, <3>5 DEF MapsAsRead, Sound
      <4>3. \A l \in s.written : \E i \in DOMAIN s.read : s.read[i].map = l
        BY <2>4, <3>3, <3>5 DEF MapsAsRead
      <4>4. s.written # {}
        BY <3>3
      <4> QED
        BY <4>1, <4>2, <4>3, <4>4 DEF MapsAsRead, Sound
    <3> QED
      BY <2>1, <2>4, <3>3, <3>4, <3>6 DEF RunInv
  <2>5. CASE ~\E i \in DOMAIN r.read : r.read[i].map = m
    <3>1. MapsAsRead(readers[h])'
      BY <1>5, <2>1, <2>3, <2>5 DEF RunInv, MapsAsRead, Sound
    <3> QED
      BY <2>1, <2>3, <2>5, <3>1 DEF RunInv
  <2> QED
    BY <2>4, <2>5
<1> QED
  BY <1>6, <1>7 DEF QInv

-----------------------------------------------------------------------------
(* The collection of the documents.                                        *)

LEMMA DocsOf ==
    ASSUME NEW S, S \subseteq Doc
    PROVE  LET s == Ordered(S, <) IN
           /\ Enumerates(s, S) /\ Cardinality(S) \in Nat /\ DOMAIN s = 1..Cardinality(S)
           /\ \A i, j \in DOMAIN s : s[i] \in S /\ (s[i] = s[j] => i = j)
<1>1. IsFiniteSet(S) /\ S \subseteq Nat
  BY QueryAssumption, FS_Subset
<1>2. Enumerates(Ordered(S, <), S) /\ Cardinality(S) \in Nat
  BY <1>1, NamesInOrder, FS_CardinalityType
<1> QED
  BY <1>2 DEF Enumerates

LEMMA InitQInv == QueriesInit => QInv
<1> SUFFICES ASSUME QueriesInit PROVE QInv
  OBVIOUS
<1>1. PICK loaded \in Loaded :
          LET there == Ordered({d \in Doc : loaded[d] # NoFields}, <) IN
          /\ maps = [i \in DOMAIN there |-> loaded[there[i]]]
          /\ docs = [d \in Doc |-> IF loaded[d] = NoFields THEN NoMap
                                   ELSE CHOOSE i \in DOMAIN there : there[i] = d]
          /\ readers = [h \in Reader |-> NoQuery]
  BY DEF QueriesInit
<1> DEFINE S == {d \in Doc : loaded[d] # NoFields}
           there == Ordered(S, <)
<1>2. /\ Enumerates(there, S) /\ Cardinality(S) \in Nat /\ DOMAIN there = 1..Cardinality(S)
      /\ \A i, j \in DOMAIN there : there[i] \in S /\ (there[i] = there[j] => i = j)
  BY DocsOf
<1>3. /\ maps = [i \in DOMAIN there |-> loaded[there[i]]]
      /\ docs = [d \in Doc |-> IF loaded[d] = NoFields THEN NoMap ELSE CHOOSE i \in DOMAIN there : there[i] = d]
  BY <1>1
<1> HIDE DEF there
<1>4. \A d \in S : loaded[d] \in FieldMap
  BY QueryAssumption DEF FieldMap
<1>5. maps \in [1..Cardinality(S) -> FieldMap]
  BY <1>2, <1>3, <1>4
<1>6. maps \in Seq(FieldMap) /\ Len(maps) = Cardinality(S)
  <2> DEFINE n == Cardinality(S)
  <2>1. n \in Nat /\ maps \in [1..n -> FieldMap]
    BY <1>2, <1>5
  <2> HIDE DEF n
  <2>2. maps \in Seq(FieldMap) /\ Len(maps) = n
    BY <2>1
  <2> QED
    BY <2>2 DEF n
<1>7. \A d \in S : docs[d] \in 1..Cardinality(S) /\ there[docs[d]] = d
  BY <1>2, <1>3 DEF Enumerates
<1>8. \A d \in Doc \ S : docs[d] = NoMap
  BY <1>3
<1>9. docs \in [Doc -> 0..Len(maps)]
  <2>1. \A d \in Doc : docs[d] \in 0..Len(maps)
    BY <1>2, <1>6, <1>7, <1>8 DEF NoMap
  <2> QED
    BY <1>3, <2>1
<1>10. \A d, e \in Doc : docs[d] = docs[e] /\ docs[d] # NoMap => d = e
  BY <1>7, <1>8
<1>11. readers = [h \in Reader |-> NoQuery]
  BY <1>1
<1> QED
  BY <1>6, <1>9, <1>10, <1>11 DEF QInv, StoreTypes

LEMMA BeginInv ==
    ASSUME QInv, NEW h \in Reader, NEW q \in Query, RunQuery(h, q)
    PROVE  QInv'
<1> DEFINE r == [pc |-> "collect", query |-> q, source |-> 1, docs |-> <<>>, filter |-> 1,
                 todo |-> <<>>, kept |-> <<>>, sent |-> <<>>,
                 read |-> <<>>, written |-> {}, moved |-> FALSE]
<1>1. readers' = [readers EXCEPT ![h] = r] /\ UNCHANGED <<docs, maps>>
  BY DEF RunQuery
<1>2. r \in Run
  BY DEF Run
<1>3. Len(q.from) \in Nat /\ Len(q.from) >= 1
  BY QueryFacts
<1>4. Shape(r)
  BY <1>3 DEF Shape, Of
<1>5. NamesApart(r) /\ MapsAsRead(r)
  BY DEF NamesApart, MapsAsRead
<1>6. Progress(r)
  BY DEF Progress
<1>7. RunInv(r)
  BY <1>2, <1>4, <1>5, <1>6 DEF RunInv
<1> HIDE DEF r
<1> QED
  BY <1>1, <1>7, HandlerMoves

LEMMA EndInv ==
    ASSUME QInv, NEW h \in Reader, EndQuery(h)
    PROVE  QInv'
  BY HandlerMoves DEF EndQuery, At, Becomes

(* At the beginning of the first pass, and if there is none.               *)
LEMMA AllIsThere ==
    ASSUME NEW r \in Run, NamesApart(r), Shape(r), r.todo = r.docs, r.kept = <<>>, r.filter = 1,
           Len(r.docs) = Len(r.read), \A i \in DOMAIN r.read : r.docs[i] = Ref(r.read[i])
    PROVE  /\ AndPass(r) /\ OrPass(r)
           /\ r.query.filters = <<>> => Filtered(r)
<1>1. DOMAIN r.docs = DOMAIN r.read /\ DOMAIN r.read = 1..Len(r.read) /\ Len(r.read) \in Nat /\ DOMAIN r.kept = {}
  BY RunFacts
<1>2. \A k \in DOMAIN r.docs : Ix(r, r.docs[k]) = k
  BY <1>1, Places
<1>3. \A i \in DOMAIN r.read : In(r, i, r.docs)
  BY <1>1 DEF In
<1>4. Ascends(r, r.docs)
  BY <1>1, <1>2 DEF Ascends
<1>5. AndPass(r)
  BY <1>1, <1>3, <1>4 DEF AndPass, Ascends
<1>6. OrPass(r)
  BY <1>1, <1>3, <1>4 DEF OrPass
<1>7. ASSUME r.query.filters = <<>> PROVE Filtered(r)
  <2>1. r.query.compose = "AND"
    BY <1>7, RunFacts, QueryFacts
  <2>2. \A i \in DOMAIN r.read : Hit(r, i)
    BY <1>7, <2>1 DEF Hit, Matches
  <2>3. \A i, j \in DOMAIN r.read : i < j => Before(r, i, j)
    BY <2>1 DEF Before, FirstMatch
  <2>4. \A k, l \in DOMAIN r.docs : k < l => r.docs[k] # r.docs[l]
    BY <1>1, <1>2
  <2> QED
    BY <1>1, <1>2, <1>3, <2>2, <2>3, <2>4 DEF Filtered
<1> QED
  BY <1>5, <1>6, <1>7

LEMMA HandlerHere ==
    ASSUME QInv, NEW h \in Reader, readers[h].pc # "idle"
    PROVE  readers[h] # NoQuery /\ readers[h] \in Run /\ RunInv(readers[h])
<1>1. readers[h] # NoQuery
  BY DEF NoQuery
<1> QED
  BY <1>1 DEF QInv, RunInv

LEMMA CollectInv ==
    ASSUME QInv, NEW h \in Reader, Collect(h)
    PROVE  QInv'
<1> DEFINE r == readers[h]
           c == r.query.from[r.source]
           S == {d \in Members[c] : docs[d] # NoMap}
           names == Ordered(S, <)
           found == [i \in DOMAIN names |->
                        [name |-> names[i], map |-> docs[names[i]], fields |-> maps[docs[names[i]]]]]
           refs == [i \in DOMAIN found |-> [name |-> found[i].name, map |-> found[i].map]]
           done == r.docs \o refs
           pc == IF r.source < Len(r.query.from) THEN "collect"
                 ELSE IF r.query.filters = <<>> THEN "order" ELSE "filter"
           s == [r EXCEPT !.docs = done, !.todo = done, !.source = @ + 1, !.read = @ \o found, !.pc = pc]
<1>1. r.pc = "collect" /\ readers' = [readers EXCEPT ![h] = s] /\ UNCHANGED <<docs, maps>>
  BY DEF Collect, At, Becomes, CollectionDocuments
<1>2. r # NoQuery /\ r \in Run /\ RunInv(r)
  BY <1>1, HandlerHere
<1>3. /\ r.source \in Nat /\ r.source >= 1 /\ r.source <= Len(r.query.from)
      /\ r.query.from \in Seq(Collection) /\ Len(r.query.from) \in Nat /\ DOMAIN r.query.from = 1..Len(r.query.from)
      /\ IsInjective(r.query.from)
      /\ r.kept = <<>> /\ r.filter = 1 /\ r.todo = r.docs /\ r.sent = <<>>
      /\ Len(r.docs) = Len(r.read) /\ \A i \in DOMAIN r.read : r.docs[i] = Ref(r.read[i])
  <2>1. r.pc = "collect" /\ r \in Run /\ RunInv(r)
    BY <1>1, <1>2
  <2> HIDE DEF r
  <2>2. r.query \in Query /\ r.source \in Nat
    BY <2>1, RunFacts
  <2>3. /\ r.query.from \in Seq(Collection) /\ Len(r.query.from) \in Nat
        /\ DOMAIN r.query.from = 1..Len(r.query.from) /\ IsInjective(r.query.from)
    BY <2>2, QueryFacts
  <2> QED
    BY <2>1, <2>2, <2>3 DEF RunInv, Shape
<1>4. c \in Collection /\ S \subseteq Doc
  BY <1>3, QueryAssumption
<1> DEFINE n == Cardinality(S)
<1>5. /\ n \in Nat /\ DOMAIN names = 1..n
      /\ \A i, j \in 1..n : names[i] \in S /\ (names[i] = names[j] => i = j)
  BY <1>4, DocsOf
<1>6. \A d \in S : d \in Doc /\ docs[d] \in 1..Len(maps) /\ docs[d] \in Nat /\ maps[docs[d]] \in FieldMap
  <2>1. maps \in Seq(FieldMap) /\ docs \in [Doc -> 0..Len(maps)]
    BY DEF QInv, StoreTypes
  <2> QED
    BY <1>4, <2>1 DEF NoMap
<1> HIDE DEF n, names
<1>7. /\ found \in Seq(Found) /\ Len(found) = n /\ DOMAIN found = 1..n
      /\ \A i \in 1..n : /\ found[i].name = names[i] /\ found[i].map = docs[names[i]]
                         /\ found[i].fields = maps[docs[names[i]]]
  <2>1. \A i \in 1..n : names[i] \in Doc /\ docs[names[i]] \in Nat /\ maps[docs[names[i]]] \in FieldMap
    BY <1>5, <1>6
  <2>2. found \in [1..n -> Found]
    BY <1>5, <2>1 DEF Found
  <2>3. \A i \in 1..n : /\ found[i].name = names[i] /\ found[i].map = docs[names[i]]
                        /\ found[i].fields = maps[docs[names[i]]]
    BY <1>5
  <2> HIDE DEF found
  <2> QED
    BY <1>5, <2>2, <2>3
<1> HIDE DEF found
<1>8. /\ refs \in Seq(RefDoc) /\ Len(refs) = n /\ \A i \in 1..n : refs[i] = Ref(found[i])
  <2>1. \A i \in 1..n : found[i] \in Found
    BY <1>7
  <2>2. refs \in [1..n -> RefDoc]
    BY <1>7, <2>1 DEF Found, RefDoc
  <2>3. \A i \in 1..n : refs[i] = Ref(found[i])
    BY <1>7 DEF Ref
  <2> HIDE DEF refs
  <2> QED
    BY <1>5, <2>2, <2>3
<1> HIDE DEF refs
<1> DEFINE read == r.read \o found
           m == Len(r.read)
<1>9. /\ read \in Seq(Found) /\ Len(read) = m + n /\ m \in Nat /\ DOMAIN read = 1..(m + n) /\ DOMAIN r.read = 1..m
      /\ \A i \in 1..m : read[i] = r.read[i]
      /\ \A i \in 1..n : read[m + i] = found[i]
  <2> DEFINE old == r.read
  <2>1. old \in Seq(Found)
    BY <1>2, RunFacts
  <2> HIDE DEF old
  <2>2. /\ old \o found \in Seq(Found) /\ Len(old \o found) = Len(old) + n /\ Len(old) \in Nat
        /\ DOMAIN (old \o found) = 1..(Len(old) + n) /\ DOMAIN old = 1..Len(old)
        /\ \A i \in 1..Len(old) : (old \o found)[i] = old[i]
        /\ \A i \in 1..n : (old \o found)[Len(old) + i] = found[i]
    <3>1. found \in Seq(Found) /\ Len(found) = n
      BY <1>7
    <3>2. /\ old \o found \in Seq(Found) /\ Len(old \o found) = Len(old) + Len(found) /\ Len(old) \in Nat
          /\ DOMAIN (old \o found) = 1..(Len(old) + Len(found)) /\ DOMAIN old = 1..Len(old)
          /\ \A i \in 1..Len(old) : (old \o found)[i] = old[i]
          /\ \A i \in 1..Len(found) : (old \o found)[Len(old) + i] = found[i]
      BY <2>1, <3>1
    <3> QED
      BY <3>1, <3>2
  <2> QED
    BY <2>2 DEF old
<1>10. /\ done \in Seq(RefDoc) /\ Len(done) = m + n /\ DOMAIN done = 1..(m + n)
       /\ \A i \in 1..m : done[i] = r.docs[i]
       /\ \A i \in 1..n : done[m + i] = refs[i]
  <2> DEFINE old == r.docs
  <2>1. old \in Seq(RefDoc) /\ Len(old) = m
    BY <1>2, <1>3, RunFacts
  <2> HIDE DEF old, m
  <2>2. /\ old \o refs \in Seq(RefDoc) /\ Len(old \o refs) = m + n
        /\ DOMAIN (old \o refs) = 1..(m + n)
        /\ \A i \in 1..m : (old \o refs)[i] = old[i]
        /\ \A i \in 1..n : (old \o refs)[m + i] = refs[i]
    <3>1. refs \in Seq(RefDoc) /\ Len(refs) = n
      BY <1>8
    <3>2. /\ old \o refs \in Seq(RefDoc) /\ Len(old \o refs) = Len(old) + Len(refs)
          /\ DOMAIN (old \o refs) = 1..(Len(old) + Len(refs))
          /\ \A i \in 1..Len(old) : (old \o refs)[i] = old[i]
          /\ \A i \in 1..Len(refs) : (old \o refs)[Len(old) + i] = refs[i]
      BY <2>1, <3>1
    <3> QED
      BY <2>1, <3>1, <3>2
  <2> QED
    BY <2>2 DEF old
<1> HIDE DEF read, done, m
<1>11. \A i \in 1..(m + n) : i \in 1..m \/ (i - m \in 1..n /\ i = m + (i - m))
  BY <1>5, <1>9
<1>12. \A i \in DOMAIN read : done[i] = Ref(read[i])
  <2> SUFFICES ASSUME NEW i \in 1..(m + n) PROVE done[i] = Ref(read[i])
    BY <1>9
  <2>1. CASE i \in 1..m
    BY <1>3, <1>9, <1>10, <2>1
  <2>2. CASE i - m \in 1..n /\ i = m + (i - m)
    BY <1>8, <1>9, <1>10, <2>2
  <2> QED
    BY <1>11, <2>1, <2>2
<1>13. /\ s \in Run /\ s.pc = pc /\ s.query = r.query /\ s.source = r.source + 1 /\ s.docs = done /\ s.filter = r.filter
       /\ s.todo = done /\ s.kept = r.kept /\ s.sent = r.sent /\ s.read = read /\ s.written = r.written
       /\ s.moved = r.moved
  <2>1. /\ pc \in {"collect", "filter", "order", "sort", "send"} /\ r.source + 1 \in Nat
        /\ done \in Seq(RefDoc) /\ read \in Seq(Found) /\ r \in Run /\ r.source \in Nat
    BY <1>2, <1>3, <1>9, <1>10
  <2>2. s = [r EXCEPT !.docs = done, !.todo = done, !.source = r.source + 1, !.read = read, !.pc = pc]
    BY DEF read
  <2> HIDE DEF r, pc, s
  <2> QED
    BY <2>1, <2>2 DEF Run
<1> HIDE DEF s
<1>14. NamesApart(s)
  <2>1. \A i \in 1..n : read[m + i].name \in Members[c]
    BY <1>5, <1>7, <1>9
  <2>2. \A i \in 1..m : \E k \in 1..(r.source - 1) : read[i].name \in Members[r.query.from[k]]
    BY <1>2, <1>9 DEF RunInv, NamesApart
  <2>3. ASSUME NEW k \in 1..(r.source - 1)
        PROVE  Members[r.query.from[k]] \cap Members[c] = {}
    <3>1. k \in DOMAIN r.query.from /\ r.source \in DOMAIN r.query.from /\ k # r.source
      BY <1>3
    <3>2. r.query.from[k] # c /\ r.query.from[k] \in Collection
      BY <1>3, <3>1 DEF IsInjective
    <3> QED
      BY <1>4, <3>2, QueryAssumption
  <2>4. \A i \in 1..m, j \in 1..n : read[i].name # read[m + j].name
    BY <2>1, <2>2, <2>3
  <2>5. \A i, j \in 1..m : read[i].name = read[j].name => i = j
    BY <1>2, <1>9 DEF RunInv, NamesApart
  <2>6. \A i, j \in 1..n : read[m + i].name = read[m + j].name => i = j
    BY <1>5, <1>7, <1>9
  <2>7. \A i, j \in DOMAIN read : read[i].name = read[j].name => i = j
    <3> SUFFICES ASSUME NEW i \in DOMAIN read, NEW j \in DOMAIN read, read[i].name = read[j].name PROVE i = j
      OBVIOUS
    <3>1. i \in 1..m \/ (i - m \in 1..n /\ i = m + (i - m))
      BY <1>9, <1>11
    <3>2. j \in 1..m \/ (j - m \in 1..n /\ j = m + (j - m))
      BY <1>9, <1>11
    <3>3. CASE i \in 1..m /\ j \in 1..m
      BY <2>5, <3>3
    <3>4. CASE i - m \in 1..n /\ j - m \in 1..n /\ i = m + (i - m) /\ j = m + (j - m)
      BY <2>6, <3>4
    <3> QED
      BY <2>4, <3>1, <3>2, <3>3, <3>4
  <2>8. \A i \in DOMAIN read : \E k \in 1..r.source : read[i].name \in Members[r.query.from[k]]
    <3> SUFFICES ASSUME NEW i \in DOMAIN read
                 PROVE  \E k \in 1..r.source : read[i].name \in Members[r.query.from[k]]
      OBVIOUS
    <3>1. r.source \in 1..r.source /\ \A k \in 1..(r.source - 1) : k \in 1..r.source
      BY <1>3
    <3>2. CASE i \in 1..m
      BY <2>2, <3>1, <3>2
    <3>3. CASE i - m \in 1..n /\ i = m + (i - m)
      BY <2>1, <3>1, <3>3
    <3> QED
      BY <1>9, <1>11, <3>2, <3>3
  <2>9. s.source - 1 = r.source
    BY <1>3, <1>13
  <2> QED
    BY <1>13, <2>7, <2>8, <2>9 DEF NamesApart
<1>15. MapsAsRead(s)
  <2>1. \A i \in 1..n : /\ read[m + i].map \in 1..Len(maps)
                        /\ maps[read[m + i].map] = read[m + i].fields
    <3> SUFFICES ASSUME NEW i \in 1..n
                 PROVE  read[m + i].map \in 1..Len(maps) /\ maps[read[m + i].map] = read[m + i].fields
      OBVIOUS
    <3>1. names[i] \in S /\ read[m + i] = found[i]
      BY <1>5, <1>9
    <3>2. docs[names[i]] \in 1..Len(maps)
      BY <1>6, <3>1
    <3> QED
      BY <1>7, <3>1, <3>2
  <2>2. \A i \in 1..m : /\ read[i].map \in 1..Len(maps)
                        /\ read[i].map \notin r.written => maps[read[i].map] = read[i].fields
    BY <1>2, <1>9 DEF RunInv, MapsAsRead, Sound
  <2>3. \A l \in r.written : \E i \in 1..m : read[i].map = l
    BY <1>2, <1>9 DEF RunInv, MapsAsRead
  <2>4. \A i \in 1..m : i \in 1..(m + n)
    BY <1>5, <1>9
  <2>5. r.moved => r.written # {}
    BY <1>2 DEF RunInv, MapsAsRead
  <2>6. \A i \in 1..(m + n) : /\ read[i].map \in 1..Len(maps)
                              /\ read[i].map \notin r.written => maps[read[i].map] = read[i].fields
    <3> SUFFICES ASSUME NEW i \in 1..(m + n)
                 PROVE  /\ read[i].map \in 1..Len(maps)
                        /\ read[i].map \notin r.written => maps[read[i].map] = read[i].fields
      OBVIOUS
    <3>1. CASE i \in 1..m
      BY <2>2, <3>1
    <3>2. CASE i - m \in 1..n /\ i = m + (i - m)
      BY <2>1, <3>2
    <3> QED
      BY <1>11, <3>1, <3>2
  <2> QED
    BY <1>9, <1>13, <2>3, <2>4, <2>5, <2>6 DEF MapsAsRead, Sound
<1>16. Shape(s)
  <2>1. Of(s, done)
    BY <1>9, <1>10, <1>12, <1>13 DEF Of
  <2>2. Of(s, <<>>)
    BY DEF Of
  <2>3. s.source \in 1..(Len(s.query.from) + 1) /\ (pc = "collect" => s.source <= Len(s.query.from))
    BY <1>3, <1>13
  <2>4. pc = "filter" => 1 \in DOMAIN s.query.filters
    BY <1>2, <1>13, RunFacts, QueryFacts
  <2>5. pc # "send"
    OBVIOUS
  <2> QED
    BY <1>3, <1>9, <1>10, <1>12, <1>13, <2>1, <2>2, <2>3, <2>4, <2>5 DEF Shape
<1>17. Progress(s)
  <2>1. /\ AndPass(s) /\ OrPass(s)
        /\ s.query.filters = <<>> => Filtered(s)
    BY <1>3, <1>9, <1>10, <1>12, <1>13, <1>14, <1>16, AllIsThere
  <2>2. /\ pc \in {"collect", "filter", "order"} /\ (pc = "order" => s.query.filters = <<>>)
    BY <1>13
  <2> QED
    BY <1>13, <2>1, <2>2 DEF Progress
<1>18. RunInv(s)
  BY <1>13, <1>14, <1>15, <1>16, <1>17 DEF RunInv
<1> QED
  BY <1>1, <1>18, HandlerMoves DEF s, done, read

-----------------------------------------------------------------------------
(* The filters.                                                            *)

LEMMA WithoutFirst ==
    ASSUME NEW X, NEW s \in Seq(X), s # <<>>
    PROVE  /\ Head(s) \in X /\ Head(s) = s[1] /\ 1 \in DOMAIN s
           /\ Tail(s) \in Seq(X) /\ Len(Tail(s)) = Len(s) - 1
           /\ \A k \in DOMAIN Tail(s) : k + 1 \in DOMAIN s /\ Tail(s)[k] = s[k + 1]
           /\ \A k \in DOMAIN s : k # 1 => k - 1 \in DOMAIN Tail(s) /\ Tail(s)[k - 1] = s[k]
  OBVIOUS

LEMMA WithLast ==
    ASSUME NEW X, NEW s \in Seq(X), NEW x \in X
    PROVE  /\ Append(s, x) \in Seq(X) /\ Len(Append(s, x)) = Len(s) + 1
           /\ DOMAIN Append(s, x) = 1..(Len(s) + 1) /\ Len(s) \in Nat
           /\ Append(s, x)[Len(s) + 1] = x /\ Len(s) + 1 \in DOMAIN Append(s, x)
           /\ \A k \in DOMAIN s : k \in DOMAIN Append(s, x) /\ Append(s, x)[k] = s[k] /\ k < Len(s) + 1
           /\ \A k \in DOMAIN Append(s, x) : k \in DOMAIN s \/ k = Len(s) + 1
  OBVIOUS

(* What a query's filters say together.                                    *)
LEMMA HitIs ==
    ASSUME NEW r \in Run, NEW i
    PROVE  /\ r.query.compose = "AND" => (Hit(r, i) <=> \A f \in DOMAIN r.query.filters : Holds(r, i, f))
           /\ r.query.compose = "OR" => (Hit(r, i) <=> \E f \in DOMAIN r.query.filters : Holds(r, i, f))
<1> DEFINE q == r.query
           fields == r.read[i].fields
           holds == {f \in DOMAIN q.filters : matchesOp(fields[q.filters[f].field], q.filters[f].value, q.filters[f].op)}
<1>1. \A f \in DOMAIN q.filters : f \in holds <=> Holds(r, i, f)
  BY DEF Holds
<1>2. Hit(r, i) <=> IF q.compose = "AND" THEN holds = DOMAIN q.filters ELSE holds # {}
  BY DEF Hit, Matches
<1>3. holds \subseteq DOMAIN q.filters
  OBVIOUS
<1> HIDE DEF holds, fields
<1> QED
  BY <1>1, <1>2, <1>3

LEMMA FirstIs ==
    ASSUME NEW r \in Run, NEW i, r.query.compose = "OR", NEW e \in DOMAIN r.query.filters, Holds(r, i, e)
    PROVE  LET first == FirstMatch(r.query, r.read[i].fields) IN
           /\ first \in DOMAIN r.query.filters /\ Holds(r, i, first)
           /\ \A f \in DOMAIN r.query.filters : Holds(r, i, f) => first <= f
<1> DEFINE q == r.query
           fields == r.read[i].fields
           one(f) == [q EXCEPT !.filters = <<q.filters[f]>>]
<1>1. q \in QueryType /\ Len(q.filters) \in Nat /\ DOMAIN q.filters = 1..Len(q.filters)
  BY RunFacts, QueryFacts
<1>2. ASSUME NEW f \in DOMAIN q.filters PROVE Matches(one(f), fields) <=> Holds(r, i, f)
  <2>1. one(f).filters = <<q.filters[f]>> /\ one(f).compose = "OR"
    BY <1>1 DEF QueryType
  <2>2. DOMAIN <<q.filters[f]>> = {1} /\ <<q.filters[f]>>[1] = q.filters[f]
    OBVIOUS
  <2> HIDE DEF one
  <2> DEFINE l == one(f).filters
  <2>3. DOMAIN l = {1} /\ l[1] = q.filters[f]
    BY <2>1, <2>2
  <2>4. Matches(one(f), fields) <=>
           {k \in DOMAIN l : matchesOp(fields[l[k].field], l[k].value, l[k].op)} # {}
    BY <2>1 DEF Matches
  <2> HIDE DEF l
  <2> QED
    BY <2>3, <2>4 DEF Holds
<1>3. FirstMatch(q, fields) =
         CHOOSE f \in DOMAIN q.filters :
            /\ Matches(one(f), fields)
            /\ \A j \in 1..(f - 1) : ~Matches(one(j), fields)
  BY DEF FirstMatch
<1> DEFINE T == {f \in DOMAIN q.filters : Holds(r, i, f)}
<1>4. PICK least \in T : \A k \in T : least <= k
  <2>1. T \subseteq Nat /\ T # {}
    BY <1>1
  <2> HIDE DEF T
  <2> QED
    BY <2>1, LeastOf
<1> HIDE DEF one
<1>5. \A f \in DOMAIN q.filters : \A j \in 1..(f - 1) : j \in DOMAIN q.filters
  BY <1>1
<1>6. least \in DOMAIN q.filters /\ Matches(one(least), fields) /\ \A j \in 1..(least - 1) : ~Matches(one(j), fields)
  <2>1. least \in DOMAIN q.filters /\ Holds(r, i, least)
    BY <1>4
  <2>2. ASSUME NEW j \in 1..(least - 1) PROVE ~Matches(one(j), fields)
    <3>1. j \in DOMAIN q.filters /\ ~(least <= j)
      BY <1>1, <2>1
    <3> QED
      BY <1>2, <1>4, <3>1
  <2> QED
    BY <1>2, <2>1, <2>2
<1> DEFINE first == FirstMatch(q, fields)
<1>7. first \in DOMAIN q.filters /\ Matches(one(first), fields) /\ \A j \in 1..(first - 1) : ~Matches(one(j), fields)
  BY <1>3, <1>6
<1> HIDE DEF first
<1>8. ASSUME NEW f \in DOMAIN q.filters, Holds(r, i, f) PROVE first <= f
  <2>1. f \in 1..(first - 1) \/ first <= f
    BY <1>1, <1>7
  <2> QED
    BY <1>2, <1>7, <1>8, <2>1
<1> QED
  BY <1>2, <1>7, <1>8 DEF first

(* A list that goes on, or stops, where another did.                       *)
LEMMA SameView ==
    ASSUME NEW r, NEW s, s.query = r.query, s.read = r.read, s.written = r.written
    PROVE  /\ \A i : Sound(s, i) <=> Sound(r, i)
           /\ \A x : Ix(s, x) = Ix(r, x)
           /\ \A i, ds : In(s, i, ds) <=> In(r, i, ds)
           /\ \A i, f : Holds(s, i, f) <=> Holds(r, i, f)
           /\ \A i : Hit(s, i) <=> Hit(r, i)
           /\ \A i, j : Before(s, i, j) <=> Before(r, i, j)
           /\ \A ds : Of(s, ds) <=> Of(r, ds)
           /\ \A ds : Ascends(s, ds) <=> Ascends(r, ds)
  BY DEF Sound, Ix, In, Holds, Hit, Before, Of, Ascends

(* What a step of a pass does: the first document of todo goes, to the end *)
(* of kept or nowhere.                                                     *)
PassStep(r, s, keep) ==
    LET x == Head(r.todo) IN
    /\ s.query = r.query /\ s.read = r.read /\ s.written = r.written /\ s.filter = r.filter
    /\ r.todo # <<>> /\ s.todo = Tail(r.todo)
    /\ s.kept = IF keep THEN Append(r.kept, x) ELSE r.kept

LEMMA PassFacts ==
    ASSUME NEW r \in Run, NEW s \in Run, NEW keep \in BOOLEAN, PassStep(r, s, keep),
           NamesApart(r), Of(r, r.todo), Of(r, r.kept)
    PROVE  LET x == r.todo[1]  i0 == Ix(r, x)  n == Len(r.kept) + 1 IN
           /\ 1 \in DOMAIN r.todo /\ x \in RefDoc /\ i0 \in DOMAIN r.read /\ Ref(r.read[i0]) = x
           /\ \A k \in DOMAIN s.todo : k + 1 \in DOMAIN r.todo /\ s.todo[k] = r.todo[k + 1]
           /\ \A i : In(r, i, r.todo) => Ref(r.read[i]) = x \/ In(r, i, s.todo)
           /\ \A k \in DOMAIN s.kept : \/ k \in DOMAIN r.kept /\ s.kept[k] = r.kept[k]
                                       \/ k = n /\ keep /\ s.kept[k] = x
           /\ \A i : In(r, i, r.kept) => In(r, i, s.kept)
           /\ keep => \A i : Ref(r.read[i]) = x => In(r, i, s.kept)
           /\ \A k \in DOMAIN r.kept : k < n
           /\ n \in Nat
<1> DEFINE todo == r.todo
           kept == r.kept
           x == todo[1]
<1>1. todo \in Seq(RefDoc) /\ kept \in Seq(RefDoc) /\ todo # <<>>
  BY RunFacts DEF PassStep
<1>2. s.todo = Tail(todo) /\ s.kept = IF keep THEN Append(kept, Head(todo)) ELSE kept
  BY DEF PassStep
<1> HIDE DEF todo, kept
<1>3. /\ Head(todo) \in RefDoc /\ Head(todo) = x /\ 1 \in DOMAIN todo
      /\ \A k \in DOMAIN Tail(todo) : k + 1 \in DOMAIN todo /\ Tail(todo)[k] = todo[k + 1]
      /\ \A k \in DOMAIN todo : k # 1 => k - 1 \in DOMAIN Tail(todo) /\ Tail(todo)[k - 1] = todo[k]
  BY <1>1, WithoutFirst
<1> HIDE DEF x
<1>4. /\ Len(kept) \in Nat
      /\ \A k \in DOMAIN kept : k \in DOMAIN Append(kept, x) /\ Append(kept, x)[k] = kept[k] /\ k < Len(kept) + 1
      /\ \A k \in DOMAIN Append(kept, x) : k \in DOMAIN kept \/ k = Len(kept) + 1
      /\ Append(kept, x)[Len(kept) + 1] = x /\ Len(kept) + 1 \in DOMAIN Append(kept, x)
  BY <1>1, <1>3, WithLast
<1>5. \A i : In(r, i, todo) => Ref(r.read[i]) = x \/ In(r, i, s.todo)
  <2> SUFFICES ASSUME NEW i, In(r, i, todo), Ref(r.read[i]) # x PROVE In(r, i, s.todo)
    OBVIOUS
  <2>1. PICK k \in DOMAIN todo : todo[k] = Ref(r.read[i])
    BY DEF In
  <2>2. k # 1
    BY <2>1 DEF x
  <2>3. k - 1 \in DOMAIN s.todo /\ s.todo[k - 1] = Ref(r.read[i])
    BY <1>2, <1>3, <2>1, <2>2
  <2> QED
    BY <2>3 DEF In
<1>6. \A k \in DOMAIN s.kept : \/ k \in DOMAIN kept /\ s.kept[k] = kept[k]
                               \/ k = Len(kept) + 1 /\ keep /\ s.kept[k] = x
  BY <1>2, <1>3, <1>4
<1>7. \A i : In(r, i, kept) => In(r, i, s.kept)
  BY <1>2, <1>3, <1>4 DEF In
<1>8. keep => \A i : Ref(r.read[i]) = x => In(r, i, s.kept)
  <2>1. keep => Len(kept) + 1 \in DOMAIN s.kept /\ s.kept[Len(kept) + 1] = x
    BY <1>2, <1>3, <1>4
  <2> QED
    BY <2>1 DEF In
<1>9. Ix(r, x) \in DOMAIN r.read /\ Ref(r.read[Ix(r, x)]) = x
  BY <1>3, Places DEF x, todo
<1>10. Len(kept) + 1 \in Nat
  BY <1>4
<1> QED
  BY <1>2, <1>3, <1>4, <1>5, <1>6, <1>7, <1>8, <1>9, <1>10 DEF todo, kept, x

LEMMA AndStep ==
    ASSUME NEW r \in Run, NEW s \in Run, NEW keep \in BOOLEAN, PassStep(r, s, keep),
           NamesApart(r), Of(r, r.todo), Of(r, r.kept), AndPass(r), r.filter # 0,
           Sound(r, Ix(r, r.todo[1])) => (keep <=> Holds(r, Ix(r, r.todo[1]), r.filter))
    PROVE  AndPass(s)
<1> DEFINE x == r.todo[1]
           i0 == Ix(r, x)
           n == Len(r.kept) + 1
<1>1. s.query = r.query /\ s.read = r.read /\ s.written = r.written /\ s.filter = r.filter
  BY DEF PassStep
<1>2. /\ r.filter \in Nat /\ DOMAIN r.kept = 1..Len(r.kept) /\ DOMAIN r.todo = 1..Len(r.todo) /\ DOMAIN r.read = 1..Len(r.read)
      /\ \A k, l \in DOMAIN s.todo : 1 < k + 1 /\ (k < l => k + 1 < l + 1)
  BY RunFacts
<1>3. /\ 1 \in DOMAIN r.todo /\ i0 \in DOMAIN r.read /\ Ref(r.read[i0]) = x /\ n \in Nat
      /\ \A k \in DOMAIN s.todo : k + 1 \in DOMAIN r.todo /\ s.todo[k] = r.todo[k + 1]
      /\ \A i : In(r, i, r.todo) => Ref(r.read[i]) = x \/ In(r, i, s.todo)
      /\ \A k \in DOMAIN s.kept : \/ k \in DOMAIN r.kept /\ s.kept[k] = r.kept[k]
                                  \/ k = n /\ keep /\ s.kept[k] = x
      /\ \A i : In(r, i, r.kept) => In(r, i, s.kept)
      /\ keep => \A i : Ref(r.read[i]) = x => In(r, i, s.kept)
      /\ \A k \in DOMAIN r.kept : k < n
  BY PassFacts
<1>4. Sound(r, i0) => (keep <=> Holds(r, i0, r.filter))
  OBVIOUS
<1>5. \A i \in DOMAIN r.read : Ref(r.read[i]) = x => i = i0
  BY <1>3, Places
<1> HIDE DEF x, i0, n
<1>6. \A k \in DOMAIN s.todo : Sound(r, Ix(r, s.todo[k])) => \A f \in 1..(r.filter - 1) : Holds(r, Ix(r, s.todo[k]), f)
  BY <1>3 DEF AndPass
<1>7. \A k \in DOMAIN s.kept : Sound(r, Ix(r, s.kept[k])) => \A f \in 1..r.filter : Holds(r, Ix(r, s.kept[k]), f)
  <2> SUFFICES ASSUME NEW k \in DOMAIN s.kept, Sound(r, Ix(r, s.kept[k])), NEW f \in 1..r.filter
               PROVE  Holds(r, Ix(r, s.kept[k]), f)
    OBVIOUS
  <2>1. CASE k \in DOMAIN r.kept /\ s.kept[k] = r.kept[k]
    BY <2>1 DEF AndPass
  <2>2. CASE k = n /\ keep /\ s.kept[k] = x
    <3>1. Ix(r, s.kept[k]) = i0 /\ (f = r.filter \/ f \in 1..(r.filter - 1))
      BY <1>2, <2>2 DEF i0
    <3>2. \A g \in 1..(r.filter - 1) : Holds(r, i0, g)
      BY <1>3, <2>2, <3>1 DEF AndPass, x, i0
    <3> QED
      BY <1>4, <2>2, <3>1, <3>2
  <2> QED
    BY <1>3, <2>1, <2>2
<1>8. \A i \in DOMAIN r.read : Sound(r, i) /\ (\A f \in 1..r.filter : Holds(r, i, f)) => In(r, i, s.kept) \/ In(r, i, s.todo)
  <2> SUFFICES ASSUME NEW i \in DOMAIN r.read, Sound(r, i), \A f \in 1..r.filter : Holds(r, i, f),
                      ~In(r, i, s.todo), ~In(r, i, s.kept)
               PROVE  FALSE
    OBVIOUS
  <2>1. Ref(r.read[i]) = x
    BY <1>3 DEF AndPass
  <2>2. r.filter \in 1..r.filter \/ r.filter = 0
    BY <1>2
  <2>3. r.filter # 0 => keep
    BY <1>4, <1>5, <2>1, <2>2
  <2>4. r.filter # 0
    OBVIOUS
  <2> QED
    BY <1>3, <2>1, <2>3, <2>4
<1>9. Ascends(r, s.todo)
  <2> SUFFICES ASSUME NEW k \in DOMAIN s.todo, NEW l \in DOMAIN s.todo, k < l
               PROVE  Ix(r, s.todo[k]) < Ix(r, s.todo[l])
    BY DEF Ascends
  <2>1. k + 1 \in DOMAIN r.todo /\ l + 1 \in DOMAIN r.todo /\ k + 1 < l + 1
    BY <1>2, <1>3
  <2> QED
    BY <1>3, <2>1 DEF AndPass, Ascends
<1>10. \A l \in DOMAIN s.todo : i0 < Ix(r, s.todo[l])
  <2>1. \A l \in DOMAIN s.todo : 1 \in DOMAIN r.todo /\ l + 1 \in DOMAIN r.todo /\ 1 < l + 1 /\ s.todo[l] = r.todo[l + 1]
    BY <1>2, <1>3
  <2>2. Ascends(r, r.todo)
    BY DEF AndPass
  <2> QED
    BY <2>1, <2>2 DEF Ascends, i0, x
<1>11. \A k \in DOMAIN r.kept : Ix(r, r.kept[k]) < i0
  BY <1>3 DEF AndPass, i0, x
<1>12. Ascends(r, s.kept)
  <2> SUFFICES ASSUME NEW k \in DOMAIN s.kept, NEW l \in DOMAIN s.kept, k < l
               PROVE  Ix(r, s.kept[k]) < Ix(r, s.kept[l])
    BY DEF Ascends
  <2>1. k \in DOMAIN r.kept /\ s.kept[k] = r.kept[k]
    BY <1>2, <1>3
  <2>2. CASE l \in DOMAIN r.kept /\ s.kept[l] = r.kept[l]
    BY <2>1, <2>2 DEF AndPass, Ascends
  <2>3. CASE s.kept[l] = x
    BY <1>11, <2>1, <2>3 DEF i0
  <2> QED
    BY <1>3, <2>2, <2>3
<1>13. \A k \in DOMAIN s.kept, l \in DOMAIN s.todo : Ix(r, s.kept[k]) < Ix(r, s.todo[l])
  <2> SUFFICES ASSUME NEW k \in DOMAIN s.kept, NEW l \in DOMAIN s.todo PROVE Ix(r, s.kept[k]) < Ix(r, s.todo[l])
    OBVIOUS
  <2>1. CASE k \in DOMAIN r.kept /\ s.kept[k] = r.kept[k]
    BY <1>3, <2>1 DEF AndPass
  <2>2. CASE s.kept[k] = x
    BY <1>10, <2>2 DEF i0
  <2> QED
    BY <1>3, <2>1, <2>2
<1> QED
  BY <1>1, <1>6, <1>7, <1>8, <1>9, <1>12, <1>13, SameView DEF AndPass

LEMMA OrStep ==
    ASSUME NEW r \in Run, NEW s \in Run, NEW keep \in BOOLEAN, PassStep(r, s, keep),
           NamesApart(r), Of(r, r.todo), Of(r, r.kept), OrPass(r), r.query.compose = "OR",
           r.filter \in DOMAIN r.query.filters,
           keep => ~In(r, Ix(r, r.todo[1]), r.kept),
           Sound(r, Ix(r, r.todo[1])) =>
              (keep <=> Holds(r, Ix(r, r.todo[1]), r.filter) /\ ~In(r, Ix(r, r.todo[1]), r.kept))
    PROVE  OrPass(s)
<1> DEFINE x == r.todo[1]
           i0 == Ix(r, x)
           n == Len(r.kept) + 1
<1>1. s.query = r.query /\ s.read = r.read /\ s.written = r.written /\ s.filter = r.filter
  BY DEF PassStep
<1>2. /\ r.filter \in Nat /\ DOMAIN r.kept = 1..Len(r.kept) /\ DOMAIN r.todo = 1..Len(r.todo) /\ DOMAIN r.read = 1..Len(r.read)
      /\ \A k, l \in DOMAIN s.todo : 1 < k + 1 /\ (k < l => k + 1 < l + 1)
      /\ DOMAIN r.query.filters = 1..Len(r.query.filters)
  BY RunFacts, QueryFacts
<1>3. /\ 1 \in DOMAIN r.todo /\ i0 \in DOMAIN r.read /\ Ref(r.read[i0]) = x /\ n \in Nat
      /\ \A k \in DOMAIN s.todo : k + 1 \in DOMAIN r.todo /\ s.todo[k] = r.todo[k + 1]
      /\ \A i : In(r, i, r.todo) => Ref(r.read[i]) = x \/ In(r, i, s.todo)
      /\ \A k \in DOMAIN s.kept : \/ k \in DOMAIN r.kept /\ s.kept[k] = r.kept[k]
                                  \/ k = n /\ keep /\ s.kept[k] = x
      /\ \A i : In(r, i, r.kept) => In(r, i, s.kept)
      /\ keep => \A i : Ref(r.read[i]) = x => In(r, i, s.kept)
      /\ \A k \in DOMAIN r.kept : k < n
  BY PassFacts
<1>4. /\ keep => ~In(r, i0, r.kept)
      /\ Sound(r, i0) => (keep <=> Holds(r, i0, r.filter) /\ ~In(r, i0, r.kept))
  OBVIOUS
<1>5. /\ \A i \in DOMAIN r.read : Ref(r.read[i]) = x => i = i0
      /\ \A k \in DOMAIN r.kept : Ix(r, r.kept[k]) \in DOMAIN r.read /\ Ref(r.read[Ix(r, r.kept[k])]) = r.kept[k]
      /\ \A k \in DOMAIN r.todo : Ix(r, r.todo[k]) \in DOMAIN r.read /\ Ref(r.read[Ix(r, r.todo[k])]) = r.todo[k]
  BY <1>3, Places
<1> HIDE DEF x, i0, n
<1>6. Ascends(r, s.todo)
  <2> SUFFICES ASSUME NEW k \in DOMAIN s.todo, NEW l \in DOMAIN s.todo, k < l
               PROVE  Ix(r, s.todo[k]) < Ix(r, s.todo[l])
    BY DEF Ascends
  <2>1. k + 1 \in DOMAIN r.todo /\ l + 1 \in DOMAIN r.todo /\ k + 1 < l + 1
    BY <1>2, <1>3
  <2> QED
    BY <1>3, <2>1 DEF OrPass, Ascends
<1>7. \A l \in DOMAIN s.todo : i0 < Ix(r, s.todo[l])
  <2>1. \A l \in DOMAIN s.todo : 1 \in DOMAIN r.todo /\ l + 1 \in DOMAIN r.todo /\ 1 < l + 1 /\ s.todo[l] = r.todo[l + 1]
    BY <1>2, <1>3
  <2>2. Ascends(r, r.todo)
    BY DEF OrPass
  <2> QED
    BY <2>1, <2>2 DEF Ascends, i0, x
<1>8. \A k \in DOMAIN s.kept : Sound(r, Ix(r, s.kept[k])) => \E f \in 1..r.filter : Holds(r, Ix(r, s.kept[k]), f)
  <2> SUFFICES ASSUME NEW k \in DOMAIN s.kept, Sound(r, Ix(r, s.kept[k]))
               PROVE  \E f \in 1..r.filter : Holds(r, Ix(r, s.kept[k]), f)
    OBVIOUS
  <2>1. CASE k \in DOMAIN r.kept /\ s.kept[k] = r.kept[k]
    BY <2>1 DEF OrPass
  <2>2. CASE k = n /\ keep /\ s.kept[k] = x
    <3>1. Ix(r, s.kept[k]) = i0 /\ r.filter \in 1..r.filter
      BY <1>2, <2>2 DEF i0
    <3> QED
      BY <1>4, <2>2, <3>1
  <2> QED
    BY <1>3, <2>1, <2>2
<1>9. ASSUME keep, NEW k \in DOMAIN r.kept PROVE r.kept[k] # x
  BY <1>3, <1>4, <1>9 DEF In
<1>10. ASSUME keep, NEW k \in DOMAIN r.kept, Sound(r, Ix(r, r.kept[k])), Sound(r, i0)
       PROVE  Before(r, Ix(r, r.kept[k]), i0)
  <2> DEFINE j == Ix(r, r.kept[k])
             fj == FirstMatch(r.query, r.read[j].fields)
             fi == FirstMatch(r.query, r.read[i0].fields)
  <2>1. j \in DOMAIN r.read /\ j \in Nat /\ i0 \in Nat
    BY <1>2, <1>3, <1>5
  <2>2. \A f \in 1..r.filter : f \in DOMAIN r.query.filters /\ f \in Nat
    BY <1>2
  <2>3. /\ fi \in DOMAIN r.query.filters /\ Holds(r, i0, fi)
        /\ \A f \in DOMAIN r.query.filters : Holds(r, i0, f) => fi <= f
    BY <1>4, <1>10, FirstIs
  <2>4. fi = r.filter
    <3>1. fi \in 1..r.filter
      BY <1>2, <1>4, <1>10, <2>3
    <3>2. In(r, i0, r.kept) \/ fi = r.filter
      BY <1>3, <1>10, <2>3, <3>1 DEF OrPass
    <3> QED
      BY <1>4, <1>10, <3>2
  <2>5. PICK g \in 1..r.filter : Holds(r, j, g)
    BY <1>10 DEF OrPass
  <2>6. /\ fj \in DOMAIN r.query.filters /\ Holds(r, j, fj)
        /\ \A f \in DOMAIN r.query.filters : Holds(r, j, f) => fj <= f
    BY <2>2, <2>5, FirstIs
  <2>7. fj <= r.filter /\ fj \in Nat
    BY <1>2, <2>2, <2>5, <2>6
  <2>8. i0 <= j => \E f \in 1..(r.filter - 1) : Holds(r, j, f)
    BY <1>3, <1>10 DEF OrPass, i0, x
  <2>9. i0 <= j => fj < r.filter
    <3> SUFFICES ASSUME i0 <= j PROVE fj < r.filter
      OBVIOUS
    <3>1. PICK f \in 1..(r.filter - 1) : Holds(r, j, f)
      BY <2>8
    <3>2. f \in 1..r.filter /\ f < r.filter
      BY <1>2
    <3> QED
      BY <1>2, <2>2, <2>6, <2>7, <3>1, <3>2
  <2> HIDE DEF j, fi, fj
  <2>10. fj < fi \/ (fj = fi /\ j < i0)
    BY <1>2, <2>1, <2>4, <2>7, <2>9
  <2> QED
    BY <2>10 DEF Before, j, fi, fj
<1>11. \A k, l \in DOMAIN s.kept : k < l =>
          /\ s.kept[k] # s.kept[l]
          /\ Sound(r, Ix(r, s.kept[k])) /\ Sound(r, Ix(r, s.kept[l])) =>
                Before(r, Ix(r, s.kept[k]), Ix(r, s.kept[l]))
  <2> SUFFICES ASSUME NEW k \in DOMAIN s.kept, NEW l \in DOMAIN s.kept, k < l
               PROVE  /\ s.kept[k] # s.kept[l]
                      /\ Sound(r, Ix(r, s.kept[k])) /\ Sound(r, Ix(r, s.kept[l])) =>
                            Before(r, Ix(r, s.kept[k]), Ix(r, s.kept[l]))
    OBVIOUS
  <2>1. k \in DOMAIN r.kept /\ s.kept[k] = r.kept[k]
    BY <1>2, <1>3
  <2>2. CASE l \in DOMAIN r.kept /\ s.kept[l] = r.kept[l]
    BY <2>1, <2>2 DEF OrPass
  <2>3. CASE l = n /\ keep /\ s.kept[l] = x
    BY <1>9, <1>10, <2>1, <2>3 DEF i0
  <2> QED
    BY <1>3, <2>2, <2>3
<1>12. \A i \in DOMAIN r.read, f \in 1..r.filter : Sound(r, i) /\ Holds(r, i, f) =>
          In(r, i, s.kept) \/ (f = r.filter /\ In(r, i, s.todo))
  <2> SUFFICES ASSUME NEW i \in DOMAIN r.read, NEW f \in 1..r.filter, Sound(r, i), Holds(r, i, f),
                      ~In(r, i, s.kept)
               PROVE  f = r.filter /\ In(r, i, s.todo)
    OBVIOUS
  <2>1. ~In(r, i, r.kept) /\ f = r.filter /\ In(r, i, r.todo)
    BY <1>3 DEF OrPass
  <2>2. Ref(r.read[i]) # x
    BY <1>3, <1>4, <1>5, <2>1
  <2> QED
    BY <1>3, <2>1, <2>2
<1>13. \A k \in DOMAIN s.kept, l \in DOMAIN s.todo :
          Sound(r, Ix(r, s.kept[k])) /\ Ix(r, s.todo[l]) <= Ix(r, s.kept[k]) =>
             \E f \in 1..(r.filter - 1) : Holds(r, Ix(r, s.kept[k]), f)
  <2> SUFFICES ASSUME NEW k \in DOMAIN s.kept, NEW l \in DOMAIN s.todo, Sound(r, Ix(r, s.kept[k])),
                      Ix(r, s.todo[l]) <= Ix(r, s.kept[k])
               PROVE  \E f \in 1..(r.filter - 1) : Holds(r, Ix(r, s.kept[k]), f)
    OBVIOUS
  <2>1. CASE k \in DOMAIN r.kept /\ s.kept[k] = r.kept[k]
    <3>1. l + 1 \in DOMAIN r.todo /\ s.todo[l] = r.todo[l + 1]
      BY <1>3
    <3> QED
      BY <2>1, <3>1 DEF OrPass
  <2>2. CASE s.kept[k] = x
    <3>1. Ix(r, s.kept[k]) = i0 /\ i0 \in Nat
      BY <1>2, <1>3, <2>2 DEF i0
    <3>2. Ix(r, s.todo[l]) \in Nat
      BY <1>2, <1>3, <1>5
    <3> QED
      BY <1>7, <3>1, <3>2
  <2> QED
    BY <1>3, <2>1, <2>2
<1> QED
  BY <1>1, <1>6, <1>8, <1>11, <1>12, <1>13, SameView DEF OrPass

LEMMA FilterInv ==
    ASSUME QInv, NEW h \in Reader, FilterDoc(h)
    PROVE  QInv'
<1> DEFINE r == readers[h]
           x == Head(r.todo)
           keep == Keeps(r, x)
           s == [r EXCEPT !.todo = Tail(@), !.kept = IF keep THEN Append(@, x) ELSE @]
<1>1. r.pc = "filter" /\ r.todo # <<>> /\ readers' = [readers EXCEPT ![h] = s] /\ UNCHANGED <<docs, maps>>
  BY DEF FilterDoc, At, Becomes
<1>2. r \in Run /\ RunInv(r)
  BY <1>1, HandlerHere
<1> HIDE DEF r
<1>3. /\ r.todo \in Seq(RefDoc) /\ r.kept \in Seq(RefDoc) /\ DOMAIN r.read = 1..Len(r.read)
      /\ r.query.compose \in {"AND", "OR"}
  BY <1>2, RunFacts, QueryFacts
<1>4. /\ x \in RefDoc /\ x = r.todo[1] /\ Tail(r.todo) \in Seq(RefDoc) /\ 1 \in DOMAIN r.todo
      /\ \A k \in DOMAIN Tail(r.todo) : k + 1 \in DOMAIN r.todo /\ Tail(r.todo)[k] = r.todo[k + 1]
  <2> DEFINE todo == r.todo
  <2>1. todo \in Seq(RefDoc) /\ todo # <<>>
    BY <1>1, <1>3
  <2> HIDE DEF todo
  <2>2. /\ Head(todo) \in RefDoc /\ Head(todo) = todo[1] /\ Tail(todo) \in Seq(RefDoc) /\ 1 \in DOMAIN todo
        /\ \A k \in DOMAIN Tail(todo) : k + 1 \in DOMAIN todo /\ Tail(todo)[k] = todo[k + 1]
    BY <2>1, WithoutFirst
  <2> QED
    BY <2>2 DEF todo
<1>5. keep \in BOOLEAN
  BY DEF Keeps
<1> HIDE DEF keep, x
<1>6. /\ s \in Run /\ s.pc = r.pc /\ s.query = r.query /\ s.source = r.source /\ s.docs = r.docs /\ s.filter = r.filter
      /\ s.todo = Tail(r.todo) /\ s.kept = (IF keep THEN Append(r.kept, x) ELSE r.kept) /\ s.sent = r.sent
      /\ s.read = r.read /\ s.written = r.written /\ s.moved = r.moved
  <2> DEFINE kept == IF keep THEN Append(r.kept, x) ELSE r.kept
  <2>1. kept \in Seq(RefDoc)
    <3>1. Append(r.kept, x) \in Seq(RefDoc)
      BY <1>3, <1>4
    <3> QED
      BY <1>3, <3>1
  <2>2. s = [r EXCEPT !.todo = Tail(r.todo), !.kept = kept]
    BY DEF s
  <2> HIDE DEF kept, s
  <2>3. /\ s \in Run /\ s.pc = r.pc /\ s.query = r.query /\ s.source = r.source /\ s.docs = r.docs /\ s.filter = r.filter
        /\ s.todo = Tail(r.todo) /\ s.kept = kept /\ s.sent = r.sent
        /\ s.read = r.read /\ s.written = r.written /\ s.moved = r.moved
    BY <1>2, <1>4, <2>1, <2>2 DEF Run
  <2> QED
    BY <2>3 DEF kept
<1> HIDE DEF s
<1>7. PassStep(r, s, keep)
  BY <1>1, <1>6 DEF PassStep, x
<1>8. NamesApart(r) /\ Shape(r) /\ MapsAsRead(r) /\ Of(r, r.docs) /\ Of(r, r.todo) /\ Of(r, r.kept) /\ Progress(r)
      /\ r.filter \in DOMAIN r.query.filters
  BY <1>1, <1>2 DEF RunInv, Shape
<1> DEFINE i0 == Ix(r, x)
<1>9. i0 \in DOMAIN r.read /\ Ref(r.read[i0]) = x
  BY <1>2, <1>4, <1>8, Places
<1>10. \A k \in DOMAIN r.kept : r.kept[k].name = x.name <=> r.kept[k] = Ref(r.read[i0])
  <2> SUFFICES ASSUME NEW k \in DOMAIN r.kept, r.kept[k].name = x.name PROVE r.kept[k] = Ref(r.read[i0])
    BY <1>9
  <2>1. PICK i \in DOMAIN r.read : r.kept[k] = Ref(r.read[i])
    BY <1>8 DEF Of
  <2>2. r.read[i].name = r.read[i0].name
    BY <1>9, <2>1 DEF Ref
  <2> QED
    BY <1>8, <1>9, <2>1, <2>2 DEF NamesApart
<1>11. (\A k \in DOMAIN r.kept : r.kept[k].name # x.name) <=> ~In(r, i0, r.kept)
  BY <1>10 DEF In
<1>12. Sound(r, i0) => (matchesOp(maps[x.map][r.query.filters[r.filter].field], r.query.filters[r.filter].value,
                                  r.query.filters[r.filter].op) <=> Holds(r, i0, r.filter))
  <2>1. x.map = r.read[i0].map
    BY <1>9 DEF Ref
  <2> QED
    BY <1>8, <1>9, <2>1 DEF MapsAsRead, Holds
<1> HIDE DEF i0
<1>13. ASSUME r.query.compose = "AND" PROVE Progress(s)
  <2>1. Sound(r, i0) => (keep <=> Holds(r, i0, r.filter))
    BY <1>12, <1>13 DEF keep, Keeps
  <2>2. AndPass(r) /\ r.filter # 0
    BY <1>1, <1>2, <1>8, <1>13, RunFacts, QueryFacts DEF Progress
  <2>3. AndPass(s)
    BY <1>2, <1>4, <1>5, <1>6, <1>7, <1>8, <2>1, <2>2, AndStep DEF i0
  <2> QED
    BY <1>1, <1>6, <1>13, <2>3 DEF Progress
<1>14. ASSUME r.query.compose = "OR" PROVE Progress(s)
  <2>1. /\ keep => ~In(r, i0, r.kept)
        /\ Sound(r, i0) => (keep <=> Holds(r, i0, r.filter) /\ ~In(r, i0, r.kept))
    BY <1>11, <1>12, <1>14 DEF keep, Keeps
  <2>2. OrPass(r)
    BY <1>1, <1>8, <1>14 DEF Progress
  <2>3. OrPass(s)
    BY <1>2, <1>4, <1>5, <1>6, <1>7, <1>8, <1>14, <2>1, <2>2, OrStep DEF i0
  <2> QED
    BY <1>1, <1>6, <1>14, <2>3 DEF Progress
<1>15. Progress(s)
  BY <1>3, <1>13, <1>14
<1>16. Shape(s)
  <2>1. Of(r, Tail(r.todo))
    BY <1>4, <1>8 DEF Of
  <2>2. \A k \in DOMAIN s.kept : (k \in DOMAIN r.kept /\ s.kept[k] = r.kept[k]) \/ s.kept[k] = x
    BY <1>2, <1>4, <1>5, <1>6, <1>7, <1>8, PassFacts
  <2>3. Of(r, s.kept)
    BY <1>8, <1>9, <2>2 DEF Of
  <2> QED
    BY <1>1, <1>6, <1>8, <2>1, <2>3, SameView DEF Shape
<1>17. NamesApart(s) /\ MapsAsRead(s)
  BY <1>6, <1>8 DEF NamesApart, MapsAsRead, Sound
<1>18. RunInv(s)
  BY <1>6, <1>15, <1>16, <1>17 DEF RunInv
<1> QED
  BY <1>1, <1>18, HandlerMoves

(* After the last pass, and between two.                                   *)
LEMMA PassesDone ==
    ASSUME NEW r \in Run, NEW s \in Run, s.query = r.query, s.read = r.read, s.written = r.written,
           s.docs = r.kept, r.todo = <<>>, r.filter = Len(r.query.filters), NamesApart(r), Of(r, r.kept),
           IF r.query.compose = "AND" THEN AndPass(r) ELSE OrPass(r)
    PROVE  Filtered(s)
<1>1. /\ DOMAIN r.query.filters = 1..r.filter /\ DOMAIN r.read = 1..Len(r.read) /\ DOMAIN r.kept = 1..Len(r.kept)
      /\ r.query.compose \in {"AND", "OR"}
  BY RunFacts, QueryFacts
<1>2. \A k \in DOMAIN r.kept : Ix(r, r.kept[k]) \in DOMAIN r.read /\ Ref(r.read[Ix(r, r.kept[k])]) = r.kept[k]
  BY Places
<1>3. \A i : ~In(r, i, r.todo)
  BY DEF In
<1>4. ASSUME r.query.compose = "AND" PROVE Filtered(s)
  <2>1. \A i : Hit(r, i) <=> \A f \in 1..r.filter : Holds(r, i, f)
    BY <1>1, <1>4, HitIs
  <2>2. \A i, j : i < j => Before(r, i, j)
    BY <1>4 DEF Before, FirstMatch
  <2>3. AndPass(r)
    BY <1>4
  <2>4. \A k, l \in DOMAIN r.kept : k < l =>
           r.kept[k] # r.kept[l] /\ Before(r, Ix(r, r.kept[k]), Ix(r, r.kept[l]))
    <3> SUFFICES ASSUME NEW k \in DOMAIN r.kept, NEW l \in DOMAIN r.kept, k < l
                 PROVE  r.kept[k] # r.kept[l] /\ Before(r, Ix(r, r.kept[k]), Ix(r, r.kept[l]))
      OBVIOUS
    <3>1. Ix(r, r.kept[k]) < Ix(r, r.kept[l])
      BY <2>3 DEF AndPass, Ascends
    <3>2. Ix(r, r.kept[k]) \in Nat
      BY <1>1, <1>2
    <3>3. r.kept[k] # r.kept[l]
      BY <3>1, <3>2
    <3> QED
      BY <2>2, <3>1, <3>3
  <2> QED
    BY <1>3, <2>1, <2>3, <2>4, SameView DEF AndPass, Filtered
<1>5. ASSUME r.query.compose = "OR" PROVE Filtered(s)
  <2>1. \A i : Hit(r, i) <=> \E f \in 1..r.filter : Holds(r, i, f)
    BY <1>1, <1>5, HitIs
  <2>2. OrPass(r)
    BY <1>5
  <2> QED
    BY <1>3, <2>1, <2>2, SameView DEF OrPass, Filtered
<1> QED
  BY <1>1, <1>4, <1>5

LEMMA NextAndPass ==
    ASSUME NEW r \in Run, NEW s \in Run, s.query = r.query, s.read = r.read, s.written = r.written,
           s.todo = r.kept, s.kept = <<>>, s.filter = r.filter + 1, r.todo = <<>>, AndPass(r)
    PROVE  AndPass(s)
<1>1. r.filter \in Nat /\ s.filter - 1 = r.filter
  BY RunFacts
<1>2. \A f \in 1..r.filter : f \in 1..s.filter
  BY <1>1
<1>3. \A i : ~In(r, i, r.todo)
  BY DEF In
<1>4. DOMAIN s.kept = {}
  OBVIOUS
<1>5. \A k \in DOMAIN s.todo : Sound(r, Ix(r, s.todo[k])) => \A f \in 1..(s.filter - 1) : Holds(r, Ix(r, s.todo[k]), f)
  BY <1>1 DEF AndPass
<1>6. \A i \in DOMAIN r.read : Sound(r, i) /\ (\A f \in 1..s.filter : Holds(r, i, f)) => In(r, i, s.todo)
  BY <1>2, <1>3 DEF AndPass
<1>7. Ascends(r, s.todo) /\ Ascends(r, s.kept)
  BY <1>4 DEF AndPass, Ascends
<1> QED
  BY <1>4, <1>5, <1>6, <1>7, SameView DEF AndPass

LEMMA NextOrPass ==
    ASSUME NEW r \in Run, NEW s \in Run, s.query = r.query, s.read = r.read, s.written = r.written,
           s.todo = r.docs, s.kept = r.kept, s.filter = r.filter + 1, r.todo = <<>>, OrPass(r), NamesApart(r),
           Len(r.docs) = Len(r.read), \A i \in DOMAIN r.read : r.docs[i] = Ref(r.read[i])
    PROVE  OrPass(s)
<1>1. /\ r.filter \in Nat /\ s.filter - 1 = r.filter
      /\ DOMAIN r.docs = DOMAIN r.read /\ DOMAIN r.read = 1..Len(r.read)
  BY RunFacts
<1>2. \A f \in 1..r.filter : f \in 1..s.filter
  BY <1>1
<1>3. \A i : ~In(r, i, r.todo)
  BY DEF In
<1>4. \A k \in DOMAIN r.docs : Ix(r, r.docs[k]) = k
  BY <1>1, Places
<1>5. Ascends(r, s.todo)
  BY <1>1, <1>4 DEF Ascends
<1>6. \A k \in DOMAIN s.kept : Sound(r, Ix(r, s.kept[k])) => \E f \in 1..r.filter : Holds(r, Ix(r, s.kept[k]), f)
  BY DEF OrPass
<1>7. \A i \in DOMAIN r.read, f \in 1..s.filter : Sound(r, i) /\ Holds(r, i, f) =>
         In(r, i, s.kept) \/ (f = s.filter /\ In(r, i, s.todo))
  <2> SUFFICES ASSUME NEW i \in DOMAIN r.read, NEW f \in 1..s.filter, Sound(r, i), Holds(r, i, f)
               PROVE  In(r, i, s.kept) \/ (f = s.filter /\ In(r, i, s.todo))
    OBVIOUS
  <2>1. CASE f \in 1..r.filter
    BY <1>3, <2>1 DEF OrPass
  <2>2. CASE f = s.filter
    BY <1>1, <2>2 DEF In
  <2> QED
    BY <1>1, <2>1, <2>2
<1> QED
  BY <1>1, <1>2, <1>5, <1>6, <1>7, SameView DEF OrPass

LEMMA NextFilterInv ==
    ASSUME QInv, NEW h \in Reader, NextFilter(h)
    PROVE  QInv'
<1> DEFINE r == readers[h]
           last == r.filter = Len(r.query.filters)
           and == r.query.compose = "AND"
           s1 == [r EXCEPT !.pc = "order", !.docs = r.kept, !.kept = <<>>]
           s2 == [r EXCEPT !.filter = r.filter + 1, !.todo = IF and THEN r.kept ELSE r.docs,
                           !.kept = IF and THEN <<>> ELSE r.kept]
<1>1. r.pc = "filter" /\ r.todo = <<>> /\ readers' = [readers EXCEPT ![h] = IF last THEN s1 ELSE s2] /\ UNCHANGED <<docs, maps>>
  BY DEF NextFilter, At, Becomes
<1>2. r \in Run /\ RunInv(r)
  BY <1>1, HandlerHere
<1> HIDE DEF r
<1>3. /\ r.docs \in Seq(RefDoc) /\ r.kept \in Seq(RefDoc) /\ r.filter \in Nat
      /\ r.query \in Query
      /\ DOMAIN r.query.filters = 1..Len(r.query.filters) /\ Len(r.query.filters) \in Nat
  BY <1>2, RunFacts, QueryFacts
<1>4. /\ NamesApart(r) /\ Shape(r) /\ MapsAsRead(r) /\ Of(r, r.docs) /\ Of(r, r.todo) /\ Of(r, r.kept) /\ Progress(r)
      /\ r.filter \in DOMAIN r.query.filters /\ r.sent = <<>>
      /\ Len(r.docs) = Len(r.read) /\ \A i \in DOMAIN r.read : r.docs[i] = Ref(r.read[i])
      /\ IF and THEN AndPass(r) ELSE OrPass(r)
  BY <1>1, <1>2 DEF RunInv, Shape, Progress
<1>5. Of(r, <<>>)
  BY DEF Of
<1>6. ASSUME last PROVE RunInv(s1)
  <2>1. /\ s1 \in Run /\ s1.pc = "order" /\ s1.query = r.query /\ s1.source = r.source /\ s1.docs = r.kept
        /\ s1.filter = r.filter /\ s1.todo = r.todo /\ s1.kept = <<>> /\ s1.sent = r.sent
        /\ s1.read = r.read /\ s1.written = r.written /\ s1.moved = r.moved
    <3> DEFINE kept == r.kept
    <3>1. s1 = [r EXCEPT !.pc = "order", !.docs = kept, !.kept = <<>>] /\ kept \in Seq(RefDoc) /\ <<>> \in Seq(RefDoc)
      BY <1>3
    <3> HIDE DEF s1, kept
    <3>2. /\ s1 \in Run /\ s1.pc = "order" /\ s1.query = r.query /\ s1.source = r.source /\ s1.docs = kept
          /\ s1.filter = r.filter /\ s1.todo = r.todo /\ s1.kept = <<>> /\ s1.sent = r.sent
          /\ s1.read = r.read /\ s1.written = r.written /\ s1.moved = r.moved
      BY <1>2, <3>1 DEF Run
    <3> QED
      BY <3>2 DEF kept
  <2> HIDE DEF s1
  <2>2. Filtered(s1)
    BY <1>1, <1>2, <1>4, <1>6, <2>1, PassesDone
  <2>3. Shape(s1)
    BY <1>4, <1>5, <2>1, SameView DEF Shape
  <2>4. NamesApart(s1) /\ MapsAsRead(s1)
    BY <1>4, <2>1 DEF NamesApart, MapsAsRead, Sound
  <2> QED
    BY <2>1, <2>2, <2>3, <2>4 DEF RunInv, Progress
<1>7. ASSUME ~last PROVE RunInv(s2)
  <2>1. /\ s2 \in Run /\ s2.pc = r.pc /\ s2.query = r.query /\ s2.source = r.source /\ s2.docs = r.docs
        /\ s2.filter = r.filter + 1 /\ s2.todo = (IF and THEN r.kept ELSE r.docs)
        /\ s2.kept = (IF and THEN <<>> ELSE r.kept) /\ s2.sent = r.sent
        /\ s2.read = r.read /\ s2.written = r.written /\ s2.moved = r.moved
    <3>1. /\ (IF and THEN r.kept ELSE r.docs) \in Seq(RefDoc)
          /\ (IF and THEN <<>> ELSE r.kept) \in Seq(RefDoc)
          /\ r.filter + 1 \in Nat
      BY <1>3
    <3> HIDE DEF and
    <3> QED
      BY <1>2, <3>1 DEF Run
  <2> HIDE DEF s2
  <2>2. ASSUME and PROVE AndPass(s2)
    BY <1>1, <1>2, <1>4, <2>1, <2>2, NextAndPass
  <2>3. ASSUME ~and PROVE OrPass(s2)
    BY <1>1, <1>2, <1>4, <2>1, <2>3, NextOrPass
  <2>4. Progress(s2)
    BY <1>1, <2>1, <2>2, <2>3 DEF Progress
  <2>5. r.filter + 1 \in DOMAIN r.query.filters
    BY <1>3, <1>4, <1>7
  <2>6. Of(r, s2.todo) /\ Of(r, s2.kept)
    BY <1>4, <1>5, <2>1
  <2>7. Shape(s2)
    BY <1>1, <1>4, <2>1, <2>5, <2>6, SameView DEF Shape
  <2>8. NamesApart(s2) /\ MapsAsRead(s2)
    BY <1>4, <2>1 DEF NamesApart, MapsAsRead, Sound
  <2> QED
    BY <2>1, <2>4, <2>7, <2>8 DEF RunInv
<1> QED
  BY <1>1, <1>6, <1>7, HandlerMoves

LEMMA BeginSortInv ==
    ASSUME QInv, NEW h \in Reader, BeginSort(h)
    PROVE  QInv'
<1> DEFINE r == readers[h]
           s == [r EXCEPT !.pc = "sort"]
<1>1. r.pc = "order" /\ readers' = [readers EXCEPT ![h] = s] /\ UNCHANGED <<docs, maps>>
  BY DEF BeginSort, At, Becomes
<1>2. r \in Run /\ RunInv(r)
  BY <1>1, HandlerHere
<1> HIDE DEF r
<1>3. /\ s \in Run /\ s.pc = "sort" /\ s.query = r.query /\ s.source = r.source /\ s.docs = r.docs
      /\ s.filter = r.filter /\ s.todo = r.todo /\ s.kept = r.kept /\ s.sent = r.sent
      /\ s.read = r.read /\ s.written = r.written /\ s.moved = r.moved
  BY <1>2 DEF Run
<1> HIDE DEF s
<1>4. Progress(s)
  BY <1>1, <1>2, <1>3, SameView DEF RunInv, Progress, Filtered
<1>5. Shape(s)
  BY <1>1, <1>2, <1>3, SameView DEF RunInv, Shape
<1>6. NamesApart(s) /\ MapsAsRead(s)
  BY <1>2, <1>3 DEF RunInv, NamesApart, MapsAsRead, Sound
<1>7. RunInv(s)
  BY <1>3, <1>4, <1>5, <1>6 DEF RunInv
<1> QED
  BY <1>1, <1>7, HandlerMoves

-----------------------------------------------------------------------------
(* The order of the answer.                                                *)

LEMMA Counted ==
    ASSUME NEW n \in Nat, NEW T, NEW f \in [1..n -> T],
           \A k, l \in 1..n : f[k] = f[l] => k = l, \A t \in T : \E k \in 1..n : f[k] = t
    PROVE  Cardinality(T) = n
<1>1. f \in Bijection(1..n, T)
  BY DEF Bijection, Injection, Surjection, IsInjective
<1> QED
  BY <1>1, FS_CountingElements DEF ExistsBijection

(* The value that a document of read is sorted by, whether a key tells two *)
(* apart, and in which way.                                                *)
SortValue(r, o, i) ==
    IF o.field = "__name__" THEN [type |-> 4, n |-> r.read[i].name] ELSE r.read[i].fields[o.field]
Apart(r, k, i, j) ==
    \/ Below(SortValue(r, r.query.order[k], i), SortValue(r, r.query.order[k], j))
    \/ Below(SortValue(r, r.query.order[k], j), SortValue(r, r.query.order[k], i))
Way(r, k, i, j) ==
    IF r.query.order[k].desc THEN Below(SortValue(r, r.query.order[k], j), SortValue(r, r.query.order[k], i))
    ELSE Below(SortValue(r, r.query.order[k], i), SortValue(r, r.query.order[k], j))
Decided(r, i, j) == \E k \in DOMAIN r.query.order : Way(r, k, i, j) /\ \A l \in 1..(k - 1) : ~Apart(r, l, i, j)
Undecided(r, i, j) == \A k \in DOMAIN r.query.order : ~Apart(r, k, i, j)

LEMMA WaysApart ==
    ASSUME NEW r \in Run
    PROVE  /\ \A k, i, j : Way(r, k, i, j) => Apart(r, k, i, j)
           /\ \A k, i, j : Apart(r, k, i, j) => Way(r, k, i, j) \/ Way(r, k, j, i)
           /\ \A k, i, j : Apart(r, k, i, j) <=> Apart(r, k, j, i)
           /\ Len(r.query.order) \in Nat /\ DOMAIN r.query.order = 1..Len(r.query.order)
<1>1. r.query.order \in Seq([field : Field \cup {"__name__"}, desc : BOOLEAN])
  BY RunFacts, QueryFacts
<1>2. Len(r.query.order) \in Nat /\ DOMAIN r.query.order = 1..Len(r.query.order)
  BY <1>1
<1> QED
  BY <1>2 DEF Way, Apart

LEMMA PrecedesMeans ==
    ASSUME NEW r \in Run, NEW i, NEW j
    PROVE  Precedes(r.query, r.read, i, j) <=> Decided(r, i, j) \/ (Undecided(r, i, j) /\ Before(r, i, j))
<1> DEFINE T == {k \in DOMAIN r.query.order : Apart(r, k, i, j)}
           least == CHOOSE k \in T : \A l \in T : k <= l
<1>1. Len(r.query.order) \in Nat /\ DOMAIN r.query.order = 1..Len(r.query.order)
  BY WaysApart
<1>2. Precedes(r.query, r.read, i, j) <=> IF T # {} THEN Way(r, least, i, j) ELSE Before(r, i, j)
  BY DEF Precedes, Way, Apart, SortValue, Before
<1>3. \A k : k \in T <=> k \in 1..Len(r.query.order) /\ Apart(r, k, i, j)
  BY <1>1
<1>4. T # {} => least \in T /\ \A l \in T : least <= l
  <2> SUFFICES ASSUME T # {} PROVE \E k \in T : \A l \in T : k <= l
    OBVIOUS
  <2>1. T \subseteq Nat
    BY <1>1
  <2> HIDE DEF T
  <2> QED
    BY <2>1, LeastOf
<1> HIDE DEF T, least
<1>5. CASE T = {}
  BY <1>1, <1>2, <1>3, <1>5, WaysApart DEF Decided, Undecided
<1>6. CASE T # {}
  <2>1. least \in 1..Len(r.query.order) /\ Apart(r, least, i, j) /\ ~Undecided(r, i, j)
    BY <1>1, <1>3, <1>4, <1>6 DEF Undecided
  <2>2. \A l \in 1..(least - 1) : ~Apart(r, l, i, j)
    <3> SUFFICES ASSUME NEW l \in 1..(least - 1), Apart(r, l, i, j) PROVE FALSE
      OBVIOUS
    <3>1. l \in 1..Len(r.query.order) /\ ~(least <= l)
      BY <1>1, <2>1
    <3> QED
      BY <1>3, <1>4, <3>1
  <2>3. ASSUME NEW k \in DOMAIN r.query.order, Way(r, k, i, j), \A l \in 1..(k - 1) : ~Apart(r, l, i, j)
        PROVE  k = least
    <3>1. Apart(r, k, i, j)
      BY <2>3, WaysApart
    <3>2. least <= k /\ ~(least \in 1..(k - 1))
      BY <1>1, <1>3, <1>4, <2>1, <2>3, <3>1
    <3> QED
      BY <1>1, <2>1, <3>2
  <2>4. Decided(r, i, j) <=> Way(r, least, i, j)
    BY <1>1, <2>1, <2>2, <2>3 DEF Decided
  <2> QED
    BY <1>2, <1>6, <2>1, <2>4
<1> QED
  BY <1>5, <1>6

LEMMA ValuesAreTyped ==
    ASSUME NEW r \in Run, NEW k \in DOMAIN r.query.order, NEW i \in DOMAIN r.read
    PROVE  LET v == SortValue(r, r.query.order[k], i) IN v.type \in Int /\ v.n \in Int
<1>1. r.query.order \in Seq([field : Field \cup {"__name__"}, desc : BOOLEAN]) /\ r.read \in Seq(Found)
  BY RunFacts, QueryFacts
<1> DEFINE o == r.query.order[k]
           x == r.read[i]
<1>2. o \in [field : Field \cup {"__name__"}, desc : BOOLEAN] /\ x \in Found
  <2> DEFINE orders == r.query.order
             read == r.read
  <2>1. orders \in Seq([field : Field \cup {"__name__"}, desc : BOOLEAN]) /\ read \in Seq(Found)
        /\ k \in DOMAIN orders /\ i \in DOMAIN read
    BY <1>1
  <2>2. \A X, s : s \in Seq(X) => \A e \in DOMAIN s : s[e] \in X
    OBVIOUS
  <2> HIDE DEF orders, read
  <2>3. orders[k] \in [field : Field \cup {"__name__"}, desc : BOOLEAN]
    BY <2>1, <2>2, Zenon
  <2>4. read[i] \in Found
    BY <2>1, <2>2, Zenon
  <2> QED
    BY <2>3, <2>4 DEF orders, read
<1>3. SortValue(r, o, i) = IF o.field = "__name__" THEN [type |-> 4, n |-> x.name] ELSE x.fields[o.field]
  BY DEF SortValue
<1> HIDE DEF o, x
<1>4. x.name \in Nat /\ x.fields \in [Field -> Value] /\ o.field \in Field \cup {"__name__"}
  BY <1>2, QueryAssumption DEF Found, FieldMap
<1>5. CASE o.field = "__name__"
  BY <1>3, <1>4, <1>5 DEF o
<1>6. CASE o.field # "__name__"
  <2>1. SortValue(r, o, i) \in Value
    BY <1>3, <1>4, <1>6
  <2> QED
    BY <2>1 DEF Value, o
<1> QED
  BY <1>5, <1>6

(* No two documents of an answer precede each other.                       *)
LEMMA PrecedesOneWay ==
    ASSUME NEW r \in Run, NEW i \in DOMAIN r.read, NEW j \in DOMAIN r.read, Hit(r, i), Hit(r, j),
           Precedes(r.query, r.read, i, j)
    PROVE  ~Precedes(r.query, r.read, j, i)
<1> SUFFICES ASSUME Precedes(r.query, r.read, j, i) PROVE FALSE
  OBVIOUS
<1>1. /\ Decided(r, i, j) \/ (Undecided(r, i, j) /\ Before(r, i, j))
      /\ Decided(r, j, i) \/ (Undecided(r, j, i) /\ Before(r, j, i))
  BY PrecedesMeans
<1>2. Decided(r, i, j) => ~Undecided(r, j, i)
  BY WaysApart DEF Decided, Undecided
<1>3. Decided(r, j, i) => ~Undecided(r, i, j)
  BY WaysApart DEF Decided, Undecided
<1>4. ASSUME Decided(r, i, j), Decided(r, j, i) PROVE FALSE
  <2>1. PICK k \in DOMAIN r.query.order : Way(r, k, i, j) /\ \A l \in 1..(k - 1) : ~Apart(r, l, i, j)
    BY <1>4 DEF Decided
  <2>2. PICK m \in DOMAIN r.query.order : Way(r, m, j, i) /\ \A l \in 1..(m - 1) : ~Apart(r, l, j, i)
    BY <1>4 DEF Decided
  <2>3. Apart(r, k, j, i) /\ Apart(r, m, i, j)
    BY <2>1, <2>2, WaysApart
  <2>4. ~(k \in 1..(m - 1)) /\ ~(m \in 1..(k - 1))
    BY <2>1, <2>2, <2>3
  <2>5. k = m
    BY <2>4, WaysApart
  <2> DEFINE v == SortValue(r, r.query.order[k], i)
             w == SortValue(r, r.query.order[k], j)
  <2>6. v.type \in Int /\ v.n \in Int /\ w.type \in Int /\ w.n \in Int
    BY ValuesAreTyped
  <2>7. Below(v, w) /\ Below(w, v)
    BY <2>1, <2>2, <2>5 DEF Way
  <2> HIDE DEF v, w
  <2> QED
    BY <2>6, <2>7, BelowIsWeak
<1>5. ASSUME Before(r, i, j), Before(r, j, i) PROVE FALSE
  <2> DEFINE fi == FirstMatch(r.query, r.read[i].fields)
             fj == FirstMatch(r.query, r.read[j].fields)
  <2>1. i \in Nat /\ j \in Nat
    BY RunFacts
  <2>2. fi \in Int /\ fj \in Int
    <3>1. CASE r.query.compose = "AND"
      BY <3>1 DEF FirstMatch
    <3>2. CASE r.query.compose = "OR"
      <4>1. (\E e \in DOMAIN r.query.filters : Holds(r, i, e)) /\ (\E e \in DOMAIN r.query.filters : Holds(r, j, e))
        BY <3>2, HitIs
      <4>2. fi \in DOMAIN r.query.filters /\ fj \in DOMAIN r.query.filters
        BY <3>2, <4>1, FirstIs
      <4>3. DOMAIN r.query.filters \subseteq Int
        BY RunFacts, QueryFacts
      <4> QED
        BY <4>2, <4>3
    <3> QED
      BY <3>1, <3>2, RunFacts, QueryFacts
  <2>3. (fi < fj \/ (fi = fj /\ i < j)) /\ (fj < fi \/ (fj = fi /\ j < i))
    BY <1>5 DEF Before
  <2> HIDE DEF fi, fj
  <2> QED
    BY <2>1, <2>2, <2>3
<1> QED
  BY <1>1, <1>2, <1>3, <1>4, <1>5

(* What the code compares are the values of the documents as they were     *)
(* read, when their maps are.                                              *)
LEMMA KeysAsRead ==
    ASSUME NEW r \in Run, MapsAsRead(r), NEW i \in DOMAIN r.read, Sound(r, i), NEW o
    PROVE  LET k == SortKey(o, Ref(r.read[i]))  v == SortValue(r, o, i) IN k.type = v.type /\ k.n = v.n
<1>1. Ref(r.read[i]).map = r.read[i].map /\ Ref(r.read[i]).name = r.read[i].name
  BY DEF Ref
<1>2. maps[r.read[i].map] = r.read[i].fields
  BY DEF MapsAsRead
<1> QED
  BY <1>1, <1>2 DEF SortKey, SortValue

LEMMA LessMeans ==
    ASSUME NEW r \in Run, MapsAsRead(r), NEW i \in DOMAIN r.read, NEW j \in DOMAIN r.read, Sound(r, i), Sound(r, j)
    PROVE  Less(r.query.order, Ref(r.read[i]), Ref(r.read[j])) <=> Decided(r, i, j)
<1> DEFINE orders == r.query.order
           a(k) == SortKey(orders[k], Ref(r.read[i]))
           b(k) == SortKey(orders[k], Ref(r.read[j]))
           v(k) == SortValue(r, orders[k], i)
           w(k) == SortValue(r, orders[k], j)
           Cmp(k) == compareValues(a(k), b(k))
<1>1. Len(orders) \in Nat /\ DOMAIN orders = 1..Len(orders)
  BY WaysApart
<1>2. ASSUME NEW k \in DOMAIN orders
      PROVE  /\ Cmp(k) < 0 <=> Below(v(k), w(k))
             /\ Cmp(k) > 0 <=> Below(w(k), v(k))
             /\ Cmp(k) = 0 <=> ~Below(v(k), w(k)) /\ ~Below(w(k), v(k))
  <2>1. /\ v(k).type \in Int /\ v(k).n \in Int /\ w(k).type \in Int /\ w(k).n \in Int
    BY ValuesAreTyped
  <2>2. /\ a(k).type = v(k).type /\ a(k).n = v(k).n /\ b(k).type = w(k).type /\ b(k).n = w(k).n
    BY KeysAsRead
  <2> HIDE DEF a, b, v, w
  <2>3. /\ Cmp(k) < 0 <=> Below(a(k), b(k))
        /\ Cmp(k) > 0 <=> Below(b(k), a(k))
        /\ Cmp(k) = 0 <=> ~Below(a(k), b(k)) /\ ~Below(b(k), a(k))
    BY <2>1, <2>2, Compares
  <2>4. (Below(a(k), b(k)) <=> Below(v(k), w(k))) /\ (Below(b(k), a(k)) <=> Below(w(k), v(k)))
    BY <2>2 DEF Below
  <2> QED
    BY <2>3, <2>4
<1>3. \A k \in DOMAIN orders :
         /\ Cmp(k) = 0 <=> ~Apart(r, k, i, j)
         /\ (IF orders[k].desc THEN Cmp(k) > 0 ELSE Cmp(k) < 0) <=> Way(r, k, i, j)
  <2> HIDE DEF Cmp
  <2> QED
    BY <1>2 DEF Apart, Way
<1>4. Less(orders, Ref(r.read[i]), Ref(r.read[j])) <=>
         \E k \in DOMAIN orders : /\ \A l \in 1..(k - 1) : Cmp(l) = 0
                                  /\ IF orders[k].desc THEN Cmp(k) > 0 ELSE Cmp(k) < 0
  BY DEF Less
<1>5. \A k \in DOMAIN orders : \A l \in 1..(k - 1) : l \in DOMAIN orders
  BY <1>1
<1> HIDE DEF Cmp
<1> QED
  BY <1>3, <1>4, <1>5 DEF Decided

(* Keys that tell two documents apart put one of them first.               *)
LEMMA SomeKey ==
    ASSUME NEW r \in Run, NEW i, NEW j
    PROVE  Undecided(r, i, j) \/ Decided(r, i, j) \/ Decided(r, j, i)
<1> SUFFICES ASSUME ~Undecided(r, i, j) PROVE Decided(r, i, j) \/ Decided(r, j, i)
  OBVIOUS
<1> DEFINE T == {k \in DOMAIN r.query.order : Apart(r, k, i, j)}
<1>1. Len(r.query.order) \in Nat /\ DOMAIN r.query.order = 1..Len(r.query.order)
  BY WaysApart
<1>2. T \subseteq Nat /\ T # {}
  BY <1>1 DEF Undecided
<1>3. \A k : k \in T <=> k \in 1..Len(r.query.order) /\ Apart(r, k, i, j)
  BY <1>1
<1> HIDE DEF T
<1>4. PICK m \in T : \A l \in T : m <= l
  BY <1>2, LeastOf
<1>5. m \in 1..Len(r.query.order) /\ Apart(r, m, i, j)
  BY <1>3
<1>6. \A l \in 1..(m - 1) : ~Apart(r, l, i, j) /\ ~Apart(r, l, j, i)
  <2> SUFFICES ASSUME NEW l \in 1..(m - 1), Apart(r, l, i, j) PROVE FALSE
    BY WaysApart
  <2>1. l \in 1..Len(r.query.order) /\ ~(m <= l)
    BY <1>1, <1>5
  <2> QED
    BY <1>3, <1>4, <2>1
<1> QED
  BY <1>1, <1>5, <1>6, WaysApart DEF Decided

(* The documents in whatever order the sort puts them.                     *)
Arranged(r, at, ds) ==
    Enumerates(at, DOMAIN r.docs) /\ ds = [k \in DOMAIN r.docs |-> r.docs[at[k]]]

LEMMA ArrangedFacts ==
    ASSUME NEW r \in Run, NamesApart(r), Of(r, r.docs), Filtered(r), NEW at, NEW ds, Arranged(r, at, ds)
    PROVE  /\ ds \in Seq(RefDoc) /\ Len(ds) = Len(r.docs) /\ Len(ds) \in Nat
           /\ DOMAIN ds = DOMAIN r.docs /\ DOMAIN ds = 1..Len(ds)
           /\ Of(r, ds)
           /\ \A k \in DOMAIN ds : at[k] \in DOMAIN r.docs /\ ds[k] = r.docs[at[k]]
           /\ \A k \in DOMAIN ds : Ix(r, ds[k]) \in DOMAIN r.read /\ Ref(r.read[Ix(r, ds[k])]) = ds[k]
           /\ \A k, l \in DOMAIN ds : Ix(r, ds[k]) = Ix(r, ds[l]) => k = l
           /\ \A k \in DOMAIN ds : Sound(r, Ix(r, ds[k])) => Hit(r, Ix(r, ds[k]))
           /\ \A i \in DOMAIN r.read : Sound(r, i) /\ Hit(r, i) => \E p \in DOMAIN ds : ds[p] = Ref(r.read[i]) /\ Ix(r, ds[p]) = i
<1> DEFINE docs0 == r.docs
           n == Len(docs0)
<1>1. docs0 \in Seq(RefDoc) /\ n \in Nat /\ DOMAIN docs0 = 1..n
  BY RunFacts
<1>2. \A k \in 1..n : docs0[k] \in RefDoc
  BY <1>1
<1>3. /\ at \in [1..n -> 1..n]
      /\ \A k, l \in 1..n : at[k] = at[l] => k = l
      /\ \A a \in 1..n : \E k \in 1..n : at[k] = a
  BY <1>1, LengthOf DEF Arranged, Enumerates
<1>4. ds = [k \in 1..n |-> docs0[at[k]]]
  BY <1>1 DEF Arranged
<1> HIDE DEF docs0, n
<1>5. ds \in [1..n -> RefDoc]
  BY <1>2, <1>3, <1>4
<1>6. ds \in Seq(RefDoc) /\ Len(ds) = n /\ DOMAIN ds = 1..n
  BY <1>1, <1>5
<1>7. \A k \in 1..n : at[k] \in 1..n /\ ds[k] = docs0[at[k]]
  BY <1>3, <1>4
<1>8. Of(r, ds)
  BY <1>1, <1>6, <1>7 DEF Of, docs0
<1>9. \A k \in 1..n : Ix(r, ds[k]) \in DOMAIN r.read /\ Ref(r.read[Ix(r, ds[k])]) = ds[k]
  BY <1>6, <1>8, Places
<1>10. \A a, b \in 1..n : docs0[a] = docs0[b] => a = b
  <2>1. \A a, b \in 1..n : a < b => docs0[a] # docs0[b]
    BY <1>1 DEF Filtered, docs0
  <2> QED
    BY <1>1, <2>1
<1>11. \A k, l \in 1..n : Ix(r, ds[k]) = Ix(r, ds[l]) => k = l
  <2> SUFFICES ASSUME NEW k \in 1..n, NEW l \in 1..n, Ix(r, ds[k]) = Ix(r, ds[l]) PROVE k = l
    OBVIOUS
  <2>1. ds[k] = ds[l]
    BY <1>9
  <2>2. at[k] = at[l]
    BY <1>7, <1>10, <2>1
  <2> QED
    BY <1>3, <2>2
<1>12. \A k \in 1..n : Sound(r, Ix(r, ds[k])) => Hit(r, Ix(r, ds[k]))
  BY <1>1, <1>7 DEF Filtered, docs0
<1>13. \A i \in DOMAIN r.read : Sound(r, i) /\ Hit(r, i) => \E p \in 1..n : ds[p] = Ref(r.read[i]) /\ Ix(r, ds[p]) = i
  <2> SUFFICES ASSUME NEW i \in DOMAIN r.read, Sound(r, i), Hit(r, i)
               PROVE  \E p \in 1..n : ds[p] = Ref(r.read[i]) /\ Ix(r, ds[p]) = i
    OBVIOUS
  <2>1. PICK a \in 1..n : docs0[a] = Ref(r.read[i])
    BY <1>1 DEF Filtered, In, docs0
  <2>2. PICK p \in 1..n : at[p] = a
    BY <1>3
  <2>3. ds[p] = Ref(r.read[i])
    BY <1>7, <2>1, <2>2
  <2>4. Ix(r, Ref(r.read[i])) = i
    BY Places
  <2> QED
    BY <2>3, <2>4
<1> QED
  BY <1>1, <1>6, <1>7, <1>8, <1>9, <1>11, <1>12, <1>13 DEF docs0, n

(* Of a sort whose keys were what was read, the place of a document is the *)
(* number of those that precede it.                                        *)
LEMMA PlaceIs ==
    ASSUME NEW r \in Run, NamesApart(r), MapsAsRead(r), Of(r, r.docs), Filtered(r), r.written = {},
           NEW at, NEW ds, Arranged(r, at, ds),
           \A k, l \in DOMAIN ds : k < l => InOrder(r.query.order, r.docs, at, k, l),
           NEW p \in DOMAIN ds
    PROVE  Place(r, Ix(r, ds[p])) = p - 1
<1> DEFINE ix(k) == Ix(r, ds[k])
           n == Len(ds)
           Prec(i, j) == Precedes(r.query, r.read, i, j)
<1>1. /\ n \in Nat /\ DOMAIN ds = 1..n /\ DOMAIN r.docs = 1..n
      /\ \A k \in 1..n : at[k] \in 1..n /\ ds[k] = r.docs[at[k]]
      /\ \A k \in 1..n : ix(k) \in DOMAIN r.read /\ Ref(r.read[ix(k)]) = ds[k]
      /\ \A k, l \in 1..n : ix(k) = ix(l) => k = l
      /\ \A k \in 1..n : Hit(r, ix(k))
      /\ \A i \in DOMAIN r.read : Hit(r, i) => \E k \in 1..n : ix(k) = i
  <2>1. \A i : Sound(r, i)
    BY DEF Sound
  <2>2. Len(ds) \in Nat /\ DOMAIN ds = 1..Len(ds) /\ DOMAIN ds = DOMAIN r.docs
    BY ArrangedFacts
  <2>3. \A k \in DOMAIN ds : at[k] \in DOMAIN r.docs /\ ds[k] = r.docs[at[k]]
    BY ArrangedFacts
  <2>4. \A k \in DOMAIN ds : ix(k) \in DOMAIN r.read /\ Ref(r.read[ix(k)]) = ds[k]
    BY ArrangedFacts
  <2>5. \A k, l \in DOMAIN ds : ix(k) = ix(l) => k = l
    BY ArrangedFacts
  <2>6. \A k \in DOMAIN ds : Hit(r, ix(k))
    BY <2>1, ArrangedFacts
  <2>7. \A i \in DOMAIN r.read : Hit(r, i) => \E k \in DOMAIN ds : ix(k) = i
    <3>1. \A i \in DOMAIN r.read : Sound(r, i) /\ Hit(r, i) =>
             \E k \in DOMAIN ds : ds[k] = Ref(r.read[i]) /\ Ix(r, ds[k]) = i
      BY ArrangedFacts
    <3> QED
      BY <2>1, <3>1
  <2> QED
    BY <2>2, <2>3, <2>4, <2>5, <2>6, <2>7
<1>2. \A i \in DOMAIN r.read : Sound(r, i)
  BY DEF Sound
<1>3. ASSUME NEW k \in 1..n, NEW l \in 1..n, k < l PROVE Prec(ix(k), ix(l))
  <2> DEFINE i == ix(k)
             j == ix(l)
  <2>1. InOrder(r.query.order, r.docs, at, k, l)
    BY <1>1, <1>3
  <2>2. i \in DOMAIN r.read /\ j \in DOMAIN r.read /\ Ref(r.read[i]) = r.docs[at[k]] /\ Ref(r.read[j]) = r.docs[at[l]]
    BY <1>1
  <2>3. at[k] < at[l] => Before(r, i, j)
    <3>1. at[k] \in DOMAIN r.docs /\ at[l] \in DOMAIN r.docs /\ i = Ix(r, r.docs[at[k]]) /\ j = Ix(r, r.docs[at[l]])
      BY <1>1
    <3> HIDE DEF i, j
    <3> QED
      BY <1>2, <2>2, <3>1 DEF Filtered
  <2> HIDE DEF i, j
  <2>4. /\ Less(r.query.order, r.docs[at[k]], r.docs[at[l]]) <=> Decided(r, i, j)
        /\ Less(r.query.order, r.docs[at[l]], r.docs[at[k]]) <=> Decided(r, j, i)
    BY <1>2, <2>2, LessMeans
  <2>5. Decided(r, i, j) \/ (~Decided(r, j, i) /\ Before(r, i, j))
    BY <2>1, <2>3, <2>4 DEF InOrder
  <2>6. Undecided(r, i, j) \/ Decided(r, i, j) \/ Decided(r, j, i)
    BY SomeKey
  <2>7. Prec(i, j)
    BY <2>5, <2>6, PrecedesMeans
  <2> QED
    BY <2>7 DEF i, j
<1>4. ASSUME NEW k \in 1..n, NEW l \in 1..n, Prec(ix(k), ix(l)) PROVE k < l
  <2>1. ~Prec(ix(l), ix(k))
    BY <1>1, <1>4, PrecedesOneWay
  <2>2. k # l /\ ~(l < k)
    BY <1>3, <1>4, <2>1
  <2> QED
    BY <1>1, <2>2
<1> DEFINE H == {k \in DOMAIN r.read : Hit(r, k)}
           B == {j \in H : Prec(j, ix(p))}
           f == [k \in 1..(p - 1) |-> ix(k)]
<1>5. p \in 1..n /\ p - 1 \in Nat /\ \A k \in 1..(p - 1) : k \in 1..n /\ k < p
  BY <1>1
<1>6. \A j : j \in B <=> j \in DOMAIN r.read /\ Hit(r, j) /\ Prec(j, ix(p))
  OBVIOUS
<1>7. Place(r, ix(p)) = Cardinality(B)
  BY DEF Place
<1> HIDE DEF B, Prec, ix
<1>8. f \in [1..(p - 1) -> B]
  <2>1. \A k \in 1..(p - 1) : ix(k) \in B
    BY <1>1, <1>3, <1>5, <1>6
  <2> QED
    BY <2>1
<1>9. \A k, l \in 1..(p - 1) : f[k] = f[l] => k = l
  BY <1>1, <1>5
<1>10. \A j \in B : \E k \in 1..(p - 1) : f[k] = j
  <2> SUFFICES ASSUME NEW j \in B PROVE \E k \in 1..(p - 1) : f[k] = j
    OBVIOUS
  <2>1. PICK k \in 1..n : ix(k) = j
    BY <1>1, <1>6
  <2>2. k < p
    BY <1>4, <1>5, <1>6, <2>1
  <2>3. k \in 1..(p - 1) /\ f[k] = j
    BY <1>5, <2>1, <2>2
  <2> QED
    BY <2>3
<1> HIDE DEF f
<1>11. Cardinality(B) = p - 1
  BY <1>5, <1>8, <1>9, <1>10, Counted
<1> QED
  BY <1>7, <1>11 DEF ix

(* When it begins to send.                                                 *)
LEMMA SendingBegins ==
    ASSUME NEW r \in Run, NEW s \in Run, NamesApart(r), MapsAsRead(r), Of(r, r.docs), Filtered(r),
           NEW at, NEW ds, Arranged(r, at, ds),
           r.written = {} => \A k, l \in DOMAIN ds : k < l => InOrder(r.query.order, r.docs, at, k, l),
           s.query = r.query, s.read = r.read, s.written = r.written, s.sent = <<>>, s.docs = Page(ds, r.query)
    PROVE  Sending(s) /\ Of(r, s.docs)
<1> DEFINE page == Page(ds, r.query)
           off == r.query.offset
           lim == r.query.limit
           n == Len(ds)
           m == Len(page)
           ix(k) == Ix(r, ds[k])
<1>1. n \in Nat /\ DOMAIN ds = 1..n /\ ds \in Seq(RefDoc) /\ Of(r, ds)
  BY ArrangedFacts
<1>2. \A k \in 1..n : ix(k) \in DOMAIN r.read /\ Ref(r.read[ix(k)]) = ds[k]
  BY <1>1, ArrangedFacts
<1>3. \A k, l \in 1..n : ix(k) = ix(l) => k = l
  BY <1>1, ArrangedFacts
<1>4. \A k \in 1..n : Sound(r, ix(k)) => Hit(r, ix(k))
  BY <1>1, ArrangedFacts
<1>5. off \in Nat /\ lim \in Nat \cup {NoLimit}
  BY RunFacts, QueryFacts
<1>6. /\ page \in Seq(RefDoc)
      /\ \A k \in DOMAIN page : off + k \in DOMAIN ds /\ page[k] = ds[off + k] /\ (lim # NoLimit => k <= lim)
      /\ \A i \in DOMAIN ds : i > off /\ (lim # NoLimit => i <= off + lim) => i - off \in DOMAIN page
  BY <1>1, <1>5, PageIs
<1> HIDE DEF page, ix
<1>7. m \in Nat /\ DOMAIN page = 1..m
  BY <1>6
<1> HIDE DEF m, n, off
<1>8. Total(s) = m /\ \A k \in 1..m : NameAt(s, k) = page[k].name /\ s.docs[k] = page[k]
  <2>1. Len(s.sent) = 0 /\ s.docs = page /\ Len(s.docs) = m
    BY DEF page, m
  <2>2. \A k \in 1..m : ~(k <= 0) /\ k - 0 = k
    BY <1>7
  <2> QED
    BY <1>7, <2>1, <2>2 DEF Total, NameAt
<1>9. \A k \in 1..m : /\ off + k \in 1..n /\ page[k] = ds[off + k] /\ Ix(r, page[k]) = ix(off + k)
                      /\ page[k].name = r.read[ix(off + k)].name
  <2> SUFFICES ASSUME NEW k \in 1..m
               PROVE  /\ off + k \in 1..n /\ page[k] = ds[off + k] /\ Ix(r, page[k]) = ix(off + k)
                      /\ page[k].name = r.read[ix(off + k)].name
    OBVIOUS
  <2>1. off + k \in 1..n /\ page[k] = ds[off + k]
    BY <1>1, <1>6, <1>7
  <2>2. Ref(r.read[ix(off + k)]) = page[k]
    BY <1>2, <2>1
  <2> QED
    BY <2>1, <2>2 DEF Ref, ix
<1>10. \A k, l \in 1..m : NameAt(s, k) = NameAt(s, l) => k = l
  <2> SUFFICES ASSUME NEW k \in 1..m, NEW l \in 1..m, NameAt(s, k) = NameAt(s, l) PROVE k = l
    OBVIOUS
  <2>1. r.read[ix(off + k)].name = r.read[ix(off + l)].name
    BY <1>8, <1>9
  <2>2. ix(off + k) = ix(off + l)
    BY <1>2, <1>9, <2>1 DEF NamesApart
  <2>3. off + k = off + l
    BY <1>3, <1>9, <2>2
  <2> QED
    BY <1>5, <1>7, <2>3 DEF off
<1>11. \A k \in 1..m : Sound(r, Ix(r, page[k])) => Hit(r, Ix(r, page[k]))
  BY <1>4, <1>9
<1>12. ASSUME r.written = {}
       PROVE  /\ \A k \in 1..m, i \in DOMAIN r.read : NameAt(s, k) = r.read[i].name =>
                    OnPage(r, i) /\ k = Place(r, i) - off + 1
              /\ \A i \in DOMAIN r.read : OnPage(r, i) => \E k \in 1..m : NameAt(s, k) = r.read[i].name
  <2>1. \A i : Sound(r, i)
    BY <1>12 DEF Sound
  <2>2. \A p \in 1..n : Place(r, ix(p)) = p - 1
    BY <1>1, <1>12, PlaceIs DEF ix
  <2>3. ASSUME NEW k \in 1..m, NEW i \in DOMAIN r.read, NameAt(s, k) = r.read[i].name
        PROVE  OnPage(r, i) /\ k = Place(r, i) - off + 1
    <3>1. off + k \in 1..n /\ ix(off + k) = i
      BY <1>2, <1>8, <1>9, <2>3 DEF NamesApart
    <3>2. Place(r, i) = off + k - 1 /\ Hit(r, i)
      <4> DEFINE p == off + k
      <4>1. p \in 1..n /\ ix(p) = i
        BY <3>1
      <4> HIDE DEF p
      <4>2. Place(r, ix(p)) = p - 1 /\ Hit(r, ix(p))
        BY <1>4, <2>1, <2>2, <4>1
      <4>3. Place(r, i) = p - 1 /\ Hit(r, i)
        BY <4>1, <4>2, Zenon
      <4>4. off \in Nat /\ k \in Nat
        BY <1>5, <1>7 DEF off
      <4> QED
        BY <4>3, <4>4 DEF p
    <3>3. lim # NoLimit => k <= lim /\ lim \in Nat
      BY <1>5, <1>6, <1>7
    <3>4. off \in Nat /\ k \in Nat /\ k >= 1
      BY <1>5, <1>7 DEF off
    <3>5. off + k - 1 >= off /\ k = (off + k - 1) - off + 1 /\ (lim # NoLimit => off + k - 1 < off + lim)
      BY <3>3, <3>4
    <3> QED
      BY <3>2, <3>5 DEF OnPage, off
  <2>4. ASSUME NEW i \in DOMAIN r.read, OnPage(r, i) PROVE \E k \in 1..m : NameAt(s, k) = r.read[i].name
    <3>1. Hit(r, i) /\ Place(r, i) >= off /\ (lim # NoLimit => Place(r, i) < off + lim)
      BY <2>4 DEF OnPage, off
    <3>2. PICK p \in 1..n : ix(p) = i
      <4>1. \A e \in DOMAIN r.read : Sound(r, e) /\ Hit(r, e) =>
               \E p \in DOMAIN ds : ds[p] = Ref(r.read[e]) /\ Ix(r, ds[p]) = e
        BY ArrangedFacts
      <4> QED
        BY <1>1, <2>1, <3>1, <4>1 DEF ix
    <3>3. Place(r, i) = p - 1 /\ p \in Nat /\ off \in Nat
      BY <1>1, <1>5, <2>2, <3>2 DEF off
    <3>4. p > off /\ (lim # NoLimit => p <= off + lim)
      BY <1>5, <3>1, <3>3
    <3>5. p - off \in 1..m
      BY <1>1, <1>6, <1>7, <3>4
    <3>6. off + (p - off) = p
      BY <3>3
    <3>7. NameAt(s, p - off) = r.read[i].name
      BY <1>8, <1>9, <3>2, <3>5, <3>6
    <3> QED
      BY <3>5, <3>7
  <2> QED
    BY <2>3, <2>4
<1>13. Of(r, page)
  <2>1. \A k \in 1..m : \E i \in DOMAIN r.read : page[k] = Ref(r.read[i])
    BY <1>2, <1>9
  <2> QED
    BY <1>7, <2>1 DEF Of
<1>14. \A i : OnPage(s, i) <=> OnPage(r, i)
  BY SameView DEF OnPage, Place
<1>15. \A i : Place(s, i) = Place(r, i)
  BY SameView DEF Place
<1>16. DOMAIN s.sent = {}
  OBVIOUS
<1>17. Sending(s)
  <2>1. \A k \in DOMAIN s.docs : Sound(s, Ix(s, s.docs[k])) => Hit(s, Ix(s, s.docs[k]))
    BY <1>7, <1>8, <1>11, SameView DEF page
  <2> HIDE DEF lim
  <2> QED
    BY <1>8, <1>10, <1>12, <1>14, <1>15, <1>16, <2>1 DEF Sending, off
<1> QED
  BY <1>13, <1>17 DEF page

(* What the maps hold now is typed as well.                                *)
LEMMA SortKeysAreTyped ==
    ASSUME QInv, NEW r \in Run, MapsAsRead(r), Of(r, r.docs), NEW k \in DOMAIN r.query.order, NEW i \in DOMAIN r.docs
    PROVE  LET v == SortKey(r.query.order[k], r.docs[i]) IN v.type \in Int /\ v.n \in Int
<1> DEFINE o == r.query.order[k]
           x == r.docs[i]
<1>1. \A X, s : s \in Seq(X) => \A e \in DOMAIN s : s[e] \in X
  OBVIOUS
<1>2. o \in [field : Field \cup {"__name__"}, desc : BOOLEAN]
  <2>1. r.query.order \in Seq([field : Field \cup {"__name__"}, desc : BOOLEAN])
    BY RunFacts, QueryFacts
  <2> QED
    BY <1>1, <2>1, Zenon
<1>3. x \in RefDoc /\ x.map \in 1..Len(maps)
  <2>1. r.docs \in Seq(RefDoc)
    BY RunFacts
  <2>2. x \in RefDoc
    BY <1>1, <2>1, Zenon
  <2>3. PICK e \in DOMAIN r.read : x = Ref(r.read[e])
    BY DEF Of
  <2> QED
    BY <2>2, <2>3 DEF MapsAsRead, Ref
<1> HIDE DEF o, x
<1>4. maps[x.map] \in [Field -> Value] /\ x.name \in Nat /\ o.field \in Field \cup {"__name__"}
  <2>1. maps \in Seq(FieldMap)
    BY DEF QInv, StoreTypes
  <2>2. maps[x.map] \in FieldMap
    BY <1>3, <2>1
  <2> QED
    BY <1>2, <1>3, <2>2, QueryAssumption DEF FieldMap, RefDoc
<1>5. CASE o.field = "__name__"
  BY <1>4, <1>5 DEF SortKey, o, x
<1>6. CASE o.field # "__name__"
  <2>1. SortKey(o, x) \in Value
    BY <1>4, <1>6 DEF SortKey
  <2> QED
    BY <2>1 DEF Value, o, x
<1> QED
  BY <1>5, <1>6

LEMMA EndSortInv ==
    ASSUME QInv, NEW h \in Reader, EndSort(h)
    PROVE  QInv'
<1> DEFINE r == readers[h]
           orders == r.query.order
<1>1. r.pc = "sort" /\ UNCHANGED <<docs, maps>>
  BY DEF EndSort, At
<1>2. r \in Run /\ RunInv(r)
  BY <1>1, HandlerHere
<1>3. PICK ds \in IF r.moved /\ orders # <<>> THEN Shuffled(r.docs) ELSE {Sorted(r.docs, orders)} :
         readers' = [readers EXCEPT ![h] = [r EXCEPT !.pc = "send", !.docs = Page(ds, r.query)]]
  BY DEF EndSort, Becomes
<1> HIDE DEF r
<1>4. /\ NamesApart(r) /\ Shape(r) /\ MapsAsRead(r) /\ Of(r, r.docs) /\ Of(r, r.todo) /\ Of(r, r.kept)
      /\ Filtered(r) /\ r.sent = <<>> /\ (r.moved => r.written # {})
  BY <1>1, <1>2 DEF RunInv, Shape, Progress, MapsAsRead
<1>5. r.docs \in Seq(RefDoc) /\ DOMAIN r.docs = 1..Len(r.docs) /\ Len(r.docs) \in Nat
  BY <1>2, RunFacts
<1>6. \E at : /\ Arranged(r, at, ds)
              /\ r.written = {} => \A k, l \in DOMAIN r.docs : k < l => InOrder(orders, r.docs, at, k, l)
  <2>1. CASE r.moved /\ orders # <<>>
    <3>1. PICK at \in SetToSeqs(DOMAIN r.docs) : ds = [k \in DOMAIN r.docs |-> r.docs[at[k]]]
      BY <1>3, <2>1 DEF Shuffled
    <3>2. IsFiniteSet(DOMAIN r.docs)
      BY <1>5, LengthOf
    <3>3. Enumerates(at, DOMAIN r.docs)
      BY <3>1, <3>2, SeqsEnumerate
    <3> QED
      BY <1>4, <2>1, <3>1, <3>3 DEF Arranged
  <2>2. CASE ~(r.moved /\ orders # <<>>)
    <3>1. ds = Sorted(r.docs, orders)
      BY <1>3, <2>2
    <3>2. orders \in Seq([field : Field \cup {"__name__"}, desc : BOOLEAN])
      BY <1>2, RunFacts, QueryFacts
    <3>3. \A k \in DOMAIN orders, i \in DOMAIN r.docs :
             SortKey(orders[k], r.docs[i]).type \in Int /\ SortKey(orders[k], r.docs[i]).n \in Int
      BY <1>2, <1>4, SortKeysAreTyped
    <3> DEFINE ds0 == r.docs
    <3> HIDE DEF orders, ds0
    <3>4. ds0 \in Seq(RefDoc)
      BY <1>5 DEF ds0
    <3>5. \A k \in DOMAIN orders, i \in DOMAIN ds0 :
             SortKey(orders[k], ds0[i]).type \in Int /\ SortKey(orders[k], ds0[i]).n \in Int
      BY <3>3 DEF ds0
    <3>6. \E at : /\ Enumerates(at, DOMAIN ds0)
                  /\ Sorted(ds0, orders) = [k \in DOMAIN ds0 |-> ds0[at[k]]]
                  /\ \A i, j \in DOMAIN ds0 : i < j => InOrder(orders, ds0, at, i, j)
      BY <3>2, <3>4, <3>5, SortedIs
    <3> QED
      BY <3>1, <3>6 DEF Arranged, ds0
  <2> QED
    BY <2>1, <2>2
<1>7. PICK at : /\ Arranged(r, at, ds)
                /\ r.written = {} => \A k, l \in DOMAIN r.docs : k < l => InOrder(orders, r.docs, at, k, l)
  BY <1>6
<1> DEFINE page == Page(ds, r.query)
           s == [r EXCEPT !.pc = "send", !.docs = page]
<1>8. ds \in Seq(RefDoc) /\ DOMAIN ds = DOMAIN r.docs
  BY <1>2, <1>4, <1>7, ArrangedFacts
<1>9. page \in Seq(RefDoc)
  <2>1. r.query.offset \in Nat /\ r.query.limit \in Nat \cup {NoLimit}
    BY <1>2, RunFacts, QueryFacts
  <2> QED
    BY <1>8, <2>1, PageIs
<1> HIDE DEF page
<1>10. /\ s \in Run /\ s.pc = "send" /\ s.query = r.query /\ s.source = r.source /\ s.docs = page
       /\ s.filter = r.filter /\ s.todo = r.todo /\ s.kept = r.kept /\ s.sent = r.sent
       /\ s.read = r.read /\ s.written = r.written /\ s.moved = r.moved
  BY <1>2, <1>9 DEF Run
<1>11. readers' = [readers EXCEPT ![h] = s]
  BY <1>3 DEF page
<1> HIDE DEF s
<1>12. Sending(s) /\ Of(r, s.docs)
  <2>1. r.written = {} => \A k, l \in DOMAIN ds : k < l => InOrder(r.query.order, r.docs, at, k, l)
    BY <1>7, <1>8
  <2>2. s.docs = Page(ds, r.query) /\ s.sent = <<>>
    BY <1>4, <1>10 DEF page
  <2> QED
    BY <1>2, <1>4, <1>7, <1>10, <2>1, <2>2, SendingBegins
<1>13. Progress(s)
  BY <1>10, <1>12 DEF Progress
<1>14. Shape(s)
  BY <1>1, <1>4, <1>10, <1>12, SameView DEF Shape
<1>15. NamesApart(s) /\ MapsAsRead(s)
  BY <1>4, <1>10 DEF NamesApart, MapsAsRead, Sound
<1>16. RunInv(s)
  BY <1>10, <1>13, <1>14, <1>15 DEF RunInv
<1> QED
  BY <1>1, <1>11, <1>16, HandlerMoves

(* One document is sent: the page is what it was.                          *)
LEMMA SendingGoesOn ==
    ASSUME NEW r \in Run, NEW s \in Run, NEW reply \in Reply, NEW i0 \in DOMAIN r.read,
           NamesApart(r), Of(r, r.docs), Sending(r), r.docs # <<>>, r.docs[1] = Ref(r.read[i0]),
           reply.name = r.read[i0].name, Sound(r, i0) => reply.fields = r.read[i0].fields,
           s.query = r.query, s.read = r.read, s.written = r.written,
           s.docs = Tail(r.docs), s.sent = Append(r.sent, reply)
    PROVE  Sending(s) /\ Of(r, s.docs)
<1> DEFINE ds == r.docs
           sent0 == r.sent
           n == Len(sent0)
           m == Len(ds)
<1>1. ds \in Seq(RefDoc) /\ sent0 \in Seq(Reply) /\ n \in Nat /\ m \in Nat /\ DOMAIN sent0 = 1..n /\ DOMAIN ds = 1..m
  BY RunFacts
<1>2. /\ 1 \in DOMAIN ds /\ Len(s.docs) = m - 1 /\ DOMAIN s.docs = 1..Len(s.docs)
      /\ \A k \in DOMAIN s.docs : k + 1 \in DOMAIN ds /\ s.docs[k] = ds[k + 1]
  <2>1. ds # <<>> /\ s.docs = Tail(ds)
    OBVIOUS
  <2> HIDE DEF ds
  <2>2. /\ 1 \in DOMAIN ds /\ Len(Tail(ds)) = m - 1
        /\ \A k \in DOMAIN Tail(ds) : k + 1 \in DOMAIN ds /\ Tail(ds)[k] = ds[k + 1]
    BY <1>1, <2>1, WithoutFirst
  <2> QED
    BY <2>1, <2>2, RunFacts
<1>3. /\ Len(s.sent) = n + 1 /\ DOMAIN s.sent = 1..(n + 1) /\ s.sent[n + 1] = reply
      /\ \A k \in 1..n : s.sent[k] = sent0[k]
  <2>1. s.sent = Append(sent0, reply)
    OBVIOUS
  <2> HIDE DEF sent0
  <2> QED
    BY <1>1, <2>1, WithLast
<1>4. Ix(r, ds[1]) = i0 /\ ds[1].name = r.read[i0].name
  <2>1. Ix(r, Ref(r.read[i0])) = i0
    BY Places
  <2>2. Ref(r.read[i0]).name = r.read[i0].name
    BY DEF Ref
  <2> QED
    BY <2>1, <2>2
<1>5. Sound(r, i0) => Hit(r, i0)
  BY <1>2, <1>4 DEF Sending
<1>6. Total(r) = n + m /\ Total(s) = n + 1 + (m - 1)
  BY <1>2, <1>3 DEF Total
<1>7. \A k : NameAt(r, k) = IF k <= n THEN sent0[k].name ELSE ds[k - n].name
  BY DEF NameAt
<1>8. \A k : NameAt(s, k) = IF k <= n + 1 THEN s.sent[k].name ELSE s.docs[k - (n + 1)].name
  BY <1>3 DEF NameAt
<1> HIDE DEF ds, sent0, n, m
<1>9. Total(s) = Total(r)
  BY <1>1, <1>6
<1>10. \A k \in 1..Total(r) : NameAt(s, k) = NameAt(r, k)
  <2> SUFFICES ASSUME NEW k \in 1..Total(r) PROVE NameAt(s, k) = NameAt(r, k)
    OBVIOUS
  <2>1. k \in Nat /\ k >= 1 /\ k <= n + m
    BY <1>1, <1>6
  <2>2. CASE k <= n
    BY <1>1, <1>3, <1>7, <1>8, <2>1, <2>2
  <2>3. CASE k = n + 1
    <3>1. ~(k <= n) /\ k <= n + 1 /\ k - n = 1
      BY <1>1, <2>3
    <3> QED
      BY <1>3, <1>4, <1>7, <1>8, <2>3, <3>1
  <2>4. CASE k > n + 1
    <3> DEFINE l == k - (n + 1)
    <3>1. ~(k <= n) /\ ~(k <= n + 1) /\ l \in 1..(m - 1) /\ l + 1 = k - n
      BY <1>1, <2>1, <2>4
    <3>2. NameAt(s, k) = s.docs[l].name /\ NameAt(r, k) = ds[k - n].name
      BY <1>7, <1>8, <3>1
    <3> HIDE DEF l
    <3> QED
      BY <1>2, <3>1, <3>2
  <2> QED
    BY <1>1, <2>1, <2>2, <2>3, <2>4
<1>11. \A k, l \in 1..Total(s) : NameAt(s, k) = NameAt(s, l) => k = l
  BY <1>9, <1>10 DEF Sending
<1>12. \A k \in DOMAIN s.sent : \E i \in DOMAIN s.read :
          /\ s.sent[k].name = s.read[i].name
          /\ Sound(s, i) => s.sent[k].fields = s.read[i].fields /\ Hit(s, i)
  <2> SUFFICES ASSUME NEW k \in DOMAIN s.sent
               PROVE  \E i \in DOMAIN r.read :
                         /\ s.sent[k].name = r.read[i].name
                         /\ Sound(r, i) => s.sent[k].fields = r.read[i].fields /\ Hit(r, i)
    BY SameView
  <2>1. k \in 1..n \/ k = n + 1
    BY <1>1, <1>3
  <2>2. CASE k \in 1..n
    <3>1. s.sent[k] = r.sent[k] /\ k \in DOMAIN r.sent
      BY <1>1, <1>3, <2>2 DEF sent0
    <3> QED
      BY <3>1 DEF Sending
  <2>3. CASE k = n + 1
    BY <1>3, <1>5, <2>3
  <2> QED
    BY <2>1, <2>2, <2>3
<1>13. \A k \in DOMAIN s.docs : Sound(s, Ix(s, s.docs[k])) => Hit(s, Ix(s, s.docs[k]))
  <2> SUFFICES ASSUME NEW k \in DOMAIN s.docs PROVE Sound(r, Ix(r, s.docs[k])) => Hit(r, Ix(r, s.docs[k]))
    BY SameView
  <2>1. k + 1 \in DOMAIN r.docs /\ s.docs[k] = r.docs[k + 1]
    BY <1>2 DEF ds
  <2> QED
    BY <2>1 DEF Sending
<1>14. /\ \A i : OnPage(s, i) <=> OnPage(r, i)
       /\ \A i : Place(s, i) = Place(r, i)
  BY SameView DEF OnPage, Place
<1>15. s.written = {} =>
          /\ \A k \in 1..Total(s), i \in DOMAIN s.read : NameAt(s, k) = s.read[i].name =>
                OnPage(s, i) /\ k = Place(s, i) - s.query.offset + 1
          /\ \A i \in DOMAIN s.read : OnPage(s, i) =>
                \E k \in 1..Total(s) : NameAt(s, k) = s.read[i].name
  BY <1>9, <1>10, <1>14 DEF Sending
<1>16. Of(r, s.docs)
  BY <1>2 DEF Of, ds
<1> QED
  BY <1>11, <1>12, <1>13, <1>15, <1>16 DEF Sending

LEMMA SendInv ==
    ASSUME QInv, NEW h \in Reader, Send(h)
    PROVE  QInv'
<1> DEFINE r == readers[h]
           doc == Head(r.docs)
           reply == [name |-> doc.name, fields |-> maps[doc.map]]
           rest == Tail(r.docs)
           now == Append(r.sent, reply)
           s == [r EXCEPT !.docs = rest, !.sent = now]
<1>1. r.pc = "send" /\ r.docs # <<>> /\ readers' = [readers EXCEPT ![h] = s] /\ UNCHANGED <<docs, maps>>
  BY DEF Send, At, Becomes
<1>2. r \in Run /\ RunInv(r)
  BY <1>1, HandlerHere
<1> HIDE DEF r
<1>3. /\ NamesApart(r) /\ Shape(r) /\ MapsAsRead(r) /\ Of(r, r.docs) /\ Of(r, r.todo) /\ Of(r, r.kept) /\ Sending(r)
  BY <1>1, <1>2 DEF RunInv, Shape, Progress
<1>4. r.docs \in Seq(RefDoc) /\ r.sent \in Seq(Reply)
  BY <1>2, RunFacts
<1>5. doc \in RefDoc /\ doc = r.docs[1] /\ 1 \in DOMAIN r.docs /\ rest \in Seq(RefDoc)
  <2> DEFINE ds == r.docs
  <2>1. ds \in Seq(RefDoc) /\ ds # <<>>
    BY <1>1, <1>4
  <2> HIDE DEF ds
  <2>2. Head(ds) \in RefDoc /\ Head(ds) = ds[1] /\ 1 \in DOMAIN ds /\ Tail(ds) \in Seq(RefDoc)
    BY <2>1, WithoutFirst
  <2> QED
    BY <2>2 DEF ds
<1> HIDE DEF doc
<1>6. PICK i0 \in DOMAIN r.read : doc = Ref(r.read[i0])
  BY <1>3, <1>5 DEF Of
<1>7. doc.name = r.read[i0].name /\ doc.map = r.read[i0].map
  BY <1>6 DEF Ref
<1>8. reply \in Reply
  <2>1. doc.map \in 1..Len(maps) /\ maps \in Seq(FieldMap)
    BY <1>3, <1>7 DEF MapsAsRead, QInv, StoreTypes
  <2>2. maps[doc.map] \in FieldMap
    BY <2>1
  <2> QED
    BY <1>5, <2>2 DEF RefDoc, Reply
<1>9. reply.name = r.read[i0].name /\ (Sound(r, i0) => reply.fields = r.read[i0].fields)
  BY <1>3, <1>7 DEF MapsAsRead
<1> HIDE DEF reply
<1>10. now \in Seq(Reply)
  BY <1>4, <1>8
<1> HIDE DEF rest, now
<1>11. /\ s \in Run /\ s.pc = "send" /\ s.query = r.query /\ s.source = r.source /\ s.docs = rest
       /\ s.filter = r.filter /\ s.todo = r.todo /\ s.kept = r.kept /\ s.sent = now
       /\ s.read = r.read /\ s.written = r.written /\ s.moved = r.moved
  BY <1>1, <1>2, <1>5, <1>10 DEF Run
<1> HIDE DEF s
<1>12. Sending(s) /\ Of(r, s.docs)
  <2>1. s.docs = Tail(r.docs) /\ s.sent = Append(r.sent, reply) /\ r.docs[1] = Ref(r.read[i0])
    BY <1>5, <1>6, <1>11 DEF rest, now
  <2> QED
    BY <1>1, <1>2, <1>3, <1>8, <1>9, <1>11, <2>1, SendingGoesOn
<1>13. Shape(s)
  BY <1>1, <1>3, <1>11, <1>12, SameView DEF Shape
<1>14. NamesApart(s) /\ MapsAsRead(s) /\ Progress(s)
  BY <1>3, <1>11, <1>12 DEF NamesApart, MapsAsRead, Sound, Progress
<1>15. RunInv(s)
  BY <1>11, <1>13, <1>14 DEF RunInv
<1> QED
  BY <1>1, <1>15, HandlerMoves

-----------------------------------------------------------------------------
(* The theorems.                                                           *)

LEMMA QueryStepInv ==
    ASSUME QInv, QueriesApi \/ QueriesStep
    PROVE  QInv'
<1>1. FieldsOf \subseteq FieldMap
  BY QueryAssumption DEF FieldMap
<1>2. CASE QueriesApi
  <2>1. ASSUME NEW d \in Doc, NEW fields \in FieldsOf, PutDocument(d, fields) PROVE QInv'
    BY <1>1, <2>1, NewMap
  <2>2. ASSUME NEW d \in Doc, NEW fields \in FieldsOf, NEW mask, UpdateFields(d, fields, mask) PROVE QInv'
    BY <1>1, <2>2, MapIsWritten
  <2>3. ASSUME NEW d \in Doc, DeleteDocument(d) PROVE QInv'
    BY <2>3, DocumentGone
  <2>4. ASSUME NEW h \in Reader, NEW q \in Query, RunQuery(h, q) PROVE QInv'
    BY <2>4, BeginInv
  <2> QED
    BY <1>2, <2>1, <2>2, <2>3, <2>4 DEF QueriesApi
<1>3. CASE QueriesStep
  <2>1. PICK h \in Reader : \/ Collect(h) \/ FilterDoc(h) \/ NextFilter(h) \/ BeginSort(h) \/ EndSort(h)
                            \/ Send(h) \/ EndQuery(h)
    BY <1>3 DEF QueriesStep
  <2> QED
    BY <2>1, CollectInv, FilterInv, NextFilterInv, BeginSortInv, EndSortInv, SendInv, EndInv
<1> QED
  BY <1>2, <1>3

LEMMA QueryStutterInv ==
    ASSUME QInv, UNCHANGED queryVars
    PROVE  QInv'
<1>1. docs' = docs /\ maps' = maps /\ readers' = readers
  BY DEF queryVars
<1>2. StoreTypes'
  BY <1>1 DEF QInv, StoreTypes
<1>3. ASSUME NEW h \in Reader, readers'[h] # NoQuery PROVE RunInv(readers[h])'
  <2>1. RunInv(readers[h])
    BY <1>1, <1>3 DEF QInv
  <2> QED
    BY <1>1, <2>1 DEF RunInv, MapsAsRead
<1> QED
  BY <1>2, <1>3 DEF QInv

LEMMA QueriesInvariant == QueriesSpec => []QInv
<1>1. QueriesInit => QInv
  BY InitQInv
<1>2. QInv /\ [QueriesApi \/ QueriesStep]_queryVars => QInv'
  BY QueryStepInv, QueryStutterInv
<1> QED
  BY <1>1, <1>2, PTL DEF QueriesSpec

LEMMA QueryTypes == QInv => QueriesTypeOK
<1> SUFFICES ASSUME QInv PROVE QueriesTypeOK
  OBVIOUS
<1>1. ASSUME NEW h \in Reader, readers[h] # NoQuery
      PROVE  LET r == readers[h]
                 refs == {[name |-> r.read[i].name, map |-> r.read[i].map] : i \in DOMAIN r.read} IN
             /\ r.pc \in {"collect", "filter", "order", "sort", "send"}
             /\ ToSet(r.docs) \cup ToSet(r.todo) \cup ToSet(r.kept) \subseteq refs
             /\ r.written \subseteq 1..Len(maps)
  <2> DEFINE r == readers[h]
             refs == {[name |-> r.read[i].name, map |-> r.read[i].map] : i \in DOMAIN r.read}
  <2>1. r \in Run /\ Shape(r) /\ MapsAsRead(r)
    BY <1>1 DEF QInv, RunInv
  <2> HIDE DEF r
  <2>2. \A ds : Of(r, ds) => ToSet(ds) \subseteq refs
    BY DEF Of, Ref, ToSet
  <2>3. Of(r, r.docs) /\ Of(r, r.todo) /\ Of(r, r.kept)
    BY <2>1 DEF Shape
  <2>4. r.written \subseteq 1..Len(maps)
    BY <2>1 DEF MapsAsRead
  <2>5. r.pc \in {"collect", "filter", "order", "sort", "send"}
    BY <2>1, RunFacts
  <2> HIDE DEF refs
  <2>6. ToSet(r.docs) \cup ToSet(r.todo) \cup ToSet(r.kept) \subseteq refs
    BY <2>2, <2>3
  <2> QED
    BY <2>4, <2>5, <2>6 DEF r, refs
<1> QED
  BY <1>1 DEF QInv, StoreTypes, QueriesTypeOK

(* When all is sent and nothing was written, the replies are the page.     *)
LEMMA AllIsSent ==
    ASSUME NEW r \in Run, NamesApart(r), Sending(r), r.docs = <<>>, r.written = {}
    PROVE  AnswerTo(r.query, r.read) =
              {[place |-> k, name |-> r.sent[k].name, fields |-> r.sent[k].fields] : k \in DOMAIN r.sent}
<1> DEFINE q == r.query
           n == Len(r.sent)
           reply(k) == [place |-> k, name |-> r.sent[k].name, fields |-> r.sent[k].fields]
           answer(i) == [place |-> Place(r, i) - q.offset + 1, name |-> r.read[i].name, fields |-> r.read[i].fields]
           found == {i \in DOMAIN r.read : Matches(q, r.read[i].fields)}
           page == {i \in DOMAIN r.read : OnPage(r, i)}
<1>1. n \in Nat /\ DOMAIN r.sent = 1..n /\ q.offset \in Nat
  BY RunFacts, QueryFacts
<1>2. Total(r) = n /\ \A k \in 1..n : NameAt(r, k) = r.sent[k].name
  BY <1>1 DEF Total, NameAt
<1>3. \A i : Sound(r, i)
  BY DEF Sound
<1>4. AnswerTo(q, r.read) = {answer(i) : i \in page}
  <2>1. \A i : Cardinality({j \in found : Precedes(q, r.read, j, i)}) = Place(r, i)
    BY DEF Place, Hit
  <2>2. {i \in found : /\ Place(r, i) >= q.offset
                       /\ q.limit # NoLimit => Place(r, i) < q.offset + q.limit} = page
    BY DEF OnPage, Hit
  <2>3. AnswerTo(q, r.read) =
          {answer(i) : i \in {i \in found : /\ Place(r, i) >= q.offset
                                            /\ q.limit # NoLimit => Place(r, i) < q.offset + q.limit}}
    BY <2>1 DEF AnswerTo
  <2> QED
    BY <2>2, <2>3
<1>5. ASSUME NEW i \in page PROVE \E k \in 1..n : reply(k) = answer(i)
  <2>1. i \in DOMAIN r.read /\ OnPage(r, i)
    OBVIOUS
  <2>2. PICK k \in 1..n : r.sent[k].name = r.read[i].name
    BY <1>2, <2>1 DEF Sending
  <2>3. k = Place(r, i) - q.offset + 1
    BY <1>2, <2>1, <2>2 DEF Sending
  <2>4. PICK j \in DOMAIN r.read : r.sent[k].name = r.read[j].name /\ r.sent[k].fields = r.read[j].fields
    BY <1>1, <1>3 DEF Sending
  <2>5. j = i
    BY <2>1, <2>2, <2>4 DEF NamesApart
  <2> QED
    BY <2>2, <2>3, <2>4, <2>5
<1>6. ASSUME NEW k \in 1..n PROVE \E i \in page : reply(k) = answer(i)
  <2>1. PICK i \in DOMAIN r.read : r.sent[k].name = r.read[i].name /\ r.sent[k].fields = r.read[i].fields
    BY <1>1, <1>3 DEF Sending
  <2>2. OnPage(r, i) /\ k = Place(r, i) - q.offset + 1
    BY <1>2, <2>1 DEF Sending
  <2> QED
    BY <2>1, <2>2
<1>7. \A x : x \in {answer(i) : i \in page} <=> \E i \in page : x = answer(i)
  OBVIOUS
<1>8. \A x : x \in {reply(k) : k \in 1..n} <=> \E k \in 1..n : x = reply(k)
  OBVIOUS
<1> DEFINE As == {answer(i) : i \in page}
           Rs == {reply(k) : k \in 1..n}
<1>9. As \subseteq Rs
  BY <1>5
<1>10. Rs \subseteq As
  BY <1>6
<1> HIDE DEF As, Rs
<1>11. As = Rs
  BY <1>9, <1>10
<1> QED
  BY <1>1, <1>4, <1>11 DEF As, Rs

LEMMA QueryAnswers == QInv => AnswersAsCollected
<1> SUFFICES ASSUME QInv, NEW h \in Reader, readers[h].pc = "send"
             PROVE  LET r == readers[h] IN
                    /\ r.docs = <<>> /\ r.written = {} =>
                          AnswerTo(r.query, r.read) =
                              {[place |-> k, name |-> r.sent[k].name, fields |-> r.sent[k].fields] : k \in DOMAIN r.sent}
                    /\ \A k \in DOMAIN r.sent :
                          /\ \A j \in 1..(k - 1) : r.sent[j].name # r.sent[k].name
                          /\ \E i \in DOMAIN r.read :
                                /\ r.read[i].name = r.sent[k].name
                                /\ r.read[i].map \notin r.written =>
                                      r.sent[k].fields = r.read[i].fields /\ Matches(r.query, r.sent[k].fields)
  BY DEF AnswersAsCollected
<1> DEFINE r == readers[h]
<1>1. r.pc = "send" /\ r \in Run /\ RunInv(r)
  BY HandlerHere
<1> HIDE DEF r
<1>2. NamesApart(r) /\ Sending(r)
  BY <1>1 DEF RunInv, Progress
<1>3. r.docs = <<>> /\ r.written = {} =>
         AnswerTo(r.query, r.read) =
            {[place |-> k, name |-> r.sent[k].name, fields |-> r.sent[k].fields] : k \in DOMAIN r.sent}
  BY <1>1, <1>2, AllIsSent
<1>4. DOMAIN r.sent = 1..Len(r.sent) /\ Len(r.sent) \in Nat /\ Len(r.docs) \in Nat
  BY <1>1, RunFacts
<1>5. ASSUME NEW k \in DOMAIN r.sent, NEW j \in 1..(k - 1) PROVE r.sent[j].name # r.sent[k].name
  <2>1. j \in 1..Total(r) /\ k \in 1..Total(r) /\ j # k /\ j <= Len(r.sent) /\ k <= Len(r.sent)
    <3> DEFINE n == Len(r.sent)
               m == Len(r.docs)
    <3>1. k \in 1..n /\ n \in Nat /\ m \in Nat /\ Total(r) = n + m
      BY <1>4 DEF Total
    <3> HIDE DEF n, m
    <3>2. j \in 1..(n + m) /\ k \in 1..(n + m) /\ j # k /\ j <= n /\ k <= n
      BY <3>1
    <3> QED
      BY <3>1, <3>2 DEF n
  <2>2. NameAt(r, j) = r.sent[j].name /\ NameAt(r, k) = r.sent[k].name
    BY <2>1 DEF NameAt
  <2> QED
    BY <1>2, <2>1, <2>2 DEF Sending
<1>6. ASSUME NEW k \in DOMAIN r.sent
      PROVE  \E i \in DOMAIN r.read :
                /\ r.read[i].name = r.sent[k].name
                /\ r.read[i].map \notin r.written =>
                      r.sent[k].fields = r.read[i].fields /\ Matches(r.query, r.sent[k].fields)
  BY <1>2 DEF Sending, Sound, Hit
<1> QED
  BY <1>3, <1>5, <1>6 DEF r

(* Documents refer to maps that were made, no two to one; and what a       *)
(* handler filters, sorts and sends are documents it has collected.        *)
THEOREM QueriesAreTyped == QueriesSpec => []QueriesTypeOK
<1>1. QInv => QueriesTypeOK
  BY QueryTypes
<1> QED
  BY <1>1, QueriesInvariant, PTL

(* A query answers what it collected under the lock, in the order and the  *)
(* page it asks for, whatever is created, replaced or deleted while it     *)
(* filters, sorts and sends; and an update with a mask can change only     *)
(* what is said of its own document.                                       *)
THEOREM QueriesAnswerAsCollected == QueriesSpec => []AnswersAsCollected
<1>1. QInv => AnswersAsCollected
  BY QueryAnswers
<1> QED
  BY <1>1, QueriesInvariant, PTL
=============================================================================
