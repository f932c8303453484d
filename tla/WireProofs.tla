----------------------------- MODULE WireProofs -----------------------------
(* The requests of one connection, for every set of blocks and any number  *)
(* of requests: each has one callback, none is forgotten between the two   *)
(* ends, and a choking end sends no block but an allowed fast one.  And    *)
(* what the torrent gets from its connections first, the metadata: only    *)
(* the right one, once, whatever pieces the peers send.                    *)
EXTENDS Wire, Metadata, FiniteSetTheorems, FunctionTheorems, SequenceTheorems, TLAPS

Req == [id : 1 .. MaxRequests, block : Blocks]

UpMsg == [type : {"request"}, block : Blocks, id : 1 .. MaxRequests]
             \cup [type : {"cancel"}, block : Blocks] \cup [type : {"eof"}]

DownMsg == [type : {"piece", "reject"}, block : Blocks] \cup [type : {"choke", "unchoke", "eof"}]

Num(s, b) == Cardinality(Matching(s, b))

(* The messages of some types for a block, after the k-th of a stream.     *)
After(q, types, b, k) == {i \in 1 .. Len(q) : i > k /\ q[i].type \in types /\ q[i].block = b}

Later(q, types, b, k) == Cardinality(After(q, types, b, k))

Weighs(m, types, b) == IF m.type \in types /\ m.block = b THEN 1 ELSE 0

-----------------------------------------------------------------------------
(* Counting.                                                               *)
LEMMA SameCount ==
    ASSUME NEW A, NEW B, IsFiniteSet(A), NEW f \in [A -> B],
           \A x, y \in A : f[x] = f[y] => x = y, \A y \in B : \E x \in A : f[x] = y
    PROVE  IsFiniteSet(B) /\ Cardinality(B) = Cardinality(A)
<1>1. f \in Surjection(A, B)
  BY Fun_IsSurj
<1>2. f \in Bijection(A, B)
  BY <1>1, Fun_IsBij
<1>. QED
  BY <1>2, FS_Bijection DEF ExistsBijection

LEMMA FiniteIndices ==
    ASSUME NEW n \in Nat, NEW A \in SUBSET (1 .. n)
    PROVE  IsFiniteSet(A) /\ Cardinality(A) \in Nat
<1>1. IsFiniteSet(1 .. n)
  BY FS_Interval
<1>. QED
  BY <1>1, FS_Subset, FS_CardinalityType

LEMMA SingletonCount == \A x : IsFiniteSet({x}) /\ Cardinality({x}) = 1
BY FS_Singleton

LEMMA NumType ==
    ASSUME NEW S, NEW s \in Seq(S), NEW b
    PROVE  /\ IsFiniteSet(Matching(s, b)) /\ Num(s, b) \in Nat
           /\ Num(s, b) = 0 <=> Matching(s, b) = {}
<1>1. Len(s) \in Nat /\ Matching(s, b) \in SUBSET (1 .. Len(s))
  BY LenProperties DEF Matching
<1>2. IsFiniteSet(Matching(s, b)) /\ Cardinality(Matching(s, b)) \in Nat
  BY <1>1, FiniteIndices
<1>. QED
  BY <1>2, FS_EmptySet DEF Num

LEMMA NumEmpty == \A b : Num(<< >>, b) = 0
<1>1. \A b : Matching(<< >>, b) = {}
  BY DEF Matching
<1>. QED
  BY <1>1, FS_EmptySet DEF Num

LEMMA NumAppend ==
    ASSUME NEW S, NEW s \in Seq(S), NEW r \in S, NEW b
    PROVE  Num(Append(s, r), b) = Num(s, b) + (IF r.block = b THEN 1 ELSE 0)
<1>. DEFINE t == Append(s, r)
            n == Len(s) + 1
<1>1. /\ Len(s) \in Nat /\ Len(t) = n /\ t[n] = r
      /\ \A i \in 1 .. Len(s) : t[i] = s[i]
  OBVIOUS
<1>. HIDE DEF t
<1>2. Matching(t, b) = IF r.block = b THEN Matching(s, b) \cup {n} ELSE Matching(s, b)
  BY <1>1 DEF Matching
<1>3. n \notin Matching(s, b)
  BY <1>1 DEF Matching
<1>4. IsFiniteSet(Matching(s, b))
  BY NumType
<1>5. Cardinality(Matching(s, b) \cup {n}) = Cardinality(Matching(s, b)) + 1
  BY <1>3, <1>4, FS_AddElement
<1>6. CASE r.block = b
  <2>1. Matching(t, b) = Matching(s, b) \cup {n}
    BY <1>2, <1>6
  <2>. QED
    BY <1>5, <1>6, <2>1 DEF Num, t
<1>7. CASE r.block # b
  <2>1. Matching(t, b) = Matching(s, b)
    BY <1>2, <1>7
  <2>. QED
    BY <1>4, <1>7, <2>1, FS_CardinalityType DEF Num, t
<1>. QED
  BY <1>6, <1>7

(* Removing one request, with the last one moved into its place.           *)
LEMMA Removed ==
    ASSUME NEW S, NEW s \in Seq(S), NEW i \in 1 .. Len(s)
    PROVE  LET t == RemoveUnordered(s, i) IN
           /\ t \in Seq(S) /\ Len(t) = Len(s) - 1
           /\ \A j \in 1 .. Len(t) : t[j] = IF j = i THEN s[Len(s)] ELSE s[j]
<1>. DEFINE n == Len(s) - 1
<1>1. Len(s) \in Nat \ {0} /\ n \in Nat
  BY LenProperties
<1>2. \A j \in 1 .. n : (IF j = i THEN s[Len(s)] ELSE s[j]) \in S
  BY <1>1, ElementOfSeq
<1>3. RemoveUnordered(s, i) \in [1 .. n -> S]
  BY <1>2 DEF RemoveUnordered
<1>4. RemoveUnordered(s, i) \in Seq(S) /\ Len(RemoveUnordered(s, i)) = n
  BY <1>1, <1>3
<1>. QED
  BY <1>4 DEF RemoveUnordered

LEMMA FirstMatches ==
    ASSUME NEW S, NEW s \in Seq(S), NEW b, Matching(s, b) # {}
    PROVE  First(s, b) \in Matching(s, b)
<1>1. Matching(s, b) \in SUBSET Nat
  BY LenProperties DEF Matching
<1>2. \E i \in Matching(s, b) : \A j \in Matching(s, b) : ~ (j < i)
  <2>1. PICK i \in Matching(s, b) : \A j \in Matching(s, b) : ~ (<<j, i>> \in OpToRel(<, Nat))
    BY <1>1, NatLessThanWellFounded, WFMin
  <2>. QED
    BY <2>1, <1>1 DEF OpToRel
<1>3. \E i \in Matching(s, b) : \A j \in Matching(s, b) : i <= j
  BY <1>1, <1>2
<1>. QED
  BY <1>3 DEF First

LEMMA NumPull ==
    ASSUME NEW S, NEW s \in Seq(S), NEW c, NEW b
    PROVE  Num(Pull(s, c), b) = IF b = c /\ Matching(s, c) # {} THEN Num(s, b) - 1 ELSE Num(s, b)
<1>1. CASE Matching(s, c) = {}
  BY <1>1 DEF Pull
<1>2. CASE Matching(s, c) # {}
  <2>. DEFINE i == First(s, c)
              n == Len(s)
              t == RemoveUnordered(s, i)
              M == Matching(s, b)
  <2>1. n \in Nat /\ i \in 1 .. n /\ s[i].block = c
    BY <1>2, FirstMatches, LenProperties DEF Matching
  <2>. HIDE DEF i
  <2>2. Len(t) = n - 1 /\ \A j \in 1 .. n - 1 : t[j] = IF j = i THEN s[n] ELSE s[j]
    BY <2>1, Removed
  <2>. HIDE DEF t
  <2>3. Matching(t, b) = {j \in 1 .. n - 1 : (IF j = i THEN s[n] ELSE s[j]).block = b}
    BY <2>2 DEF Matching
  <2>4. IsFiniteSet(M) /\ Cardinality(M) \in Nat
    BY NumType DEF Num
  <2>5. n \in M <=> s[n].block = b
    BY <2>1 DEF Matching
  <2>6. i \in M <=> b = c
    BY <2>1 DEF Matching
  <2>7. CASE n \in M /\ i # n
    <3>1. Matching(t, b) = (M \ {n}) \cup {i}
      BY <2>1, <2>3, <2>5, <2>7 DEF Matching
    <3>2. IsFiniteSet(M \ {n}) /\ Cardinality(M \ {n}) = Cardinality(M) - 1
      BY <2>4, <2>7, FS_RemoveElement
    <3>. DEFINE L == M \ {n}
    <3>. HIDE DEF L
    <3>3. Cardinality(L \cup {i}) = IF i \in L THEN Cardinality(L) ELSE Cardinality(L) + 1
      BY <3>2, FS_AddElement DEF L
    <3>4. i \in M \ {n} <=> b = c
      BY <2>6, <2>7
    <3>. QED
      <4>1. Cardinality(L \cup {i}) = IF b = c THEN Cardinality(M) - 1 ELSE Cardinality(M)
        BY <2>4, <3>2, <3>3, <3>4 DEF L
      <4>2. Num(t, b) = Cardinality(L \cup {i})
        BY <3>1 DEF Num, L
      <4>3. Num(s, b) = Cardinality(M) /\ Pull(s, c) = t
        BY <1>2 DEF Num, Pull, t, i
      <4>. QED
        BY <1>2, <4>1, <4>2, <4>3
  <2>8. CASE ~(n \in M /\ i # n)
    <3>1. Matching(t, b) = M \ {i}
      BY <2>1, <2>3, <2>5, <2>8 DEF Matching
    <3>2. Cardinality(Matching(t, b)) = IF i \in M THEN Cardinality(M) - 1 ELSE Cardinality(M)
      BY <2>4, <3>1, FS_RemoveElement
    <3>. QED
      BY <1>2, <2>6, <3>2 DEF Num, Pull, t, i
  <2>. QED
    BY <2>7, <2>8
<1>. QED
  BY <1>1, <1>2

-----------------------------------------------------------------------------
(* Counting the messages of a stream.                                      *)
LEMMA LaterType ==
    ASSUME NEW S, NEW q \in Seq(S), NEW types, NEW b, NEW k
    PROVE  IsFiniteSet(After(q, types, b, k)) /\ Later(q, types, b, k) \in Nat
<1>1. Len(q) \in Nat /\ After(q, types, b, k) \in SUBSET (1 .. Len(q))
  BY LenProperties DEF After
<1>. QED
  BY <1>1, FiniteIndices DEF Later

LEMMA LaterNone ==
    ASSUME NEW S, NEW q \in Seq(S), NEW types, NEW b
    PROVE  Later(q, types, b, Len(q)) = 0
<1>1. After(q, types, b, Len(q)) = {}
  BY LenProperties DEF After
<1>. QED
  BY <1>1, FS_EmptySet DEF Later

LEMMA LaterAppend ==
    ASSUME NEW S, NEW q \in Seq(S), NEW m \in S, NEW types, NEW b, NEW k \in 0 .. Len(q)
    PROVE  Later(Append(q, m), types, b, k) = Later(q, types, b, k) + Weighs(m, types, b)
<1>. DEFINE t == Append(q, m)
            n == Len(q) + 1
            A == After(q, types, b, k)
<1>1. /\ Len(q) \in Nat /\ Len(t) = n /\ t[n] = m
      /\ \A i \in 1 .. Len(q) : t[i] = q[i]
  OBVIOUS
<1>2. IsFiniteSet(A) /\ Cardinality(A) \in Nat
  BY LaterType DEF Later
<1>0. n \notin A
  BY <1>1 DEF After
<1>. HIDE DEF t
<1>3. CASE m.type \in types /\ m.block = b
  <2>1. After(t, types, b, k) = A \cup {n}
    BY <1>1, <1>3 DEF After
  <2>. HIDE DEF A
  <2>2. Cardinality(A \cup {n}) = Cardinality(A) + 1
    BY <1>0, <1>2, FS_AddElement
  <2>. QED
    BY <1>3, <2>1, <2>2 DEF Later, Weighs, t, A
<1>4. CASE ~(m.type \in types /\ m.block = b)
  <2>1. After(t, types, b, k) = A
    BY <1>1, <1>4 DEF After
  <2>. QED
    BY <1>2, <1>4, <2>1 DEF Later, Weighs, t
<1>. QED
  BY <1>3, <1>4

(* The first message leaves the stream.                                    *)
LEMMA LaterTail ==
    ASSUME NEW S, NEW q \in Seq(S), q # << >>, NEW types, NEW b, NEW k \in 1 .. Len(q)
    PROVE  Later(Tail(q), types, b, k - 1) = Later(q, types, b, k)
<1>. DEFINE A == After(q, types, b, k)
            B == After(Tail(q), types, b, k - 1)
            f == [i \in A |-> i - 1]
<1>1. Len(q) \in Nat /\ Len(Tail(q)) = Len(q) - 1 /\ \A i \in 1 .. Len(q) - 1 : Tail(q)[i] = q[i + 1]
  BY HeadTailProperties, LenProperties
<1>2. IsFiniteSet(A)
  BY LaterType
<1>3. f \in [A -> B]
  BY <1>1 DEF After
<1>4. \A x, y \in A : f[x] = f[y] => x = y
  BY <1>1 DEF After
<1>5. \A y \in B : \E x \in A : f[x] = y
  <2>. SUFFICES ASSUME NEW y \in B PROVE \E x \in A : f[x] = y
    OBVIOUS
  <2>1. y \in 1 .. Len(q) - 1 /\ y + 1 \in A
    BY <1>1 DEF After
  <2>2. f[y + 1] = y
    BY <2>1
  <2>. QED
    BY <2>1, <2>2
<1>. HIDE DEF A, B, f
<1>6. Cardinality(B) = Cardinality(A)
  BY <1>2, <1>3, <1>4, <1>5, SameCount
<1>. QED
  BY <1>6 DEF Later, A, B

LEMMA LaterHead ==
    ASSUME NEW S, NEW q \in Seq(S), q # << >>, NEW types, NEW b
    PROVE  Later(q, types, b, 0) = Later(q, types, b, 1) + Weighs(Head(q), types, b)
<1>. DEFINE A == After(q, types, b, 1)
<1>1. Len(q) \in Nat \ {0} /\ Head(q) = q[1]
  BY LenProperties
<1>2. IsFiniteSet(A) /\ Cardinality(A) \in Nat
  BY LaterType DEF Later
<1>0. 1 \notin A
  BY DEF After
<1>3. CASE q[1].type \in types /\ q[1].block = b
  <2>1. After(q, types, b, 0) = A \cup {1}
    BY <1>1, <1>3 DEF After
  <2>. HIDE DEF A
  <2>2. Cardinality(A \cup {1}) = Cardinality(A) + 1
    BY <1>0, <1>2, FS_AddElement
  <2>. QED
    BY <1>1, <1>3, <2>1, <2>2 DEF Later, Weighs, A
<1>4. CASE ~(q[1].type \in types /\ q[1].block = b)
  <2>1. After(q, types, b, 0) = A
    BY <1>1, <1>4 DEF After
  <2>. QED
    BY <1>1, <1>2, <1>4, <2>1 DEF Later, Weighs
<1>. QED
  BY <1>3, <1>4

LEMMA Delivered ==
    ASSUME NEW S, NEW q \in Seq(S), q # << >>, NEW types, NEW b
    PROVE  Later(q, types, b, 0) = Later(Tail(q), types, b, 0) + Weighs(Head(q), types, b)
<1>1. 1 \in 1 .. Len(q)
  BY LenProperties, EmptySeq
<1>2. Later(Tail(q), types, b, 1 - 1) = Later(q, types, b, 1)
  BY <1>1, LaterTail
<1>. QED
  BY <1>2, LaterHead

LEMMA LaterConcat ==
    ASSUME NEW S, NEW q \in Seq(S), NEW p \in Seq(S), NEW types, NEW b
    PROVE  Later(q \o p, types, b, 0) = Later(q, types, b, 0) + Later(p, types, b, 0)
<1>. DEFINE A == After(p, types, b, 0)
            Q == After(q, types, b, 0)
            n == Len(q)
            B == After(q \o p, types, b, n)
            f == [i \in A |-> i + n]
<1>1. /\ n \in Nat /\ Len(p) \in Nat /\ Len(q \o p) = n + Len(p) /\ q \o p \in Seq(S)
      /\ \A i \in 1 .. n : (q \o p)[i] = q[i]
      /\ \A i \in 1 .. Len(p) : (q \o p)[i + n] = p[i]
  BY ConcatProperties, LenProperties
<1>2. IsFiniteSet(A) /\ IsFiniteSet(Q) /\ Cardinality(Q) \in Nat
  BY LaterType DEF Later
<1>3. f \in [A -> B]
  BY <1>1 DEF After
<1>4. \A x, y \in A : f[x] = f[y] => x = y
  BY <1>1 DEF After
<1>5. \A y \in B : \E x \in A : f[x] = y
  <2>. SUFFICES ASSUME NEW y \in B PROVE \E x \in A : f[x] = y
    OBVIOUS
  <2>1. y - n \in 1 .. Len(p) /\ (y - n) + n = y
    BY <1>1 DEF After
  <2>2. p[y - n] = (q \o p)[y]
    BY <1>1, <2>1
  <2>3. y - n \in A
    BY <2>1, <2>2 DEF After
  <2>. QED
    BY <2>1, <2>3
<1>6. After(q \o p, types, b, 0) = Q \cup B /\ Q \cap B = {}
  BY <1>1 DEF After
<1>. HIDE DEF A, B, f, Q
<1>7. IsFiniteSet(B) /\ Cardinality(B) = Cardinality(A)
  BY <1>2, <1>3, <1>4, <1>5, SameCount
<1>8. Cardinality(Q \cup B) = Cardinality(Q) + Cardinality(B)
  <2>1. Cardinality(Q \cup B) = Cardinality(Q) + Cardinality(B) - Cardinality(Q \cap B)
    BY <1>2, <1>7, FS_Union
  <2>2. Cardinality(Q \cap B) = 0
    BY <1>6, FS_EmptySet
  <2>3. Cardinality(B) \in Nat
    BY <1>7, FS_CardinalityType
  <2>. QED
    BY <1>2, <2>1, <2>2, <2>3
<1>. QED
  BY <1>6, <1>7, <1>8 DEF Later, A, Q

LEMMA SameSize ==
    ASSUME NEW I, NEW K, IsFiniteSet(K), Cardinality(I) = Cardinality(K), NEW f \in [I -> K],
           \A x, y \in I : f[x] = f[y] => x = y
    PROVE  \A y \in K : \E x \in I : f[x] = y
<1>1. f \in Injection(I, K)
  BY DEF Injection, IsInjective
<1>2. Cardinality(I) = Cardinality(K) <=> f \in Surjection(I, K)
  BY <1>1, FS_Injection
<1>3. f \in Surjection(I, K)
  BY <1>2
<1>. QED
  BY <1>3 DEF Surjection

(* How many of the requests at the indices K, or of those f leads to, are  *)
(* for a block.                                                            *)
Among(s, K, b) == Cardinality({i \in K : s[i].block = b})

Through(s, f, b) == Cardinality({i \in DOMAIN f : s[f[i]].block = b})

(* Requests taken out of a list in some order, as choke() does it.         *)
LEMMA InOrder ==
    ASSUME NEW S, NEW s \in Seq(S), NEW K \in SUBSET (1 .. Len(s)), NEW f \in Orders(K)
    PROVE  /\ DOMAIN f = 1 .. Cardinality(K) /\ Cardinality(K) \in Nat
           /\ \A i \in DOMAIN f : f[i] \in K
           /\ \A b : Through(s, f, b) = Among(s, K, b)
<1>. SUFFICES ASSUME NEW b
              PROVE  /\ DOMAIN f = 1 .. Cardinality(K) /\ Cardinality(K) \in Nat
                     /\ \A i \in DOMAIN f : f[i] \in K
                     /\ Through(s, f, b) = Among(s, K, b)
  OBVIOUS
<1>. DEFINE n == Cardinality(K)
            A == {i \in DOMAIN f : s[f[i]].block = b}
            B == {i \in K : s[i].block = b}
            g == [i \in A |-> f[i]]
<1>1. IsFiniteSet(K) /\ n \in Nat
  BY LenProperties, FiniteIndices
<1>2. f \in [1 .. n -> K] /\ \A i, j \in 1 .. n : f[i] = f[j] => i = j
  BY DEF Orders
<1>3. IsFiniteSet(1 .. n) /\ Cardinality(1 .. n) = n
  BY <1>1, FS_Interval
<1>6. \A y \in K : \E x \in 1 .. n : f[x] = y
  <2>. DEFINE I == 1 .. n
  <2>. HIDE DEF I
  <2>1. IsFiniteSet(K) /\ Cardinality(I) = Cardinality(K) /\ f \in [I -> K]
    BY <1>1, <1>2, <1>3 DEF I
  <2>2. \A x, y \in I : f[x] = f[y] => x = y
    BY <1>2 DEF I
  <2>3. \A y \in K : \E x \in I : f[x] = y
    BY <2>1, <2>2, SameSize
  <2>. QED
    BY <2>3 DEF I
<1>7. g \in [A -> B] /\ A \in SUBSET (1 .. n)
  BY <1>2
<1>8. \A x, y \in A : g[x] = g[y] => x = y
  BY <1>2
<1>9. \A y \in B : \E x \in A : g[x] = y
  BY <1>2, <1>6
<1>10. IsFiniteSet(A)
  BY <1>1, <1>7, FiniteIndices
<1>11. Cardinality(B) = Cardinality(A)
  <2>. HIDE DEF A, B, g
  <2>. QED
    BY <1>7, <1>8, <1>9, <1>10, SameCount
<1>. QED
  BY <1>1, <1>2, <1>11 DEF Through, Among

-----------------------------------------------------------------------------
(* x requests are listed, y are with the peer, z answers are on their way  *)
(* back or were discarded: some of the messages to the peer cover the      *)
(* rest.  The k messages before may cancel whatever the peer lists.        *)
Covers(x, y, q, z, b) ==
    \E k \in 0 .. Len(q) :
        x <= (IF k = 0 THEN y ELSE 0)
                 + Later(q, {"request"}, b, k) - Later(q, {"cancel"}, b, k) + z

LEMMA CoversNone ==
    ASSUME NEW S, NEW q \in Seq(S), NEW y \in Nat, NEW z \in Nat, NEW b
    PROVE  Covers(0, y, q, z, b)
<1>1. Later(q, {"request"}, b, Len(q)) = 0 /\ Later(q, {"cancel"}, b, Len(q)) = 0
  BY LaterNone
<1>2. Len(q) \in 0 .. Len(q) /\ 0 <= (IF Len(q) = 0 THEN y ELSE 0) + 0 - 0 + z
  BY LenProperties
<1>. QED
  BY <1>1, <1>2 DEF Covers

LEMMA CoversMoved ==
    ASSUME NEW S, NEW q \in Seq(S), NEW b, NEW x \in Nat, NEW y \in Nat, NEW z \in Nat,
           NEW x2 \in Nat, NEW y2 \in Nat, NEW z2 \in Nat, Covers(x, y, q, z, b),
           x2 + z <= x + z2, x2 + y + z <= x + y2 + z2
    PROVE  Covers(x2, y2, q, z2, b)
<1>1. PICK k \in 0 .. Len(q) :
          x <= (IF k = 0 THEN y ELSE 0)
                   + Later(q, {"request"}, b, k) - Later(q, {"cancel"}, b, k) + z
  BY DEF Covers
<1>2. Later(q, {"request"}, b, k) \in Nat /\ Later(q, {"cancel"}, b, k) \in Nat
  BY LaterType
<1>3. x2 <= (IF k = 0 THEN y2 ELSE 0)
                + Later(q, {"request"}, b, k) - Later(q, {"cancel"}, b, k) + z2
  <2>. DEFINE rk == Later(q, {"request"}, b, k)
              ck == Later(q, {"cancel"}, b, k)
  <2>1. rk \in Nat /\ ck \in Nat
    BY <1>2
  <2>2. x <= (IF k = 0 THEN y ELSE 0) + rk - ck + z
    BY <1>1
  <2>. HIDE DEF rk, ck
  <2>3. x2 <= (IF k = 0 THEN y2 ELSE 0) + rk - ck + z2
    <3>1. CASE k = 0
      BY <2>1, <2>2, <3>1
    <3>2. CASE k # 0
      BY <2>1, <2>2, <3>2
    <3>. QED
      BY <3>1, <3>2
  <2>. QED
    BY <2>3 DEF rk, ck
<1>. QED
  BY <1>3 DEF Covers

LEMMA CoversAppend ==
    ASSUME NEW S, NEW q \in Seq(S), NEW m \in S, NEW b,
           NEW x \in Nat, NEW y \in Nat, NEW z \in Nat, NEW x2 \in Nat, Covers(x, y, q, z, b),
           x2 + Weighs(m, {"cancel"}, b) <= x + Weighs(m, {"request"}, b)
    PROVE  Covers(x2, y, Append(q, m), z, b)
<1>. DEFINE t == Append(q, m)
<1>1. PICK k \in 0 .. Len(q) :
          x <= (IF k = 0 THEN y ELSE 0)
                   + Later(q, {"request"}, b, k) - Later(q, {"cancel"}, b, k) + z
  BY DEF Covers
<1>2. /\ Later(q, {"request"}, b, k) \in Nat /\ Later(q, {"cancel"}, b, k) \in Nat
      /\ Weighs(m, {"cancel"}, b) \in Nat /\ Weighs(m, {"request"}, b) \in Nat
  BY LaterType DEF Weighs
<1>3. /\ Later(t, {"request"}, b, k) = Later(q, {"request"}, b, k) + Weighs(m, {"request"}, b)
      /\ Later(t, {"cancel"}, b, k) = Later(q, {"cancel"}, b, k) + Weighs(m, {"cancel"}, b)
  BY LaterAppend
<1>4. k \in 0 .. Len(t)
  BY LenProperties
<1>. HIDE DEF t
<1>5. x2 <= (IF k = 0 THEN y ELSE 0)
                + Later(t, {"request"}, b, k) - Later(t, {"cancel"}, b, k) + z
  <2>. DEFINE g == IF k = 0 THEN y ELSE 0
              rq == Later(q, {"request"}, b, k)
              cq == Later(q, {"cancel"}, b, k)
              wr == Weighs(m, {"request"}, b)
              wc == Weighs(m, {"cancel"}, b)
  <2>1. g \in Nat /\ rq \in Nat /\ cq \in Nat /\ wr \in Nat /\ wc \in Nat
    BY <1>2
  <2>2. x <= g + rq - cq + z /\ x2 + wc <= x + wr
    BY <1>1
  <2>. HIDE DEF g, rq, cq, wr, wc
  <2>3. x2 <= g + (rq + wr) - (cq + wc) + z
    BY <2>1, <2>2
  <2>. QED
    BY <1>3, <2>3 DEF g, rq, cq, wr, wc
<1>6. Covers(x2, y, t, z, b)
  BY <1>4, <1>5 DEF Covers
<1>. QED
  BY <1>6 DEF t

LEMMA CoversTail ==
    ASSUME NEW S, NEW q \in Seq(S), q # << >>, NEW b, NEW x \in Nat, NEW y \in Nat, NEW z \in Nat,
           NEW y2 \in Nat, NEW z2 \in Nat, Covers(x, y, q, z, b), z <= z2,
           y + z + Weighs(Head(q), {"request"}, b) <= y2 + z2 + Weighs(Head(q), {"cancel"}, b)
    PROVE  Covers(x, y2, Tail(q), z2, b)
<1>. DEFINE t == Tail(q)
            R(i) == Later(q, {"request"}, b, i)
            C(i) == Later(q, {"cancel"}, b, i)
            hr == Weighs(Head(q), {"request"}, b)
            hc == Weighs(Head(q), {"cancel"}, b)
<1>1. PICK k \in 0 .. Len(q) : x <= (IF k = 0 THEN y ELSE 0) + R(k) - C(k) + z
  BY DEF Covers
<1>2. Len(q) \in Nat \ {0} /\ Len(t) = Len(q) - 1
  BY EmptySeq, HeadTailProperties
<1>3. R(k) \in Nat /\ C(k) \in Nat /\ hr \in Nat /\ hc \in Nat
  BY LaterType DEF Weighs
<1>4. CASE k = 0
  <2>1. /\ R(0) = Later(t, {"request"}, b, 0) + hr
        /\ C(0) = Later(t, {"cancel"}, b, 0) + hc
    BY Delivered
  <2>2. t \in Seq(S)
    BY HeadTailProperties
  <2>. HIDE DEF t, R, C, hr, hc
  <2>3. Later(t, {"request"}, b, 0) \in Nat /\ Later(t, {"cancel"}, b, 0) \in Nat
    BY <2>2, LaterType
  <2>4. x <= y + R(0) - C(0) + z
    BY <1>1, <1>4
  <2>5. y + z + hr <= y2 + z2 + hc
    BY DEF hr, hc
  <2>6. x <= y2 + Later(t, {"request"}, b, 0) - Later(t, {"cancel"}, b, 0) + z2
    <3>. DEFINE rt == Later(t, {"request"}, b, 0)
                ct == Later(t, {"cancel"}, b, 0)
    <3>1. rt \in Nat /\ ct \in Nat /\ R(0) = rt + hr /\ C(0) = ct + hc
      BY <2>1, <2>3
    <3>. HIDE DEF rt, ct
    <3>2. x <= y + (rt + hr) - (ct + hc) + z
      BY <2>4, <3>1
    <3>3. x <= y2 + rt - ct + z2
      BY <1>3, <2>5, <3>1, <3>2
    <3>. QED
      BY <3>3 DEF rt, ct
  <2>7. 0 \in 0 .. Len(t)
    BY <1>2
  <2>8. Covers(x, y2, t, z2, b)
    BY <2>6, <2>7 DEF Covers
  <2>. QED
    BY <2>8 DEF t
<1>5. CASE k # 0
  <2>1. k \in 1 .. Len(q) /\ k - 1 \in 0 .. Len(t)
    BY <1>2, <1>5
  <2>2. Later(t, {"request"}, b, k - 1) = R(k) /\ Later(t, {"cancel"}, b, k - 1) = C(k)
    BY <2>1, LaterTail
  <2>. HIDE DEF t, R, C, hr, hc
  <2>3. x <= R(k) - C(k) + z
    BY <1>1, <1>3, <1>5
  <2>4. x <= (IF k - 1 = 0 THEN y2 ELSE 0)
                 + Later(t, {"request"}, b, k - 1) - Later(t, {"cancel"}, b, k - 1) + z2
    BY <1>3, <2>2, <2>3, SMTT(30)
  <2>5. Covers(x, y2, t, z2, b)
    BY <2>1, <2>4 DEF Covers
  <2>. QED
    BY <2>5 DEF t
<1>. QED
  BY <1>4, <1>5

-----------------------------------------------------------------------------
(* The inductive invariant.                                                *)
WType ==
    /\ hasFast \in BOOLEAN /\ peerChoking \in BOOLEAN
    /\ down \in {"open", "ending", "finished"}
    /\ requests \in Seq(Req) /\ peerRequests \in Seq(Req) /\ responding \subseteq Req
    /\ toUp \in Seq(UpMsg) /\ toDown \in Seq(DownMsg)
    /\ dropped \in [Blocks -> Nat]

DistinctIds(s) == \A i, j \in 1 .. Len(s) : s[i].id = s[j].id => i = j

IdsOf(s) == {s[i].id : i \in 1 .. Len(s)}

(* Of n requests issued, those listed have not been called back yet.       *)
Accounts(ids, n, c) ==
    /\ n \in 0 .. MaxRequests
    /\ c = [i \in 1 .. MaxRequests |-> c[i]]
    /\ ids \subseteq 1 .. n
    /\ \A i \in 1 .. MaxRequests : c[i] = IF i > n \/ i \in ids THEN 0 ELSE 1

(* The downloading end: the timer is set only while requests are listed,   *)
(* and without the Fast Extension none is listed while the peer chokes.    *)
Listed ==
    /\ DistinctIds(requests) /\ Accounts(IdsOf(requests), issued, calls)
    /\ timer \in BOOLEAN /\ (timer => requests # << >>)
    /\ peerChoking /\ ~hasFast => requests = << >>

(* A choking end has told so, or is about to, after whatever else it told. *)
ToldBy(knows, q) ==
    /\ knows \/ \E i \in 1 .. Len(q) : q[i].type = "choke"
    /\ \A i \in 1 .. Len(q) : q[i].type = "unchoke" =>
          \E j \in i + 1 .. Len(q) : q[j].type = "choke"

Told == amChoking => ToldBy(peerChoking, toDown)

AllFast(s) == \A i \in 1 .. Len(s) : Fast(s[i].block)

OnlyFast == amChoking \in BOOLEAN /\ (amChoking => AllFast(peerRequests))

Back(q, d, b) == Later(q, {"piece", "reject"}, b, 0) + d[b]

Cover(b) ==
    Covers(Num(requests, b), Num(peerRequests, b), toUp, Back(toDown, dropped, b), b)

Covered == \A b \in Blocks : Failing \/ Cover(b)

WInv == WType /\ Listed /\ Told /\ OnlyFast /\ Covered

-----------------------------------------------------------------------------
(* What removing a request leaves.                                         *)
LEMMA PullType ==
    ASSUME NEW S, NEW s \in Seq(S), NEW b
    PROVE  Pull(s, b) \in Seq(S) /\ (AllFast(s) => AllFast(Pull(s, b)))
<1>1. CASE Matching(s, b) = {}
  BY <1>1 DEF Pull
<1>2. CASE Matching(s, b) # {}
  <2>. DEFINE i == First(s, b)
              t == RemoveUnordered(s, i)
  <2>1. Len(s) \in Nat /\ i \in 1 .. Len(s)
    BY <1>2, FirstMatches, LenProperties DEF Matching
  <2>. HIDE DEF i
  <2>2. /\ t \in Seq(S) /\ Len(t) = Len(s) - 1
        /\ \A j \in 1 .. Len(t) : t[j] = IF j = i THEN s[Len(s)] ELSE s[j]
    BY <2>1, Removed
  <2>. HIDE DEF t
  <2>3. \A j \in 1 .. Len(t) : j \in 1 .. Len(s) /\ Len(s) \in 1 .. Len(s)
    BY <2>1, <2>2
  <2>. QED
    BY <1>2, <2>2, <2>3 DEF AllFast, Pull, t, i
<1>. QED
  BY <1>1, <1>2

LEMMA PullIds ==
    ASSUME NEW S, NEW s \in Seq(S), NEW b, DistinctIds(s)
    PROVE  /\ DistinctIds(Pull(s, b))
           /\ IdsOf(Pull(s, b)) = IdsOf(s) \ {r.id : r \in Pulled(s, b)}
           /\ {r.id : r \in Pulled(s, b)} \subseteq IdsOf(s)
<1>1. CASE Matching(s, b) = {}
  BY <1>1 DEF Pull, Pulled
<1>2. CASE Matching(s, b) # {}
  <2>. DEFINE i == First(s, b)
              t == RemoveUnordered(s, i)
  <2>1. Len(s) \in Nat /\ i \in 1 .. Len(s)
    BY <1>2, FirstMatches, LenProperties DEF Matching
  <2>. HIDE DEF i
  <2>2. /\ Len(t) = Len(s) - 1
        /\ \A j \in 1 .. Len(t) : t[j] = IF j = i THEN s[Len(s)] ELSE s[j]
    BY <2>1, Removed
  <2>. HIDE DEF t
  <2>3. DistinctIds(t)
    BY <2>1, <2>2, SMTT(30) DEF DistinctIds
  <2>4. IdsOf(t) \subseteq IdsOf(s) \ {s[i].id}
    BY <2>1, <2>2 DEF DistinctIds, IdsOf
  <2>5. ASSUME NEW j \in 1 .. Len(s), s[j].id # s[i].id PROVE s[j].id \in IdsOf(t)
    <3>1. CASE j = Len(s)
      <4>1. i \in 1 .. Len(t) /\ t[i] = s[j]
        BY <2>1, <2>2, <2>5, <3>1
      <4>. QED
        BY <4>1 DEF IdsOf
    <3>2. CASE j # Len(s)
      <4>1. j \in 1 .. Len(t) /\ t[j] = s[j]
        BY <2>1, <2>2, <2>5, <3>2
      <4>. QED
        BY <4>1 DEF IdsOf
    <3>. QED
      BY <3>1, <3>2
  <2>6. IdsOf(t) = IdsOf(s) \ {s[i].id}
    BY <2>4, <2>5 DEF IdsOf
  <2>7. {r.id : r \in Pulled(s, b)} = {s[i].id} /\ Pull(s, b) = t
    BY <1>2 DEF Pulled, Pull, i, t
  <2>8. s[i].id \in IdsOf(s)
    BY <2>1 DEF IdsOf
  <2>. QED
    BY <2>3, <2>6, <2>7, <2>8
<1>. QED
  BY <1>1, <1>2

(* The callbacks that run.                                                 *)
LEMMA CalledBack ==
    ASSUME NEW ids, NEW n, Accounts(ids, n, calls), NEW rs, {r.id : r \in rs} \subseteq ids
    PROVE  Accounts(ids \ {r.id : r \in rs}, n, Called(rs))
<1>1. Called(rs) = [i \in 1 .. MaxRequests |->
                       IF i \in {r.id : r \in rs} THEN calls[i] + 1 ELSE calls[i]]
  BY DEF Called, Accounts
<1>. HIDE DEF Called
<1>. QED
  BY <1>1, BoundsAssumption DEF Accounts

LEMMA PulledSize ==
    ASSUME NEW s, NEW b
    PROVE  Cardinality(Pulled(s, b)) = IF Matching(s, b) = {} THEN 0 ELSE 1
<1>1. CASE Matching(s, b) = {}
  BY <1>1, FS_EmptySet DEF Pulled
<1>2. CASE Matching(s, b) # {}
  <2>1. Pulled(s, b) = {s[First(s, b)]}
    BY <1>2 DEF Pulled
  <2>. QED
    BY <1>2, <2>1, FS_Singleton
<1>. QED
  BY <1>1, <1>2

LEMMA MembersIds == \A s : {r.id : r \in Members(s)} = IdsOf(s)
BY DEF Members, IdsOf

LEMMA NoRequest == DistinctIds(<< >>) /\ IdsOf(<< >>) = {}
BY DEF DistinctIds, IdsOf

LEMMA Messages ==
    /\ \A m \in UpMsg : m.type \in {"request", "cancel"} => m.block \in Blocks
    /\ \A m \in UpMsg : m.type = "request" => m.id \in 1 .. MaxRequests
    /\ \A b \in Blocks, i \in 1 .. MaxRequests : RequestMsg([id |-> i, block |-> b]) \in UpMsg
    /\ \A b \in Blocks : BlockMsg("cancel", b) \in UpMsg
    /\ Msg("eof") \in UpMsg
    /\ \A m \in DownMsg : m.type \in {"piece", "reject"} => m.block \in Blocks
    /\ \A b \in Blocks : BlockMsg("piece", b) \in DownMsg /\ BlockMsg("reject", b) \in DownMsg
    /\ \A t \in {"choke", "unchoke", "eof"} : Msg(t) \in DownMsg
BY DEF UpMsg, DownMsg, RequestMsg, BlockMsg, Msg

(* The message that is delivered.                                          *)
LEMMA FromUp ==
    ASSUME NEW type, ToDown(type), toDown \in Seq(DownMsg)
    PROVE  /\ toDown # << >> /\ Head(toDown) \in DownMsg /\ Head(toDown).type = type
           /\ toDown' = Tail(toDown) /\ Tail(toDown) \in Seq(DownMsg)
           /\ down # "finished" /\ UNCHANGED <<hasFast, issued, upVars, toUp>>
BY HeadTailProperties DEF ToDown

LEMMA FromDown ==
    ASSUME NEW type, ToUp(type), toUp \in Seq(UpMsg)
    PROVE  /\ toUp # << >> /\ Head(toUp) \in UpMsg /\ Head(toUp).type = type
           /\ toUp' = Tail(toUp) /\ Tail(toUp) \in Seq(UpMsg)
           /\ UNCHANGED <<hasFast, downVars, amChoking>>
BY HeadTailProperties DEF ToUp

(* choke(): what is kept and what is rejected make up the list.            *)
Rejects(s, g) == [i \in DOMAIN g |-> BlockMsg("reject", s[g[i]].block)]

Choked(kept, refused, f, g) ==
    /\ kept = {i \in 1 .. Len(peerRequests) : Fast(peerRequests[i].block)}
    /\ refused = IF hasFast THEN (1 .. Len(peerRequests)) \ kept ELSE {}
    /\ f \in Orders(kept) /\ g \in Orders(refused)
    /\ peerRequests' = [i \in DOMAIN f |-> peerRequests[f[i]]]
    /\ toDown' = Append(toDown, Msg("choke")) \o Rejects(peerRequests, g)

LEMMA ChokeParts ==
    ASSUME Choke
    PROVE  \E kept, refused, f, g : Choked(kept, refused, f, g)
<1>. DEFINE kept == {i \in 1 .. Len(peerRequests) : Fast(peerRequests[i].block)}
            refused == IF hasFast THEN (1 .. Len(peerRequests)) \ kept ELSE {}
<1>1. PICK f \in Orders(kept), g \in Orders(refused) :
          /\ peerRequests' = [i \in DOMAIN f |-> peerRequests[f[i]]]
          /\ toDown' = Append(toDown, Msg("choke")) \o Rejects(peerRequests, g)
  BY DEF Choke, Rejects
<1>2. Choked(kept, refused, f, g)
  BY <1>1 DEF Choked
<1>. QED
  BY <1>2

LEMMA ChokedLists ==
    ASSUME WType, NEW kept, NEW refused, NEW f, NEW g, Choked(kept, refused, f, g)
    PROVE  /\ peerRequests' \in Seq(Req)
           /\ \A i \in 1 .. Len(peerRequests') : Fast(peerRequests'[i].block)
           /\ Rejects(peerRequests, g) \in Seq(DownMsg)
           /\ Append(toDown, Msg("choke")) \in Seq(DownMsg) /\ toDown' \in Seq(DownMsg)
           /\ \A i \in 1 .. Len(Rejects(peerRequests, g)) :
                 Rejects(peerRequests, g)[i].type = "reject"
           /\ \A b : Num(peerRequests', b) = Among(peerRequests, kept, b)
           /\ \A b : Later(Rejects(peerRequests, g), {"piece", "reject"}, b, 0) =
                         Among(peerRequests, refused, b)
<1>. DEFINE s == peerRequests
            n == Cardinality(kept)
            r == Cardinality(refused)
            rej == Rejects(s, g)
<1>0. s \in Seq(Req) /\ toDown \in Seq(DownMsg)
  BY DEF WType
<1>1. kept \in SUBSET (1 .. Len(s)) /\ refused \in SUBSET (1 .. Len(s))
  BY DEF Choked
<1>2. f \in Orders(kept) /\ g \in Orders(refused)
  BY DEF Choked
<1>3. /\ DOMAIN f = 1 .. n /\ n \in Nat /\ \A i \in DOMAIN f : f[i] \in kept
      /\ \A b : Through(s, f, b) = Among(s, kept, b)
  BY <1>0, <1>1, <1>2, InOrder
<1>4. /\ DOMAIN g = 1 .. r /\ r \in Nat /\ \A i \in DOMAIN g : g[i] \in refused
      /\ \A b : Through(s, g, b) = Among(s, refused, b)
  BY <1>0, <1>1, <1>2, InOrder
<1>. HIDE DEF n, r
<1>5. \A i \in 1 .. n : s[f[i]] \in Req /\ Fast(s[f[i]].block)
  BY <1>0, <1>1, <1>3, ElementOfSeq DEF Choked
<1>6. \A i \in 1 .. r : s[g[i]].block \in Blocks
  <2>1. \A i \in 1 .. r : g[i] \in 1 .. Len(s)
    BY <1>1, <1>4
  <2>2. \A i \in 1 .. Len(s) : s[i] \in Req
    BY <1>0, ElementOfSeq
  <2>. QED
    BY <2>1, <2>2 DEF Req
<1>7. s' = [i \in 1 .. n |-> s[f[i]]]
  BY <1>3 DEF Choked
<1>8. s' \in Seq(Req) /\ Len(s') = n
  BY <1>3, <1>5, <1>7
<1>9. rej = [i \in 1 .. r |-> BlockMsg("reject", s[g[i]].block)]
  BY <1>4 DEF Rejects
<1>10. \A i \in 1 .. r : BlockMsg("reject", s[g[i]].block) \in DownMsg
  BY <1>6, Messages
<1>11. rej \in Seq(DownMsg) /\ Len(rej) = r
  BY <1>4, <1>9, <1>10
<1>12. \A i \in 1 .. r : rej[i].type = "reject" /\ rej[i].block = s[g[i]].block
  BY <1>9 DEF BlockMsg
<1>13. Append(toDown, Msg("choke")) \in Seq(DownMsg)
  BY <1>0, Messages
<1>14. toDown' \in Seq(DownMsg)
  BY <1>11, <1>13, ConcatProperties DEF Choked
<1>15. ASSUME NEW b PROVE Num(s', b) = Among(s, kept, b)
  <2>1. Matching(s', b) = {i \in DOMAIN f : s[f[i]].block = b}
    BY <1>3, <1>7, <1>8 DEF Matching
  <2>. QED
    BY <1>3, <2>1 DEF Num, Through
<1>16. ASSUME NEW b
       PROVE  Later(rej, {"piece", "reject"}, b, 0) = Among(s, refused, b)
  <2>1. After(rej, {"piece", "reject"}, b, 0) = {i \in DOMAIN g : s[g[i]].block = b}
    BY <1>4, <1>11, <1>12 DEF After
  <2>. QED
    BY <1>4, <2>1 DEF Later, Through
<1>17. \A i \in 1 .. Len(s') : Fast(s'[i].block)
  BY <1>5, <1>7, <1>8
<1>. HIDE DEF rej
<1>. QED
  BY <1>8, <1>11, <1>12, <1>13, <1>14, <1>15, <1>16, <1>17 DEF rej

-----------------------------------------------------------------------------
LEMMA DropType ==
    ASSUME dropped \in [Blocks -> Nat], NEW b \in Blocks, NEW rs, Cardinality(rs) \in Nat,
           Drop(b, rs)
    PROVE  dropped' \in [Blocks -> Nat]
<1>. DEFINE n == Cardinality(rs)
<1>1. dropped' = [dropped EXCEPT ![b] = @ + n] /\ n \in Nat
  BY DEF Drop
<1>. HIDE DEF n
<1>. QED
  BY <1>1

LEMMA NextType ==
    ASSUME WInv, [Next]_vars
    PROVE  WType'
<1>. USE DEF WType
<1>0. /\ WType /\ Listed
      /\ \A s \in Seq(Req) : \A b : Pull(s, b) \in Seq(Req)
      /\ << >> \in Seq(Req)
  BY PullType DEF WInv
<1>1. CASE UNCHANGED vars
  BY <1>0, <1>1 DEF vars, downVars, upVars
<1>2. ASSUME NEW b \in Blocks, Request(b) PROVE WType'
  <2>. DEFINE r == [id |-> issued + 1, block |-> b]
  <2>1. issued \in Nat /\ issued + 1 \in 1 .. MaxRequests
    BY <1>0, <1>2, BoundsAssumption DEF Request, Listed, Accounts
  <2>2. r \in Req /\ RequestMsg(r) \in UpMsg
    BY <2>1, Messages DEF Req
  <2>. HIDE DEF r
  <2>3. Append(requests, r) \in Seq(Req) /\ Append(toUp, RequestMsg(r)) \in Seq(UpMsg)
    BY <1>0, <2>2
  <2>. QED
    BY <1>0, <1>2, <2>3 DEF Request, upVars, r
<1>3. ASSUME NEW b \in Blocks, Cancel(b) PROVE WType'
  <2>1. Append(toUp, BlockMsg("cancel", b)) \in Seq(UpMsg)
    BY <1>0, Messages
  <2>. QED
    BY <1>0, <1>3, <2>1 DEF Cancel, Answer, upVars
<1>4. CASE End
  BY <1>0, <1>4 DEF End, LocalChoke, FailAll, upVars
<1>5. CASE OnTimeout
  <2>1. requests # << >> /\ Tail(requests) \in Seq(Req)
    BY <1>0, <1>5, HeadTailProperties DEF OnTimeout, Listed
  <2>. QED
    BY <1>0, <1>5, <2>1 DEF OnTimeout, FailAll, upVars
<1>6. CASE Finish
  <2>1. Append(toUp, Msg("eof")) \in Seq(UpMsg)
    BY <1>0, Messages
  <2>. QED
    BY <1>0, <1>6, <2>1 DEF Finish, FailAll, upVars
<1>7. CASE OnChoke \/ OnUnchoke \/ OnPiece \/ OnReject \/ OnEof
  <2>1. /\ toDown' \in Seq(DownMsg) /\ UNCHANGED <<hasFast, upVars, toUp>>
        /\ requests' \in Seq(Req) /\ peerChoking' \in BOOLEAN
        /\ down' \in {"open", "ending", "finished"}
    BY <1>0, <1>7, FromUp
       DEF OnChoke, OnUnchoke, OnPiece, OnReject, OnEof, LocalChoke, FailAll, Answer
  <2>. QED
    BY <1>0, <2>1 DEF upVars
<1>8. CASE OnRequest
  <2>. DEFINE b == Head(toUp).block
              r == [id |-> Head(toUp).id, block |-> b]
  <2>1. /\ Head(toUp) \in UpMsg /\ toUp' \in Seq(UpMsg) /\ Head(toUp).type = "request"
        /\ UNCHANGED <<hasFast, downVars, amChoking>>
    BY <1>0, <1>8, FromDown DEF OnRequest
  <2>2. b \in Blocks /\ r \in Req /\ BlockMsg("reject", b) \in DownMsg
    BY <2>1, Messages DEF Req
  <2>. HIDE DEF r, b
  <2>3. Append(peerRequests, r) \in Seq(Req) /\ Append(toDown, BlockMsg("reject", b)) \in Seq(DownMsg)
    BY <1>0, <2>2
  <2>4. dropped' \in [Blocks -> Nat]
    <3>1. Cardinality(Pulled(peerRequests, b)) \in Nat
      BY PulledSize
    <3>2. UNCHANGED dropped \/ Drop(b, Pulled(peerRequests, b))
      BY <1>8 DEF OnRequest, b
    <3>3. CASE Drop(b, Pulled(peerRequests, b))
      BY <1>0, <2>2, <3>1, <3>3, DropType
    <3>. QED
      BY <1>0, <3>2, <3>3
  <2>5. responding' \subseteq Req
    BY <1>0, <1>8, <2>2 DEF OnRequest, r, b
  <2>6. peerRequests' \in Seq(Req)
    BY <1>0, <1>8, <2>3 DEF OnRequest, r, b
  <2>7. toDown' \in Seq(DownMsg)
    BY <1>0, <1>8, <2>3 DEF OnRequest, r, b
  <2>. QED
    BY <1>0, <2>1, <2>4, <2>5, <2>6, <2>7 DEF downVars
<1>9. CASE OnCancel
  <2>1. toUp' \in Seq(UpMsg) /\ UNCHANGED <<hasFast, downVars, amChoking>>
    BY <1>0, <1>9, FromDown DEF OnCancel
  <2>. QED
    BY <1>0, <1>9, <2>1 DEF OnCancel, downVars
<1>10. ASSUME NEW r \in responding, NEW ok \in BOOLEAN, Respond(r, ok) PROVE WType'
  <2>. DEFINE b == r.block
              rest == Pull(peerRequests, b)
  <2>1. r \in Req /\ b \in Blocks
    BY <1>0 DEF Req
  <2>2. BlockMsg("piece", b) \in DownMsg /\ BlockMsg("reject", b) \in DownMsg
    BY <2>1, Messages
  <2>. HIDE DEF b
  <2>3. rest \in Seq(Req) /\ Pull(rest, b) \in Seq(Req)
    BY <1>0
  <2>4. /\ Append(toDown, BlockMsg("piece", b)) \in Seq(DownMsg)
        /\ Append(toDown, BlockMsg("reject", b)) \in Seq(DownMsg)
    BY <1>0, <2>2
  <2>5. dropped' \in [Blocks -> Nat]
    <3>1. \A s : Cardinality(Pulled(s, b)) \in Nat
      BY PulledSize
    <3>2. Cardinality({r}) \in Nat
      <4>1. Cardinality({r}) = 1
        BY SingletonCount
      <4>. QED
        BY <4>1
    <3>3. \/ UNCHANGED dropped \/ Drop(b, {r})
          \/ \E s : Drop(b, Pulled(s, b))
      BY <1>10 DEF Respond, b
    <3>4. CASE UNCHANGED dropped
      BY <1>0, <3>4
    <3>5. CASE Drop(b, {r})
      BY <1>0, <2>1, <3>2, <3>5, DropType
    <3>6. ASSUME NEW s, Drop(b, Pulled(s, b)) PROVE dropped' \in [Blocks -> Nat]
      BY <1>0, <2>1, <3>1, <3>6, DropType
    <3>. QED
      BY <3>3, <3>4, <3>5, <3>6
  <2>6. peerRequests' \in Seq(Req)
    BY <1>10, <2>3 DEF Respond, b
  <2>7. toDown' \in Seq(DownMsg)
    BY <1>0, <1>10, <2>4 DEF Respond, b
  <2>8. responding' \subseteq Req /\ UNCHANGED <<hasFast, downVars, amChoking, up, toUp>>
    BY <1>0, <1>10 DEF Respond
  <2>. QED
    BY <1>0, <2>5, <2>6, <2>7, <2>8 DEF downVars
<1>11. CASE Choke
  <2>1. peerRequests' \in Seq(Req) /\ toDown' \in Seq(DownMsg)
    BY <1>0, <1>11, ChokeParts, ChokedLists
  <2>2. UNCHANGED <<hasFast, downVars, responding, up, toUp, dropped>>
    BY <1>11 DEF Choke
  <2>. QED
    BY <1>0, <2>1, <2>2 DEF downVars
<1>12. CASE Unchoke
  <2>1. Append(toDown, Msg("unchoke")) \in Seq(DownMsg)
    BY <1>0, Messages
  <2>. QED
    BY <1>0, <1>12, <2>1 DEF Unchoke, downVars
<1>13. CASE Close
  <2>1. Append(toDown, Msg("eof")) \in Seq(DownMsg)
    BY <1>0, Messages
  <2>2. toUp # << >> => Tail(toUp) \in Seq(UpMsg)
    BY <1>0, HeadTailProperties
  <2>. QED
    BY <1>0, <1>13, <2>1, <2>2 DEF Close, downVars
<1>. QED
  BY <1>1, <1>2, <1>3, <1>4, <1>5, <1>6, <1>7, <1>8, <1>9, <1>10, <1>11, <1>12, <1>13 DEF Next

-----------------------------------------------------------------------------
(* The downloading end: one callback for each request.                     *)
LEMMA AnswerListed ==
    ASSUME WType, Listed, NEW b, Answer(b), UNCHANGED issued, UNCHANGED hasFast,
           peerChoking' => peerChoking \/ hasFast
    PROVE  Listed'
<1>. DEFINE s == Pull(requests, b)
            out == Pulled(requests, b)
<1>1. DistinctIds(s) /\ IdsOf(s) = IdsOf(requests) \ {r.id : r \in out}
      /\ {r.id : r \in out} \subseteq IdsOf(requests)
  BY PullIds DEF WType, Listed
<1>2. Accounts(IdsOf(requests), issued, calls)
  BY DEF Listed
<1>3. Accounts(IdsOf(s), issued, Called(out))
  BY <1>1, <1>2, CalledBack
<1>4. requests' = s /\ calls' = Called(out) /\ timer' = Rearm(s, out)
  BY DEF Answer
<1>5. timer' \in BOOLEAN /\ (timer' => s # << >>)
  BY <1>4 DEF Rearm, Listed, Pull, Pulled
<1>6. requests = << >> => s = << >>
  BY DEF Pull, Matching
<1>. HIDE DEF s, out
<1>. QED
  BY <1>1, <1>3, <1>4, <1>5, <1>6 DEF Listed

LEMMA FailedListed ==
    ASSUME Listed, FailAll, UNCHANGED issued
    PROVE  Listed'
<1>1. Accounts(IdsOf(requests), issued, calls)
  BY DEF Listed
<1>2. {r.id : r \in Members(requests)} = IdsOf(requests)
  BY MembersIds
<1>3. Accounts(IdsOf(requests) \ IdsOf(requests), issued, Called(Members(requests)))
  BY <1>1, <1>2, CalledBack
<1>4. IdsOf(requests) \ IdsOf(requests) = {}
  OBVIOUS
<1>5. Accounts({}, issued, Called(Members(requests)))
  BY <1>3, <1>4
<1>6. timer' = FALSE /\ requests' = << >> /\ calls' = Called(Members(requests))
  BY DEF FailAll, Listed
<1>. QED
  BY <1>5, <1>6, NoRequest DEF Listed

LEMMA ChokeListed ==
    ASSUME Listed, LocalChoke, UNCHANGED issued, UNCHANGED hasFast
    PROVE  Listed'
<1>1. CASE hasFast
  BY <1>1 DEF LocalChoke, Listed
<1>2. CASE ~hasFast
  BY <1>2, FailedListed DEF LocalChoke
<1>. QED
  BY <1>1, <1>2

LEMMA RequestListed ==
    ASSUME WType, Listed, NEW b \in Blocks, Request(b)
    PROVE  Listed'
<1>. DEFINE r == [id |-> issued + 1, block |-> b]
            ids == IdsOf(requests)
<1>1. /\ issued \in Nat /\ issued + 1 \in 1 .. MaxRequests /\ issued' = issued + 1
      /\ ids \subseteq 1 .. issued /\ Accounts(ids, issued, calls)
      /\ UNCHANGED <<hasFast, peerChoking>>
  BY BoundsAssumption DEF Request, Listed, Accounts
<1>2. CASE requests' = requests /\ calls' = Called({r}) /\ UNCHANGED timer
  <2>1. {q.id : q \in {r}} = {issued + 1}
    OBVIOUS
  <2>2. Called({r}) = [i \in 1 .. MaxRequests |-> IF i = issued + 1 THEN calls[i] + 1 ELSE calls[i]]
    BY <1>1 DEF Called, Accounts
  <2>3. Accounts(ids, issued + 1, Called({r}))
    <3>. DEFINE c == Called({r})
    <3>. HIDE DEF ids, r, c
    <3>1. c = [i \in 1 .. MaxRequests |-> c[i]]
      BY <2>2 DEF c
    <3>2. \A i \in 1 .. MaxRequests : c[i] = IF i > issued + 1 \/ i \in ids THEN 0 ELSE 1
      BY <1>1, <2>2, BoundsAssumption DEF c, Accounts
    <3>3. ids \subseteq 1 .. issued + 1 /\ issued + 1 \in 0 .. MaxRequests
      BY <1>1, BoundsAssumption
    <3>4. Accounts(ids, issued + 1, c)
      BY <3>1, <3>2, <3>3 DEF Accounts
    <3>. QED
      BY <3>4 DEF c
  <2>. QED
    BY <1>1, <1>2, <2>3 DEF Listed
<1>3. CASE /\ requests' = Append(requests, r) /\ timer' = TRUE /\ UNCHANGED calls
           /\ ~(peerChoking /\ ~hasFast)
  <2>. DEFINE t == Append(requests, r)
  <2>1. /\ Len(requests) \in Nat /\ Len(t) = Len(requests) + 1 /\ t[Len(requests) + 1] = r
        /\ \A i \in 1 .. Len(requests) : t[i] = requests[i]
    BY DEF WType
  <2>2. r.id = issued + 1
    OBVIOUS
  <2>3. \A i \in 1 .. Len(requests) : requests[i].id \in 1 .. issued
    BY <1>1 DEF IdsOf
  <2>. HIDE DEF t, r
  <2>4. DistinctIds(t)
    BY <1>1, <2>1, <2>2, <2>3, SMTT(30) DEF DistinctIds, Listed
  <2>5. IdsOf(t) = ids \cup {issued + 1}
    BY <2>1, <2>2 DEF IdsOf
  <2>6. Accounts(ids \cup {issued + 1}, issued + 1, calls)
    BY <1>1, BoundsAssumption DEF Accounts
  <2>7. t # << >>
    BY <2>1
  <2>. QED
    BY <1>1, <1>3, <2>4, <2>5, <2>6, <2>7 DEF Listed, t
<1>. QED
  BY <1>2, <1>3 DEF Request, Fast

LEMMA TimeoutListed ==
    ASSUME WType, Listed, OnTimeout
    PROVE  Listed'
<1>1. CASE ~hasFast
  BY <1>1, FailedListed DEF OnTimeout
<1>2. CASE hasFast
  <2>. DEFINE t == Tail(requests)
              r == Head(requests)
  <2>1. /\ requests # << >> /\ requests' = t /\ calls' = Called({r})
        /\ timer' = Rearm(t, {r}) /\ UNCHANGED <<hasFast, issued>>
    BY <1>2 DEF OnTimeout, Listed
  <2>2. /\ Len(requests) \in Nat \ {0} /\ Len(t) = Len(requests) - 1 /\ r = requests[1]
        /\ \A i \in 1 .. Len(t) : t[i] = requests[i + 1]
    BY <2>1, HeadTailProperties, EmptySeq DEF WType
  <2>. HIDE DEF t, r
  <2>3. DistinctIds(t)
    BY <2>2 DEF DistinctIds, Listed
  <2>4. {q.id : q \in {r}} = {r.id} /\ r.id \in IdsOf(requests)
    BY <2>2 DEF IdsOf
  <2>5. IdsOf(t) = IdsOf(requests) \ {r.id}
    <3>1. IdsOf(t) \subseteq IdsOf(requests) \ {r.id}
      BY <2>2 DEF IdsOf, Listed, DistinctIds
    <3>2. ASSUME NEW i \in 1 .. Len(requests), requests[i].id # r.id
          PROVE  requests[i].id \in IdsOf(t)
      <4>1. i - 1 \in 1 .. Len(t) /\ t[i - 1] = requests[i]
        BY <2>2, <3>2
      <4>. QED
        BY <4>1 DEF IdsOf
    <3>. QED
      BY <3>1, <3>2 DEF IdsOf
  <2>6. Accounts(IdsOf(requests), issued, calls)
    BY DEF Listed
  <2>7. Accounts(IdsOf(t), issued, Called({r}))
    BY <2>4, <2>5, <2>6, CalledBack
  <2>8. timer' \in BOOLEAN /\ (timer' => t # << >>)
    BY <2>1 DEF Rearm
  <2>. QED
    BY <1>2, <2>1, <2>3, <2>7, <2>8 DEF Listed
<1>. QED
  BY <1>1, <1>2 DEF WType

LEMMA NextListed ==
    ASSUME WInv, [Next]_vars
    PROVE  Listed'
<1>0. WType /\ Listed
  BY DEF WInv
<1>1. CASE UNCHANGED downVars /\ UNCHANGED hasFast
  BY <1>0, <1>1 DEF downVars, Listed
<1>2. ASSUME NEW b \in Blocks, Cancel(b) PROVE Listed'
  BY <1>0, <1>2, AnswerListed DEF Cancel
<1>3. CASE End \/ OnChoke \/ OnEof
  <2>1. LocalChoke /\ UNCHANGED issued /\ UNCHANGED hasFast
    BY <1>3 DEF End, OnChoke, OnEof, ToDown
  <2>. QED
    BY <1>0, <2>1, ChokeListed
<1>4. CASE Finish
  BY <1>0, <1>4, FailedListed DEF Finish
<1>5. CASE OnUnchoke
  BY <1>0, <1>5 DEF OnUnchoke, ToDown, Listed
<1>6. CASE OnPiece \/ OnReject
  <2>1. PICK b : Answer(b) /\ UNCHANGED peerChoking /\ UNCHANGED issued /\ UNCHANGED hasFast
    BY <1>6 DEF OnPiece, OnReject, ToDown
  <2>. QED
    BY <1>0, <2>1, AnswerListed
<1>7. CASE OnRequest \/ OnCancel
  BY <1>1, <1>7 DEF OnRequest, OnCancel, ToUp
<1>8. ASSUME NEW r \in responding, NEW ok \in BOOLEAN, Respond(r, ok) PROVE Listed'
  BY <1>1, <1>8 DEF Respond
<1>9. CASE Choke \/ Unchoke \/ Close
  BY <1>1, <1>9 DEF Choke, Unchoke, Close
<1>10. CASE UNCHANGED vars
  BY <1>1, <1>10 DEF vars
<1>. QED
  BY <1>0, <1>2, <1>3, <1>4, <1>5, <1>6, <1>7, <1>8, <1>9, <1>10, RequestListed, TimeoutListed
     DEF Next

-----------------------------------------------------------------------------
(* What the uploading end told of its choking.                             *)
LEMMA ToldMore ==
    ASSUME NEW q \in Seq(DownMsg), NEW m \in DownMsg, m.type # "unchoke",
           NEW knows, ToldBy(knows, q)
    PROVE  ToldBy(knows, Append(q, m))
<1>. DEFINE t == Append(q, m)
<1>1. /\ Len(q) \in Nat /\ Len(t) = Len(q) + 1 /\ t[Len(q) + 1] = m
      /\ \A i \in 1 .. Len(q) : t[i] = q[i]
  OBVIOUS
<1>. HIDE DEF t
<1>2. knows \/ \E i \in 1 .. Len(t) : t[i].type = "choke"
  <2>1. knows \/ \E i \in 1 .. Len(q) : q[i].type = "choke"
    BY DEF ToldBy
  <2>. QED
    BY <1>1, <2>1
<1>3. ASSUME NEW i \in 1 .. Len(t), t[i].type = "unchoke"
      PROVE  \E j \in i + 1 .. Len(t) : t[j].type = "choke"
  <2>1. i \in 1 .. Len(q) /\ q[i].type = "unchoke"
    BY <1>1, <1>3
  <2>2. PICK j \in i + 1 .. Len(q) : q[j].type = "choke"
    BY <2>1 DEF ToldBy
  <2>3. j \in i + 1 .. Len(t) /\ j \in 1 .. Len(q)
    BY <1>1, <2>1
  <2>. QED
    BY <1>1, <2>2, <2>3
<1>4. ToldBy(knows, t)
  BY <1>2, <1>3 DEF ToldBy
<1>. QED
  BY <1>4 DEF t

LEMMA ToldLess ==
    ASSUME NEW q \in Seq(DownMsg), q # << >>, NEW knows, NEW learns, ToldBy(knows, q),
           Head(q).type = "choke" => learns, Head(q).type # "unchoke" => (knows => learns)
    PROVE  ToldBy(learns, Tail(q))
<1>. DEFINE t == Tail(q)
<1>1. /\ Len(q) \in Nat \ {0} /\ Len(t) = Len(q) - 1 /\ Head(q) = q[1]
      /\ \A i \in 1 .. Len(t) : t[i] = q[i + 1]
  BY HeadTailProperties, EmptySeq
<1>. HIDE DEF t
<1>2. \A j \in 2 .. Len(q) : j - 1 \in 1 .. Len(t) /\ t[j - 1] = q[j]
  BY <1>1
<1>3. learns \/ \E i \in 1 .. Len(t) : t[i].type = "choke"
  <2>1. CASE q[1].type = "unchoke"
    <3>1. PICK j \in 2 .. Len(q) : q[j].type = "choke"
      BY <1>1, <2>1 DEF ToldBy
    <3>. QED
      BY <1>2, <3>1
  <2>2. CASE q[1].type # "unchoke"
    <3>1. ASSUME NEW i \in 1 .. Len(q), q[i].type = "choke"
          PROVE  learns \/ \E j \in 1 .. Len(t) : t[j].type = "choke"
      <4>1. CASE i = 1
        BY <1>1, <3>1, <4>1
      <4>2. CASE i # 1
        BY <1>1, <1>2, <3>1, <4>2
      <4>. QED
        BY <4>1, <4>2
    <3>. QED
      BY <1>1, <2>2, <3>1 DEF ToldBy
  <2>. QED
    BY <2>1, <2>2
<1>4. ASSUME NEW i \in 1 .. Len(t), t[i].type = "unchoke"
      PROVE  \E j \in i + 1 .. Len(t) : t[j].type = "choke"
  <2>1. i + 1 \in 1 .. Len(q) /\ q[i + 1].type = "unchoke"
    BY <1>1, <1>4
  <2>2. PICK j \in (i + 1) + 1 .. Len(q) : q[j].type = "choke"
    BY <2>1 DEF ToldBy
  <2>3. j - 1 \in i + 1 .. Len(t) /\ t[j - 1].type = "choke"
    BY <1>1, <1>2, <2>1, <2>2
  <2>. QED
    BY <2>3
<1>5. ToldBy(learns, t)
  BY <1>3, <1>4 DEF ToldBy
<1>. QED
  BY <1>5 DEF t

LEMMA NextTold ==
    ASSUME WInv, [Next]_vars
    PROVE  Told'
<1>. SUFFICES ASSUME amChoking' PROVE ToldBy(peerChoking', toDown')
  BY DEF Told
<1>0. /\ toDown \in Seq(DownMsg) /\ toUp \in Seq(UpMsg) /\ responding \subseteq Req /\ WType
      /\ amChoking => ToldBy(peerChoking, toDown)
  BY DEF WInv, WType, Told
<1>1. ASSUME UNCHANGED <<toDown, amChoking>>, peerChoking => peerChoking'
      PROVE  ToldBy(peerChoking', toDown')
  BY <1>0, <1>1 DEF ToldBy
<1>2. ASSUME NEW m \in DownMsg, toDown' = Append(toDown, m), m.type # "unchoke",
             UNCHANGED <<amChoking, peerChoking>>
      PROVE  ToldBy(peerChoking', toDown')
  BY <1>0, <1>2, ToldMore
<1>3. CASE UNCHANGED vars
  BY <1>1, <1>3 DEF vars, upVars, downVars
<1>4. ASSUME NEW b \in Blocks, Request(b) \/ Cancel(b) PROVE ToldBy(peerChoking', toDown')
  BY <1>1, <1>4 DEF Request, Cancel, upVars
<1>5. CASE End \/ OnTimeout \/ Finish
  BY <1>1, <1>5 DEF End, OnTimeout, Finish, LocalChoke, upVars
<1>6. ASSUME NEW type, ToDown(type), type = "choke" => peerChoking',
             type # "unchoke" => (peerChoking => peerChoking')
      PROVE  ToldBy(peerChoking', toDown')
  <2>1. /\ toDown # << >> /\ toDown' = Tail(toDown) /\ amChoking' = amChoking
        /\ Head(toDown).type = type
    BY <1>0, <1>6, FromUp DEF upVars
  <2>. DEFINE knows == peerChoking
              learns == peerChoking'
  <2>2. ToldBy(knows, toDown)
    BY <1>0, <2>1
  <2>3. Head(toDown).type = "choke" => learns
    BY <1>6, <2>1
  <2>4. Head(toDown).type # "unchoke" => (knows => learns)
    BY <1>6, <2>1
  <2>. HIDE DEF knows, learns
  <2>5. ToldBy(learns, Tail(toDown))
    BY <1>0, <2>1, <2>2, <2>3, <2>4, ToldLess
  <2>. QED
    BY <2>1, <2>5 DEF learns
<1>14. CASE OnChoke
  BY <1>6, <1>14 DEF OnChoke, LocalChoke
<1>15. CASE OnUnchoke
  BY <1>6, <1>15 DEF OnUnchoke
<1>16. CASE OnPiece
  BY <1>6, <1>16 DEF OnPiece
<1>17. CASE OnReject
  BY <1>6, <1>17 DEF OnReject
<1>18. CASE OnEof
  BY <1>6, <1>18 DEF OnEof, LocalChoke
<1>7. CASE OnRequest
  <2>1. /\ Head(toUp).block \in Blocks /\ UNCHANGED <<amChoking, peerChoking>>
    BY <1>0, <1>7, FromDown, Messages DEF OnRequest, downVars
  <2>2. /\ BlockMsg("reject", Head(toUp).block) \in DownMsg
        /\ BlockMsg("reject", Head(toUp).block).type # "unchoke"
    BY <2>1, Messages DEF BlockMsg
  <2>3. toDown' = toDown \/ toDown' = Append(toDown, BlockMsg("reject", Head(toUp).block))
    BY <1>7 DEF OnRequest
  <2>. QED
    BY <1>1, <1>2, <2>1, <2>2, <2>3
<1>8. CASE OnCancel
  BY <1>1, <1>8 DEF OnCancel, ToUp, downVars
<1>9. ASSUME NEW r \in responding, NEW ok \in BOOLEAN, Respond(r, ok)
      PROVE  ToldBy(peerChoking', toDown')
  <2>1. r.block \in Blocks /\ UNCHANGED <<amChoking, peerChoking>>
    BY <1>0, <1>9 DEF Respond, downVars, Req
  <2>2. \A type \in {"piece", "reject"} : /\ BlockMsg(type, r.block) \in DownMsg
                                          /\ BlockMsg(type, r.block).type # "unchoke"
    BY <2>1, Messages DEF BlockMsg
  <2>3. toDown' = toDown \/ \E type \in {"piece", "reject"} :
                               toDown' = Append(toDown, BlockMsg(type, r.block))
    BY <1>9 DEF Respond
  <2>. QED
    BY <1>1, <1>2, <2>1, <2>2, <2>3
<1>10. CASE Choke
  <2>1. PICK kept, refused, f, g : Choked(kept, refused, f, g)
    BY <1>10, ChokeParts
  <2>. DEFINE t == Append(toDown, Msg("choke"))
              rej == Rejects(peerRequests, g)
              n == Len(toDown) + 1
  <2>2. /\ rej \in Seq(DownMsg) /\ t \in Seq(DownMsg)
        /\ \A i \in 1 .. Len(rej) : rej[i].type = "reject"
    BY <1>0, <2>1, ChokedLists
  <2>3. toDown' = t \o rej
    BY <2>1 DEF Choked
  <2>4. Len(toDown) \in Nat /\ Len(t) = n /\ t[n] = Msg("choke")
    BY <1>0
  <2>. HIDE DEF t, rej
  <2>. DEFINE k == Len(rej)
  <2>10. /\ Len(t \o rej) = Len(t) + k /\ k \in Nat
         /\ \A i \in 1 .. Len(t) + k : (t \o rej)[i] = IF i <= Len(t) THEN t[i] ELSE rej[i - Len(t)]
    BY <2>2, ConcatProperties, LenProperties
  <2>11. n \in Nat \ {0}
    BY <2>4
  <2>. HIDE DEF k, n
  <2>12. (t \o rej)[n] = t[n]
    BY <2>4, <2>10, <2>11
  <2>13. \A i \in n + 1 .. n + k : i - n \in 1 .. k /\ (t \o rej)[i] = rej[i - n]
    BY <2>4, <2>10, <2>11
  <2>5. Len(t \o rej) = n + k /\ (t \o rej)[n] = t[n]
    BY <2>4, <2>10, <2>12
  <2>6. \A i \in n + 1 .. n + k : (t \o rej)[i].type = "reject"
    BY <2>2, <2>13 DEF k
  <2>7. (t \o rej)[n].type = "choke"
    BY <2>4, <2>5 DEF Msg
  <2>. DEFINE sent == t \o rej
  <2>. HIDE DEF sent
  <2>8. /\ n \in 1 .. Len(sent) /\ sent[n].type = "choke"
        /\ \A i \in 1 .. Len(sent) : i > n => sent[i].type = "reject"
    BY <2>5, <2>6, <2>7, <2>10, <2>11 DEF sent
  <2>9. ToldBy(peerChoking', sent)
    <3>1. ASSUME NEW i \in 1 .. Len(sent), sent[i].type = "unchoke"
          PROVE  \E j \in i + 1 .. Len(sent) : sent[j].type = "choke"
      <4>1. n \in i + 1 .. Len(sent)
        BY <2>8, <2>11, <3>1
      <4>. QED
        BY <2>8, <4>1
    <3>. QED
      BY <2>8, <3>1 DEF ToldBy
  <2>. QED
    BY <2>3, <2>9 DEF sent
<1>11. CASE Unchoke
  BY <1>11 DEF Unchoke
<1>12. CASE Close
  <2>1. Msg("eof") \in DownMsg /\ Msg("eof").type # "unchoke"
    BY Messages DEF Msg
  <2>. QED
    BY <1>2, <1>12, <2>1 DEF Close, downVars
<1>. QED
  BY <1>3, <1>4, <1>5, <1>7, <1>8, <1>9, <1>10, <1>11, <1>12, <1>14, <1>15, <1>16, <1>17, <1>18
     DEF Next

(* What a choking end lists.                                               *)
LEMMA NextOnlyFast ==
    ASSUME WInv, [Next]_vars
    PROVE  OnlyFast'
<1>0. WType /\ OnlyFast /\ peerRequests \in Seq(Req)
  BY DEF WInv, WType
<1>1. ASSUME UNCHANGED <<hasFast, peerRequests, amChoking>> PROVE OnlyFast'
  BY <1>0, <1>1 DEF OnlyFast, AllFast, Fast
<1>2. ASSUME UNCHANGED <<hasFast, amChoking>>, NEW s, peerRequests' = s,
             AllFast(peerRequests) => AllFast(s)
      PROVE  OnlyFast'
  <2>1. AllFast(peerRequests)' <=> AllFast(s)
    BY <1>2 DEF AllFast, Fast
  <2>. QED
    BY <1>0, <1>2, <2>1 DEF OnlyFast
<1>3. \A b : AllFast(peerRequests) => AllFast(Pull(peerRequests, b))
  BY <1>0, PullType
<1>4. CASE UNCHANGED vars
  BY <1>1, <1>4 DEF vars, upVars
<1>5. ASSUME NEW b \in Blocks, Request(b) \/ Cancel(b) PROVE OnlyFast'
  BY <1>1, <1>5 DEF Request, Cancel, upVars
<1>6. CASE End \/ OnTimeout \/ Finish
  BY <1>1, <1>6 DEF End, OnTimeout, Finish, upVars
<1>7. CASE OnChoke \/ OnUnchoke \/ OnPiece \/ OnReject \/ OnEof
  BY <1>1, <1>7 DEF OnChoke, OnUnchoke, OnPiece, OnReject, OnEof, ToDown, upVars
<1>8. CASE OnRequest
  <2>. DEFINE b == Head(toUp).block
              r == [id |-> Head(toUp).id, block |-> b]
  <2>1. UNCHANGED <<hasFast, amChoking>>
    BY <1>8 DEF OnRequest, ToUp
  <2>2. CASE peerRequests' = Append(peerRequests, r) /\ ~(amChoking /\ ~Fast(b))
    <3>. DEFINE t == Append(peerRequests, r)
    <3>1. /\ Len(peerRequests) \in Nat /\ Len(t) = Len(peerRequests) + 1
          /\ t[Len(peerRequests) + 1] = r
          /\ \A i \in 1 .. Len(peerRequests) : t[i] = peerRequests[i]
      BY <1>0
    <3>2. r.block = b
      OBVIOUS
    <3>. HIDE DEF t, r, b
    <3>3. amChoking => AllFast(t)
      BY <1>0, <2>2, <3>1, <3>2 DEF OnlyFast, AllFast
    <3>4. AllFast(peerRequests)' <=> AllFast(t)
      BY <2>1, <2>2 DEF AllFast, Fast, t
    <3>. QED
      BY <1>0, <2>1, <3>3, <3>4 DEF OnlyFast
  <2>3. CASE peerRequests' = Pull(peerRequests, b) \/ peerRequests' = peerRequests
    BY <1>1, <1>2, <1>3, <2>1, <2>3
  <2>. QED
    BY <1>8, <2>2, <2>3 DEF OnRequest
<1>9. CASE OnCancel
  BY <1>2, <1>3, <1>9 DEF OnCancel, ToUp
<1>10. ASSUME NEW r \in responding, NEW ok \in BOOLEAN, Respond(r, ok) PROVE OnlyFast'
  <2>. DEFINE rest == Pull(peerRequests, r.block)
  <2>1. UNCHANGED <<hasFast, amChoking>>
    BY <1>10 DEF Respond
  <2>2. peerRequests' = rest \/ peerRequests' = Pull(rest, r.block)
    BY <1>10 DEF Respond
  <2>3. rest \in Seq(Req) /\ (AllFast(peerRequests) => AllFast(rest))
    BY <1>0, PullType
  <2>. HIDE DEF rest
  <2>4. AllFast(rest) => AllFast(Pull(rest, r.block))
    BY <2>3, PullType
  <2>. QED
    BY <1>2, <2>1, <2>2, <2>3, <2>4
<1>11. CASE Choke
  <2>1. \A i \in 1 .. Len(peerRequests') : Fast(peerRequests'[i].block)
    BY <1>0, <1>11, ChokeParts, ChokedLists
  <2>. QED
    BY <1>11, <2>1 DEF Choke, OnlyFast, AllFast, Fast
<1>12. CASE Unchoke
  BY <1>12 DEF Unchoke, OnlyFast
<1>13. CASE Close
  BY <1>0, <1>13 DEF Close, OnlyFast, AllFast
<1>. QED
  BY <1>4, <1>5, <1>6, <1>7, <1>8, <1>9, <1>10, <1>11, <1>12, <1>13 DEF Next

-----------------------------------------------------------------------------
(* Messages that will fail whatever is listed.                             *)
Ends(q, fast) ==
    \E i \in 1 .. Len(q) : q[i].type = "eof" \/ (q[i].type = "choke" /\ ~fast)

LEMMA FailingIs == Failing <=> down # "open" \/ Ends(toDown, hasFast)
BY DEF Failing, Members, Ends

LEMMA EndsAppend ==
    ASSUME NEW S, NEW q \in Seq(S), NEW m \in S, NEW fast
    PROVE  /\ Ends(q, fast) => Ends(Append(q, m), fast)
           /\ m.type = "eof" \/ (m.type = "choke" /\ ~fast) => Ends(Append(q, m), fast)
<1>. DEFINE t == Append(q, m)
<1>1. /\ Len(q) \in Nat /\ Len(t) = Len(q) + 1 /\ t[Len(q) + 1] = m
      /\ \A i \in 1 .. Len(q) : t[i] = q[i]
  OBVIOUS
<1>. HIDE DEF t
<1>2. Ends(q, fast) => Ends(t, fast)
  BY <1>1 DEF Ends
<1>3. m.type = "eof" \/ (m.type = "choke" /\ ~fast) => Ends(t, fast)
  BY <1>1 DEF Ends
<1>. QED
  BY <1>2, <1>3 DEF t

LEMMA EndsConcat ==
    ASSUME NEW S, NEW q \in Seq(S), NEW p \in Seq(S), NEW fast, Ends(q, fast)
    PROVE  Ends(q \o p, fast)
<1>1. /\ Len(q) \in Nat /\ Len(p) \in Nat /\ Len(q \o p) = Len(q) + Len(p)
      /\ \A i \in 1 .. Len(q) : (q \o p)[i] = q[i]
  BY ConcatProperties, LenProperties
<1>. QED
  BY <1>1 DEF Ends

LEMMA EndsTail ==
    ASSUME NEW S, NEW q \in Seq(S), q # << >>, NEW fast, Ends(q, fast),
           Head(q).type # "eof", Head(q).type = "choke" => fast
    PROVE  Ends(Tail(q), fast)
<1>. DEFINE t == Tail(q)
<1>1. /\ Len(q) \in Nat \ {0} /\ Len(t) = Len(q) - 1 /\ Head(q) = q[1]
      /\ \A i \in 1 .. Len(t) : t[i] = q[i + 1]
  BY HeadTailProperties, EmptySeq
<1>. HIDE DEF t
<1>2. PICK i \in 1 .. Len(q) : q[i].type = "eof" \/ (q[i].type = "choke" /\ ~fast)
  BY DEF Ends
<1>3. i - 1 \in 1 .. Len(t) /\ t[i - 1] = q[i]
  BY <1>1, <1>2
<1>4. Ends(t, fast)
  BY <1>2, <1>3 DEF Ends
<1>. QED
  BY <1>4 DEF t

(* What comes back, and what was discarded.                                *)
LEMMA BackType ==
    ASSUME NEW q \in Seq(DownMsg), NEW d \in [Blocks -> Nat], NEW b \in Blocks
    PROVE  Back(q, d, b) \in Nat
<1>1. Later(q, {"piece", "reject"}, b, 0) \in Nat /\ d[b] \in Nat
  BY LaterType
<1>. QED
  BY <1>1 DEF Back

LEMMA BackAppend ==
    ASSUME NEW q \in Seq(DownMsg), NEW m \in DownMsg, NEW d \in [Blocks -> Nat], NEW b \in Blocks
    PROVE  Back(Append(q, m), d, b) = Back(q, d, b) + Weighs(m, {"piece", "reject"}, b)
<1>. DEFINE l == Later(q, {"piece", "reject"}, b, 0)
            w == Weighs(m, {"piece", "reject"}, b)
<1>1. Later(Append(q, m), {"piece", "reject"}, b, 0) = l + w
  <2>1. 0 \in 0 .. Len(q)
    BY LenProperties
  <2>. QED
    BY <2>1, LaterAppend
<1>2. l \in Nat /\ w \in Nat /\ d[b] \in Nat
  BY LaterType DEF Weighs
<1>3. Back(q, d, b) = l + d[b] /\ Back(Append(q, m), d, b) = (l + w) + d[b]
  BY <1>1 DEF Back
<1>. HIDE DEF l, w
<1>4. Back(Append(q, m), d, b) = Back(q, d, b) + w
  BY <1>2, <1>3
<1>. QED
  BY <1>4 DEF w

LEMMA BackTail ==
    ASSUME NEW q \in Seq(DownMsg), q # << >>, NEW d \in [Blocks -> Nat], NEW b \in Blocks
    PROVE  Back(q, d, b) = Back(Tail(q), d, b) + Weighs(Head(q), {"piece", "reject"}, b)
<1>. DEFINE l == Later(Tail(q), {"piece", "reject"}, b, 0)
            w == Weighs(Head(q), {"piece", "reject"}, b)
<1>1. Later(q, {"piece", "reject"}, b, 0) = l + w
  BY Delivered
<1>2. l \in Nat /\ w \in Nat /\ d[b] \in Nat
  <2>1. Tail(q) \in Seq(DownMsg)
    BY HeadTailProperties
  <2>. QED
    BY <2>1, LaterType DEF Weighs
<1>3. Back(Tail(q), d, b) = l + d[b] /\ Back(q, d, b) = (l + w) + d[b]
  BY <1>1 DEF Back
<1>. HIDE DEF l, w
<1>4. Back(q, d, b) = Back(Tail(q), d, b) + w
  BY <1>2, <1>3
<1>. QED
  BY <1>4 DEF w

LEMMA BackDrop ==
    ASSUME NEW q \in Seq(DownMsg), dropped \in [Blocks -> Nat],
           NEW b \in Blocks, NEW c \in Blocks, NEW rs, Cardinality(rs) \in Nat, Drop(c, rs)
    PROVE  Back(q, dropped', b) =
               Back(q, dropped, b) + (IF b = c THEN Cardinality(rs) ELSE 0)
<1>. DEFINE l == Later(q, {"piece", "reject"}, b, 0)
            n == Cardinality(rs)
<1>1. l \in Nat /\ n \in Nat /\ dropped[b] \in Nat
  BY LaterType
<1>2. Back(q, dropped', b) = l + dropped'[b] /\ Back(q, dropped, b) = l + dropped[b]
  BY DEF Back
<1>3. dropped' = [dropped EXCEPT ![c] = @ + n]
  BY DEF Drop
<1>. HIDE DEF l, n
<1>4. dropped'[b] = IF b = c THEN dropped[b] + n ELSE dropped[b]
  BY <1>3
<1>5. Back(q, dropped', b) = Back(q, dropped, b) + (IF b = c THEN n ELSE 0)
  BY <1>1, <1>2, <1>4
<1>. QED
  BY <1>5 DEF n

(* What each message weighs.                                               *)
LEMMA Weights ==
    ASSUME NEW b, NEW c
    PROVE  /\ Weighs(BlockMsg("cancel", c), {"cancel"}, b) = IF c = b THEN 1 ELSE 0
           /\ Weighs(BlockMsg("cancel", c), {"request"}, b) = 0
           /\ \A type \in {"piece", "reject"} :
                 Weighs(BlockMsg(type, c), {"piece", "reject"}, b) = IF c = b THEN 1 ELSE 0
           /\ \A type \in {"choke", "unchoke", "eof"} :
                 Weighs(Msg(type), {"piece", "reject"}, b) = 0
BY DEF Weighs, BlockMsg, Msg

-----------------------------------------------------------------------------
(* Each action keeps the listed requests covered, or makes them fail.      *)
LEMMA Numbers ==
    ASSUME WType, WType', NEW b \in Blocks
    PROVE  /\ Num(requests, b) \in Nat /\ Num(peerRequests, b) \in Nat
           /\ Back(toDown, dropped, b) \in Nat
           /\ Num(requests', b) \in Nat /\ Num(peerRequests', b) \in Nat
           /\ Back(toDown', dropped', b) \in Nat
BY NumType, BackType DEF WType

(* With no request listed there is nothing to cover.                       *)
LEMMA EmptyCover ==
    ASSUME WType, WType', NEW b \in Blocks, Num(requests', b) = 0
    PROVE  Cover(b)'
<1>1. /\ toUp' \in Seq(UpMsg) /\ Num(peerRequests', b) \in Nat
      /\ Back(toDown', dropped', b) \in Nat
  BY Numbers DEF WType
<1>2. Covers(0, Num(peerRequests', b), toUp', Back(toDown', dropped', b), b)
  BY <1>1, CoversNone
<1>. QED
  BY <1>2 DEF Cover

(* The stream to the peer is left alone.                                   *)
LEMMA MovedCover ==
    ASSUME WType, WType', NEW b \in Blocks, Cover(b), UNCHANGED toUp,
           Num(requests', b) + Back(toDown, dropped, b)
               <= Num(requests, b) + Back(toDown', dropped', b),
           Num(requests', b) + Num(peerRequests, b) + Back(toDown, dropped, b)
               <= Num(requests, b) + Num(peerRequests', b) + Back(toDown', dropped', b)
    PROVE  Cover(b)'
<1>. DEFINE x == Num(requests, b)
            y == Num(peerRequests, b)
            z == Back(toDown, dropped, b)
            x2 == Num(requests', b)
            y2 == Num(peerRequests', b)
            z2 == Back(toDown', dropped', b)
<1>1. x \in Nat /\ y \in Nat /\ z \in Nat /\ x2 \in Nat /\ y2 \in Nat /\ z2 \in Nat
  BY Numbers
<1>2. toUp \in Seq(UpMsg) /\ toUp' = toUp
  BY DEF WType
<1>3. Covers(x, y, toUp, z, b)
  BY DEF Cover
<1>4. x2 + z <= x + z2 /\ x2 + y + z <= x + y2 + z2
  OBVIOUS
<1>. HIDE DEF x, y, z, x2, y2, z2
<1>5. Covers(x2, y2, toUp, z2, b)
  BY <1>1, <1>2, <1>3, <1>4, CoversMoved
<1>. QED
  BY <1>2, <1>5 DEF Cover, x2, y2, z2

(* A message is sent to the peer.                                          *)
LEMMA SentCover ==
    ASSUME WType, WType', NEW b \in Blocks, Cover(b), NEW m \in UpMsg, toUp' = Append(toUp, m),
           UNCHANGED <<peerRequests, toDown, dropped>>,
           Num(requests', b) + Weighs(m, {"cancel"}, b)
               <= Num(requests, b) + Weighs(m, {"request"}, b)
    PROVE  Cover(b)'
<1>. DEFINE x == Num(requests, b)
            y == Num(peerRequests, b)
            z == Back(toDown, dropped, b)
            x2 == Num(requests', b)
<1>1. x \in Nat /\ y \in Nat /\ z \in Nat /\ x2 \in Nat
  BY Numbers
<1>2. toUp \in Seq(UpMsg)
  BY DEF WType
<1>3. Covers(x, y, toUp, z, b)
  BY DEF Cover
<1>4. x2 + Weighs(m, {"cancel"}, b) <= x + Weighs(m, {"request"}, b)
  OBVIOUS
<1>. HIDE DEF x, y, z, x2
<1>5. Covers(x2, y, Append(toUp, m), z, b)
  BY <1>1, <1>2, <1>3, <1>4, CoversAppend
<1>. QED
  BY <1>5 DEF Cover, x2, y, z

(* The peer takes the first message.                                       *)
LEMMA TakenCover ==
    ASSUME WType, WType', NEW b \in Blocks, Cover(b), toUp # << >>, toUp' = Tail(toUp),
           UNCHANGED requests,
           Back(toDown, dropped, b) <= Back(toDown', dropped', b),
           Num(peerRequests, b) + Back(toDown, dropped, b) + Weighs(Head(toUp), {"request"}, b)
               <= Num(peerRequests', b) + Back(toDown', dropped', b)
                      + Weighs(Head(toUp), {"cancel"}, b)
    PROVE  Cover(b)'
<1>. DEFINE x == Num(requests, b)
            y == Num(peerRequests, b)
            z == Back(toDown, dropped, b)
            y2 == Num(peerRequests', b)
            z2 == Back(toDown', dropped', b)
<1>1. x \in Nat /\ y \in Nat /\ z \in Nat /\ y2 \in Nat /\ z2 \in Nat
  BY Numbers
<1>2. toUp \in Seq(UpMsg)
  BY DEF WType
<1>3. Covers(x, y, toUp, z, b)
  BY DEF Cover
<1>4. /\ z <= z2
      /\ y + z + Weighs(Head(toUp), {"request"}, b) <= y2 + z2 + Weighs(Head(toUp), {"cancel"}, b)
  OBVIOUS
<1>. HIDE DEF x, y, z, y2, z2
<1>5. Covers(x, y2, Tail(toUp), z2, b)
  BY <1>1, <1>2, <1>3, <1>4, CoversTail
<1>. QED
  BY <1>5 DEF Cover, x, y2, z2

LEMMA RequestCover ==
    ASSUME WType, WType', NEW c \in Blocks, Request(c), NEW b \in Blocks, Cover(b)
    PROVE  Cover(b)'
<1>. DEFINE r == [id |-> issued + 1, block |-> c]
<1>1. UNCHANGED <<peerRequests, toDown, dropped>>
  BY DEF Request, upVars
<1>2. CASE UNCHANGED <<requests, toUp>>
  <2>1. /\ Num(requests, b) \in Nat /\ Num(peerRequests, b) \in Nat
        /\ Back(toDown, dropped, b) \in Nat
    BY Numbers
  <2>. QED
    BY <1>1, <1>2, <2>1, MovedCover
<1>3. CASE requests' = Append(requests, r) /\ toUp' = Append(toUp, RequestMsg(r))
  <2>1. r \in Req /\ RequestMsg(r) \in UpMsg
    <3>1. /\ Len(requests) \in Nat /\ requests' \in Seq(Req) /\ Len(requests') = Len(requests) + 1
          /\ requests'[Len(requests) + 1] = r
      BY <1>3 DEF WType
    <3>2. r \in Req
      BY <3>1, ElementOfSeq
    <3>. QED
      BY <3>2, Messages DEF Req
  <2>2. Num(requests', b) = Num(requests, b) + (IF c = b THEN 1 ELSE 0)
    BY <1>3, <2>1, NumAppend DEF WType
  <2>3. /\ Weighs(RequestMsg(r), {"request"}, b) = IF c = b THEN 1 ELSE 0
        /\ Weighs(RequestMsg(r), {"cancel"}, b) = 0
    BY DEF Weighs, RequestMsg
  <2>4. Num(requests, b) \in Nat
    BY Numbers
  <2>. HIDE DEF r
  <2>5. Num(requests', b) + Weighs(RequestMsg(r), {"cancel"}, b)
            <= Num(requests, b) + Weighs(RequestMsg(r), {"request"}, b)
    BY <2>2, <2>3, <2>4
  <2>. QED
    BY <1>1, <1>3, <2>1, <2>5, SentCover
<1>. QED
  BY <1>2, <1>3 DEF Request

LEMMA CancelCover ==
    ASSUME WType, WType', NEW c \in Blocks, Cancel(c), NEW b \in Blocks, Cover(b)
    PROVE  Cover(b)'
<1>1. /\ UNCHANGED <<peerRequests, toDown, dropped>> /\ Matching(requests, c) # {}
      /\ requests' = Pull(requests, c) /\ toUp' = Append(toUp, BlockMsg("cancel", c))
  BY DEF Cancel, Answer, upVars
<1>2. Num(requests', b) = IF b = c THEN Num(requests, b) - 1 ELSE Num(requests, b)
  BY <1>1, NumPull DEF WType
<1>3. /\ Weighs(BlockMsg("cancel", c), {"cancel"}, b) = IF c = b THEN 1 ELSE 0
      /\ Weighs(BlockMsg("cancel", c), {"request"}, b) = 0
  BY Weights
<1>4. Num(requests, b) \in Nat
  BY Numbers
<1>5. Num(requests', b) + Weighs(BlockMsg("cancel", c), {"cancel"}, b)
          <= Num(requests, b) + Weighs(BlockMsg("cancel", c), {"request"}, b)
  BY <1>2, <1>3, <1>4
<1>6. BlockMsg("cancel", c) \in UpMsg
  BY Messages
<1>. QED
  BY <1>1, <1>5, <1>6, SentCover

(* A piece, or a reject, answers the first request for its block.          *)
LEMMA AnswerCover ==
    ASSUME WType, WType', NEW type \in {"piece", "reject"}, ToDown(type),
           Answer(Head(toDown).block), NEW b \in Blocks, Cover(b)
    PROVE  Cover(b)'
<1>. DEFINE c == Head(toDown).block
<1>1. /\ toDown # << >> /\ toDown' = Tail(toDown) /\ Head(toDown).type = type
      /\ UNCHANGED <<peerRequests, dropped, toUp>>
  BY FromUp DEF WType, upVars
<1>2. Weighs(Head(toDown), {"piece", "reject"}, b) = IF c = b THEN 1 ELSE 0
  BY <1>1 DEF Weighs
<1>3. Back(toDown, dropped, b) = Back(toDown', dropped', b) + (IF c = b THEN 1 ELSE 0)
  <2>1. Back(toDown, dropped, b)
            = Back(Tail(toDown), dropped, b) + Weighs(Head(toDown), {"piece", "reject"}, b)
    <3>1. toDown \in Seq(DownMsg) /\ toDown # << >> /\ dropped \in [Blocks -> Nat]
      BY <1>1 DEF WType
    <3>. QED
      BY <3>1, BackTail
  <2>2. toDown' = Tail(toDown) /\ dropped' = dropped
    BY <1>1
  <2>. QED
    BY <1>2, <2>1, <2>2
<1>4. requests' = Pull(requests, c)
  BY DEF Answer
<1>5. /\ Num(requests', b) = IF b = c /\ Matching(requests, c) # {}
                              THEN Num(requests, b) - 1 ELSE Num(requests, b)
      /\ Num(requests, b) = 0 <=> Matching(requests, b) = {}
  BY <1>4, NumPull, NumType DEF WType
<1>6. /\ Num(requests, b) \in Nat /\ Num(requests', b) \in Nat /\ Num(peerRequests, b) \in Nat
      /\ Back(toDown', dropped', b) \in Nat
  BY Numbers
<1>. HIDE DEF c
<1>7. CASE b = c /\ Matching(requests, c) = {}
  <2>1. Num(requests', b) = 0
    BY <1>5, <1>7
  <2>. QED
    BY <2>1, EmptyCover
<1>8. CASE ~(b = c /\ Matching(requests, c) = {})
  <2>1. /\ Num(requests', b) + Back(toDown, dropped, b)
               <= Num(requests, b) + Back(toDown', dropped', b)
        /\ Num(requests', b) + Num(peerRequests, b) + Back(toDown, dropped, b)
               <= Num(requests, b) + Num(peerRequests, b) + Back(toDown', dropped', b)
    BY <1>3, <1>5, <1>6, <1>8
  <2>. QED
    BY <1>1, <2>1, MovedCover
<1>. QED
  BY <1>7, <1>8

(* A message that answers nothing.                                         *)
LEMMA OtherCover ==
    ASSUME WType, WType', NEW type \in {"choke", "unchoke"}, ToDown(type), UNCHANGED requests,
           NEW b \in Blocks, Cover(b)
    PROVE  Cover(b)'
<1>1. /\ toDown # << >> /\ toDown' = Tail(toDown) /\ Head(toDown).type = type
      /\ UNCHANGED <<peerRequests, dropped, toUp>>
  BY FromUp DEF WType, upVars
<1>2. Weighs(Head(toDown), {"piece", "reject"}, b) = 0
  BY <1>1 DEF Weighs
<1>3. Back(toDown, dropped, b) = Back(toDown', dropped', b) + 0
  BY <1>1, <1>2, BackTail DEF WType
<1>4. /\ Num(requests, b) \in Nat /\ Num(peerRequests, b) \in Nat
      /\ Back(toDown', dropped', b) \in Nat
  BY Numbers
<1>5. /\ Num(requests', b) + Back(toDown, dropped, b)
             <= Num(requests, b) + Back(toDown', dropped', b)
      /\ Num(requests', b) + Num(peerRequests, b) + Back(toDown, dropped, b)
             <= Num(requests, b) + Num(peerRequests', b) + Back(toDown', dropped', b)
  BY <1>1, <1>3, <1>4
<1>. QED
  BY <1>1, <1>5, MovedCover

(* The peer gives up n of its requests for c, or none.                     *)
LEMMA GivenUp ==
    ASSUME NEW s \in Seq(Req), NEW b \in Blocks, NEW c \in Blocks
    PROVE  /\ Cardinality(Pulled(s, c)) \in 0 .. 1
           /\ Num(Pull(s, c), b) + (IF b = c THEN Cardinality(Pulled(s, c)) ELSE 0) = Num(s, b)
<1>1. Cardinality(Pulled(s, c)) = IF Matching(s, c) = {} THEN 0 ELSE 1
  BY PulledSize
<1>2. Num(Pull(s, c), b) = IF b = c /\ Matching(s, c) # {} THEN Num(s, b) - 1 ELSE Num(s, b)
  BY NumPull
<1>3. Num(s, b) \in Nat
  BY NumType
<1>. QED
  BY <1>1, <1>2, <1>3

LEMMA TakeRequestCover ==
    ASSUME WType, WType', OnRequest, hasFast \/ ~amChoking \/ Fast(Head(toUp).block),
           NEW b \in Blocks, Cover(b)
    PROVE  Cover(b)'
<1>. DEFINE c == Head(toUp).block
            r == [id |-> Head(toUp).id, block |-> c]
            y == Num(peerRequests, b)
            z == Back(toDown, dropped, b)
            y2 == Num(peerRequests', b)
            z2 == Back(toDown', dropped', b)
            e == IF b = c THEN 1 ELSE 0
<1>1. /\ toUp # << >> /\ toUp' = Tail(toUp) /\ Head(toUp) \in UpMsg /\ Head(toUp).type = "request"
      /\ UNCHANGED requests
  BY FromDown DEF OnRequest, WType, downVars
<1>2. c \in Blocks /\ r \in Req
  BY <1>1, Messages DEF Req
<1>3. /\ Weighs(Head(toUp), {"request"}, b) = e /\ Weighs(Head(toUp), {"cancel"}, b) = 0
  BY <1>1 DEF Weighs
<1>4. y \in Nat /\ z \in Nat /\ y2 \in Nat /\ z2 \in Nat /\ e \in Nat
  BY Numbers
<1>5. z <= z2 /\ y + z + e <= y2 + z2
  <2>1. CASE /\ peerRequests' = Append(peerRequests, r) /\ UNCHANGED <<dropped, toDown>>
    <3>1. Num(Append(peerRequests, r), b) = y + (IF r.block = b THEN 1 ELSE 0)
      BY <1>2, NumAppend DEF WType
    <3>2. r.block = c
      OBVIOUS
    <3>3. y2 = y + e /\ z2 = z
      BY <2>1, <3>1, <3>2
    <3>. HIDE DEF y, z, y2, z2, e
    <3>. QED
      BY <1>4, <3>3
  <2>2. CASE /\ peerRequests' = Pull(peerRequests, c) /\ Drop(c, Pulled(peerRequests, c))
             /\ toDown' = Append(toDown, BlockMsg("reject", c))
    <3>. DEFINE n == Cardinality(Pulled(peerRequests, c))
                d == IF b = c THEN n ELSE 0
    <3>1. n \in 0 .. 1 /\ Num(Pull(peerRequests, c), b) + d = y
      BY <1>2, GivenUp DEF WType
    <3>2. BlockMsg("reject", c) \in DownMsg
      BY <1>2, Messages
    <3>3. Weighs(BlockMsg("reject", c), {"piece", "reject"}, b) = e
      BY Weights
    <3>4. z2 = Back(toDown, dropped', b) + e
      <4>. DEFINE m == BlockMsg("reject", c)
      <4>1. dropped' \in [Blocks -> Nat] /\ toDown \in Seq(DownMsg)
        BY DEF WType
      <4>2. m \in DownMsg /\ toDown' = Append(toDown, m) /\ Weighs(m, {"piece", "reject"}, b) = e
        BY <2>2, <3>2, <3>3
      <4>. HIDE DEF m, e
      <4>3. Back(Append(toDown, m), dropped', b) = Back(toDown, dropped', b) + e
        BY <4>1, <4>2, BackAppend
      <4>. QED
        BY <4>2, <4>3
    <3>5. Back(toDown, dropped', b) = z + d
      <4>1. n \in Nat
        BY <3>1
      <4>. QED
        BY <1>2, <2>2, <4>1, BackDrop DEF WType
    <3>6. z2 = (z + d) + e /\ y2 + d = y /\ d \in Nat
      BY <2>2, <3>1, <3>4, <3>5
    <3>. HIDE DEF y, z, y2, z2, e, d
    <3>. QED
      BY <1>4, <3>6
  <2>. QED
    BY <2>1, <2>2 DEF OnRequest
<1>6. y + z + Weighs(Head(toUp), {"request"}, b) <= y2 + z2 + Weighs(Head(toUp), {"cancel"}, b)
  <2>. HIDE DEF y, z, y2, z2, e
  <2>. QED
    BY <1>3, <1>4, <1>5
<1>. QED
  BY <1>1, <1>5, <1>6, TakenCover

LEMMA TakeCancelCover ==
    ASSUME WType, WType', OnCancel, NEW b \in Blocks, Cover(b)
    PROVE  Cover(b)'
<1>. DEFINE c == Head(toUp).block
            y == Num(peerRequests, b)
            z == Back(toDown, dropped, b)
            y2 == Num(peerRequests', b)
            e == IF b = c THEN 1 ELSE 0
            d == IF b = c THEN Cardinality(Pulled(peerRequests, c)) ELSE 0
<1>1. /\ toUp # << >> /\ toUp' = Tail(toUp) /\ Head(toUp) \in UpMsg /\ Head(toUp).type = "cancel"
      /\ UNCHANGED <<requests, dropped, toDown>>
  BY FromDown DEF OnCancel, WType, downVars
<1>2. c \in Blocks
  BY <1>1, Messages
<1>3. /\ Weighs(Head(toUp), {"request"}, b) = 0 /\ Weighs(Head(toUp), {"cancel"}, b) = e
  BY <1>1 DEF Weighs
<1>4. y \in Nat /\ z \in Nat /\ y2 \in Nat /\ e \in Nat
  BY Numbers
<1>5. Cardinality(Pulled(peerRequests, c)) \in 0 .. 1 /\ y2 + d = y
  BY <1>2, GivenUp DEF OnCancel, WType
<1>6. d <= e /\ d \in Nat
  BY <1>5
<1>7. z = Back(toDown', dropped', b)
  BY <1>1
<1>8. y + z + Weighs(Head(toUp), {"request"}, b) <= y2 + z + Weighs(Head(toUp), {"cancel"}, b)
  <2>. HIDE DEF y, z, y2, e, d
  <2>. QED
    BY <1>3, <1>4, <1>5, <1>6
<1>9. z <= z
  BY <1>4
<1>. QED
  BY <1>1, <1>7, <1>8, <1>9, TakenCover

LEMMA RespondCover ==
    ASSUME WType, WType', NEW r \in responding, NEW ok \in BOOLEAN, Respond(r, ok),
           NEW b \in Blocks, Cover(b)
    PROVE  Cover(b)'
<1>. DEFINE c == r.block
            rest == Pull(peerRequests, c)
            x == Num(requests, b)
            y == Num(peerRequests, b)
            z == Back(toDown, dropped, b)
            y2 == Num(peerRequests', b)
            z2 == Back(toDown', dropped', b)
            n == Cardinality(Pulled(peerRequests, c))
            k == Cardinality(Pulled(rest, c))
            e == IF b = c THEN 1 ELSE 0
            d == IF b = c THEN n ELSE 0
            f == IF b = c THEN k ELSE 0
<1>1. c \in Blocks /\ UNCHANGED <<requests, toUp>>
  BY DEF Respond, downVars, WType, Req
<1>2. x \in Nat /\ y \in Nat /\ z \in Nat /\ y2 \in Nat /\ z2 \in Nat /\ e \in Nat
  BY Numbers
<1>3. /\ rest \in Seq(Req) /\ n \in 0 .. 1 /\ Num(rest, b) + d = y
  BY <1>1, GivenUp, PullType DEF WType
<1>4. k \in 0 .. 1 /\ Num(Pull(rest, c), b) + f = Num(rest, b)
  BY <1>1, <1>3, GivenUp
<1>5. d \in Nat /\ f \in Nat /\ d <= e /\ Num(rest, b) \in Nat /\ Num(Pull(rest, c), b) \in Nat
  BY <1>1, <1>3, <1>4, NumType, PullType
<1>6. \A type \in {"piece", "reject"} :
          /\ BlockMsg(type, c) \in DownMsg
          /\ Weighs(BlockMsg(type, c), {"piece", "reject"}, b) = e
  BY <1>1, Messages, Weights
<1>9. ASSUME NEW type \in {"piece", "reject"}, toDown' = Append(toDown, BlockMsg(type, c))
      PROVE  z2 = Back(toDown, dropped', b) + e
  <2>. DEFINE m == BlockMsg(type, c)
  <2>1. dropped' \in [Blocks -> Nat] /\ toDown \in Seq(DownMsg)
    BY DEF WType
  <2>2. m \in DownMsg /\ toDown' = Append(toDown, m) /\ Weighs(m, {"piece", "reject"}, b) = e
    BY <1>6, <1>9
  <2>. HIDE DEF m, e
  <2>3. Back(Append(toDown, m), dropped', b) = Back(toDown, dropped', b) + e
    BY <2>1, <2>2, BackAppend
  <2>. QED
    BY <2>2, <2>3
<1>7. z <= z2 /\ y + z <= y2 + z2
  <2>1. CASE peerRequests' = rest /\ Drop(c, Pulled(peerRequests, c)) /\ UNCHANGED toDown
    <3>1. z2 = z + d
      <4>1. n \in Nat
        BY <1>3
      <4>. QED
        BY <1>1, <2>1, <4>1, BackDrop DEF WType
    <3>2. y2 = Num(rest, b)
      BY <2>1
    <3>. HIDE DEF rest, y, z, y2, z2, d, n
    <3>. QED
      BY <1>2, <1>3, <1>5, <3>1, <3>2
  <2>2. CASE /\ peerRequests' = rest /\ toDown' = Append(toDown, BlockMsg("piece", c))
             /\ UNCHANGED dropped
    <3>1. z2 = z + e
      BY <1>9, <2>2
    <3>2. y2 = Num(rest, b)
      BY <2>2
    <3>. HIDE DEF rest, y, z, y2, z2, d, e
    <3>. QED
      BY <1>2, <1>3, <1>5, <3>1, <3>2
  <2>3. CASE /\ peerRequests' = Pull(rest, c) /\ toDown' = Append(toDown, BlockMsg("reject", c))
             /\ Drop(c, Pulled(rest, c))
    <3>1. z2 = Back(toDown, dropped', b) + e
      BY <1>9, <2>3
    <3>2. Back(toDown, dropped', b) = z + f
      <4>1. k \in Nat
        BY <1>4
      <4>. QED
        BY <1>1, <2>3, <4>1, BackDrop DEF WType
    <3>3. y2 = Num(Pull(rest, c), b) /\ z2 = (z + f) + e
      BY <2>3, <3>1, <3>2
    <3>. HIDE DEF rest, y, z, y2, z2, d, e, f
    <3>. QED
      BY <1>2, <1>3, <1>4, <1>5, <3>3
  <2>4. CASE peerRequests' = rest /\ Drop(c, {r}) /\ UNCHANGED toDown
    <3>1. Cardinality({r}) = 1
      BY SingletonCount
    <3>2. z2 = z + e
      <4>. DEFINE rs == {r}
      <4>1. Drop(c, rs) /\ Cardinality(rs) = 1 /\ UNCHANGED toDown
        BY <2>4, <3>1
      <4>2. toDown \in Seq(DownMsg) /\ dropped \in [Blocks -> Nat]
        BY DEF WType
      <4>. HIDE DEF rs
      <4>3. Back(toDown, dropped', b) = Back(toDown, dropped, b) + (IF b = c THEN Cardinality(rs) ELSE 0)
        BY <1>1, <4>1, <4>2, BackDrop
      <4>. QED
        BY <4>1, <4>3
    <3>3. y2 = Num(rest, b)
      BY <2>4
    <3>. HIDE DEF rest, y, z, y2, z2, d, e
    <3>. QED
      BY <1>2, <1>3, <1>5, <3>2, <3>3
  <2>. QED
    BY <2>1, <2>2, <2>3, <2>4 DEF Respond
<1>8. x + z <= x + z2 /\ x + y + z <= x + y2 + z2 /\ Num(requests', b) = x
  <2>1. Num(requests', b) = x
    BY <1>1
  <2>. HIDE DEF x, y, z, y2, z2
  <2>. QED
    BY <1>2, <1>7, <2>1
<1>. QED
  BY <1>1, <1>8, MovedCover

LEMMA ChokeCover ==
    ASSUME WType, WType', Choke, hasFast, NEW b \in Blocks, Cover(b)
    PROVE  Cover(b)'
<1>1. PICK kept, refused, f, g : Choked(kept, refused, f, g)
  BY ChokeParts
<1>. DEFINE s == peerRequests
            rej == Rejects(s, g)
            t == Append(toDown, Msg("choke"))
            z == Back(toDown, dropped, b)
            z2 == Back(toDown', dropped', b)
            PR == {"piece", "reject"}
<1>2. /\ UNCHANGED <<requests, dropped, toUp>>
      /\ kept = {i \in 1 .. Len(s) : Fast(s[i].block)} /\ refused = (1 .. Len(s)) \ kept
      /\ toDown' = t \o rej
  BY <1>1 DEF Choke, Choked, downVars
<1>3. rej \in Seq(DownMsg) /\ t \in Seq(DownMsg)
  BY <1>1, ChokedLists
<1>4. Num(s', b) = Among(s, kept, b) /\ Later(rej, PR, b, 0) = Among(s, refused, b)
  BY <1>1, ChokedLists
<1>5. Num(s, b) = Among(s, kept, b) + Among(s, refused, b) /\ Among(s, refused, b) \in Nat
  <2>. DEFINE K == {i \in kept : s[i].block = b}
              R == {i \in refused : s[i].block = b}
  <2>1. Len(s) \in Nat /\ K \in SUBSET (1 .. Len(s)) /\ R \in SUBSET (1 .. Len(s))
    BY <1>2, LenProperties DEF WType
  <2>2. Matching(s, b) = K \cup R /\ K \cap R = {}
    BY <1>2 DEF Matching
  <2>. HIDE DEF K, R
  <2>3. IsFiniteSet(K) /\ Cardinality(K) \in Nat /\ IsFiniteSet(R) /\ Cardinality(R) \in Nat
    BY <2>1, FiniteIndices
  <2>4. Cardinality(K \cup R) = Cardinality(K) + Cardinality(R) - Cardinality(K \cap R)
    BY <2>3, FS_Union
  <2>5. Cardinality(K \cap R) = 0
    BY <2>2, FS_EmptySet
  <2>6. Cardinality(K \cup R) = Cardinality(K) + Cardinality(R)
    BY <2>3, <2>4, <2>5
  <2>. QED
    BY <2>2, <2>3, <2>6 DEF Num, Among, K, R
<1>6. z2 = z + Among(s, refused, b)
  <2>1. Later(t \o rej, PR, b, 0) = Later(t, PR, b, 0) + Later(rej, PR, b, 0)
    BY <1>3, LaterConcat
  <2>2. Msg("choke") \in DownMsg /\ Weighs(Msg("choke"), PR, b) = 0
    BY Messages, Weights
  <2>3. 0 \in 0 .. Len(toDown) /\ toDown \in Seq(DownMsg) /\ dropped[b] \in Nat
    BY LenProperties DEF WType
  <2>. DEFINE l == Later(toDown, PR, b, 0)
              l2 == Later(t, PR, b, 0)
              l3 == Later(t \o rej, PR, b, 0)
              a == Among(s, refused, b)
  <2>4. l2 = l + 0 /\ l \in Nat
    BY <2>2, <2>3, LaterAppend, LaterType
  <2>5. z = l + dropped[b] /\ z2 = l3 + dropped[b] /\ l3 = l2 + a /\ a \in Nat
    BY <1>2, <1>4, <1>5, <2>1 DEF Back
  <2>6. z2 = z + a
    <3>. HIDE DEF z, z2, l, l2, l3, a
    <3>. QED
      BY <2>3, <2>4, <2>5
  <2>. QED
    BY <2>6
<1>7. /\ Num(requests, b) \in Nat /\ Num(s, b) \in Nat /\ z \in Nat /\ Num(s', b) \in Nat
      /\ Num(requests', b) = Num(requests, b)
  BY <1>2, Numbers
<1>8. /\ Num(requests', b) + z <= Num(requests, b) + z2
      /\ Num(requests', b) + Num(s, b) + z <= Num(requests, b) + Num(s', b) + z2
  <2>. HIDE DEF z, z2
  <2>. QED
    BY <1>4, <1>5, <1>6, <1>7
<1>. QED
  BY <1>2, <1>8, MovedCover

LEMMA UnchokeCover ==
    ASSUME WType, WType', Unchoke, NEW b \in Blocks, Cover(b)
    PROVE  Cover(b)'
<1>1. /\ UNCHANGED <<requests, peerRequests, dropped, toUp>>
      /\ toDown' = Append(toDown, Msg("unchoke"))
  BY DEF Unchoke, downVars
<1>2. Msg("unchoke") \in DownMsg /\ Weighs(Msg("unchoke"), {"piece", "reject"}, b) = 0
  BY Messages, Weights
<1>3. Back(toDown', dropped', b) = Back(toDown, dropped, b) + 0
  BY <1>1, <1>2, BackAppend DEF WType
<1>4. /\ Num(requests, b) \in Nat /\ Num(peerRequests, b) \in Nat
      /\ Back(toDown, dropped, b) \in Nat
  BY Numbers
<1>5. /\ Num(requests', b) + Back(toDown, dropped, b)
             <= Num(requests, b) + Back(toDown', dropped', b)
      /\ Num(requests', b) + Num(peerRequests, b) + Back(toDown, dropped, b)
             <= Num(requests, b) + Num(peerRequests', b) + Back(toDown', dropped', b)
  BY <1>1, <1>3, <1>4
<1>. QED
  BY <1>1, <1>5, MovedCover

(* What ends the connection, or a choke that comes, fails the requests.    *)
LEMMA StillFailing ==
    ASSUME WType, Failing, UNCHANGED hasFast,
           UNCHANGED down \/ down' # "open",
           \/ UNCHANGED toDown
           \/ \E m \in DownMsg : toDown' = Append(toDown, m)
           \/ \E m \in DownMsg, p \in Seq(DownMsg) : toDown' = Append(toDown, m) \o p
           \/ /\ toDown # << >> /\ toDown' = Tail(toDown)
              /\ Head(toDown).type # "eof" /\ (Head(toDown).type = "choke" => hasFast)
    PROVE  Failing'
<1>1. toDown \in Seq(DownMsg)
  BY DEF WType
<1>2. Failing' <=> down' # "open" \/ Ends(toDown', hasFast')
  BY DEF Failing, Members, Ends
<1>3. Ends(toDown, hasFast) => Ends(toDown', hasFast)
  <2>. SUFFICES ASSUME Ends(toDown, hasFast) PROVE Ends(toDown', hasFast)
    OBVIOUS
  <2>1. ASSUME NEW m \in DownMsg PROVE Ends(Append(toDown, m), hasFast) /\ Append(toDown, m) \in Seq(DownMsg)
    BY <1>1, EndsAppend
  <2>2. ASSUME NEW m \in DownMsg, NEW p \in Seq(DownMsg) PROVE Ends(Append(toDown, m) \o p, hasFast)
    BY <2>1, EndsConcat
  <2>3. CASE /\ toDown # << >> /\ toDown' = Tail(toDown)
             /\ Head(toDown).type # "eof" /\ (Head(toDown).type = "choke" => hasFast)
    BY <1>1, <2>3, EndsTail
  <2>. QED
    BY <2>1, <2>2, <2>3
<1>. QED
  BY <1>2, <1>3, FailingIs

LEMMA NextCovered ==
    ASSUME WInv, [Next]_vars
    PROVE  Covered'
<1>. SUFFICES ASSUME NEW b \in Blocks, ~Failing' PROVE Cover(b)'
  BY DEF Covered
<1>0. /\ WType /\ WType' /\ Listed /\ Told /\ toDown \in Seq(DownMsg) /\ toUp \in Seq(UpMsg)
      /\ ~Failing => Cover(b)
  BY NextType DEF WInv, WType, Covered
<1>1. down' = "open"
  BY DEF Failing
<1>2. ASSUME UNCHANGED <<hasFast, toDown>>, UNCHANGED down \/ down' # "open" PROVE ~Failing
  BY <1>0, <1>2, StillFailing
<1>3. ASSUME UNCHANGED <<hasFast, down>>, NEW m \in DownMsg, toDown' = Append(toDown, m)
      PROVE  ~Failing /\ m.type # "eof" /\ (m.type = "choke" => hasFast)
  <2>1. ~Failing
    BY <1>0, <1>3, StillFailing
  <2>2. Failing' <=> down' # "open" \/ Ends(toDown', hasFast')
    BY DEF Failing, Members, Ends
  <2>3. m.type = "eof" \/ (m.type = "choke" /\ ~hasFast) => Ends(Append(toDown, m), hasFast)
    BY <1>0, <1>3, EndsAppend
  <2>. QED
    BY <1>3, <2>1, <2>2, <2>3
<1>4. ASSUME NEW type, ToDown(type), type # "eof", type = "choke" => hasFast,
             UNCHANGED down \/ down' # "open"
      PROVE  ~Failing
  <2>1. /\ toDown # << >> /\ toDown' = Tail(toDown) /\ Head(toDown).type = type
        /\ UNCHANGED hasFast
    BY <1>0, <1>4, FromUp
  <2>. QED
    BY <1>0, <1>4, <2>1, StillFailing
<1>5. ASSUME requests' = << >> PROVE Cover(b)'
  <2>1. Num(requests', b) = 0
    BY <1>5, NumEmpty
  <2>. QED
    BY <1>0, <2>1, EmptyCover
<1>6. CASE UNCHANGED vars
  <2>1. ~Failing /\ UNCHANGED <<requests, peerRequests, toUp, toDown, dropped>>
    BY <1>2, <1>6 DEF vars, downVars, upVars
  <2>. QED
    BY <1>0, <2>1 DEF Cover
<1>7. ASSUME NEW c \in Blocks, Request(c) PROVE Cover(b)'
  <2>1. ~Failing
    BY <1>2, <1>7 DEF Request
  <2>. QED
    BY <1>0, <1>7, <2>1, RequestCover
<1>8. ASSUME NEW c \in Blocks, Cancel(c) PROVE Cover(b)'
  <2>1. ~Failing
    BY <1>2, <1>8 DEF Cancel
  <2>. QED
    BY <1>0, <1>8, <2>1, CancelCover
<1>9. CASE End \/ OnTimeout \/ Finish \/ OnEof
  BY <1>0, <1>1, <1>9 DEF End, OnTimeout, Finish, OnEof, WType
<1>10. CASE OnChoke
  <2>1. CASE hasFast
    <3>1. ToDown("choke") /\ UNCHANGED <<requests, down>>
      BY <1>10, <2>1 DEF OnChoke, LocalChoke
    <3>2. ~Failing
      BY <1>4, <2>1, <3>1
    <3>. QED
      BY <1>0, <3>1, <3>2, OtherCover
  <2>2. CASE ~hasFast
    BY <1>5, <1>10, <2>2 DEF OnChoke, LocalChoke, FailAll
  <2>. QED
    BY <2>1, <2>2
<1>11. CASE OnUnchoke
  <2>1. ToDown("unchoke") /\ UNCHANGED <<requests, down>>
    BY <1>11 DEF OnUnchoke
  <2>2. ~Failing
    BY <1>4, <2>1
  <2>. QED
    BY <1>0, <2>1, <2>2, OtherCover
<1>12. ASSUME NEW type \in {"piece", "reject"}, ToDown(type), Answer(Head(toDown).block),
              UNCHANGED down
       PROVE  Cover(b)'
  <2>1. ~Failing
    BY <1>4, <1>12
  <2>. QED
    BY <1>0, <1>12, <2>1, AnswerCover
<1>13. CASE OnRequest
  <2>1. /\ toUp # << >> /\ Head(toUp) \in UpMsg /\ Head(toUp).type = "request"
        /\ UNCHANGED <<hasFast, down, requests>>
    BY <1>0, <1>13, FromDown DEF OnRequest, downVars
  <2>2. CASE amChoking /\ ~Fast(Head(toUp).block) /\ ~hasFast
    <3>1. UNCHANGED toDown
      BY <1>13, <2>2 DEF OnRequest
    <3>2. ~Failing
      BY <1>2, <2>1, <3>1
    <3>3. \A i \in 1 .. Len(toDown) : toDown[i].type # "choke"
      BY <2>2, <3>2, FailingIs DEF Ends
    <3>4. peerChoking
      BY <1>0, <2>2, <3>3 DEF Told, ToldBy
    <3>5. requests' = << >>
      BY <1>0, <2>1, <2>2, <3>4 DEF Listed
    <3>. QED
      BY <1>5, <3>5
  <2>3. CASE hasFast \/ ~amChoking \/ Fast(Head(toUp).block)
    <3>1. \/ UNCHANGED toDown
          \/ toDown' = Append(toDown, BlockMsg("reject", Head(toUp).block))
      BY <1>13 DEF OnRequest
    <3>2. BlockMsg("reject", Head(toUp).block) \in DownMsg
      BY <2>1, Messages
    <3>3. ~Failing
      BY <1>2, <1>3, <2>1, <3>1, <3>2
    <3>. QED
      BY <1>0, <1>13, <2>3, <3>3, TakeRequestCover
  <2>. QED
    BY <1>0, <2>2, <2>3 DEF WInv, OnlyFast
<1>14. CASE OnCancel
  <2>1. UNCHANGED <<hasFast, down, toDown>>
    BY <1>14 DEF OnCancel, ToUp, downVars
  <2>2. ~Failing
    BY <1>2, <2>1
  <2>. QED
    BY <1>0, <1>14, <2>2, TakeCancelCover
<1>15. ASSUME NEW r \in responding, NEW ok \in BOOLEAN, Respond(r, ok) PROVE Cover(b)'
  <2>1. UNCHANGED <<hasFast, down>> /\ r.block \in Blocks
    BY <1>0, <1>15 DEF Respond, downVars, WType, Req
  <2>2. \/ UNCHANGED toDown
        \/ toDown' = Append(toDown, BlockMsg("piece", r.block))
        \/ toDown' = Append(toDown, BlockMsg("reject", r.block))
    BY <1>15 DEF Respond
  <2>3. BlockMsg("piece", r.block) \in DownMsg /\ BlockMsg("reject", r.block) \in DownMsg
    BY <2>1, Messages
  <2>4. ~Failing
    BY <1>2, <1>3, <2>1, <2>2, <2>3
  <2>. QED
    BY <1>0, <1>15, <2>4, RespondCover
<1>16. CASE Choke
  <2>1. UNCHANGED <<hasFast, down>>
    BY <1>16 DEF Choke, downVars
  <2>2. PICK kept, refused, f, g : Choked(kept, refused, f, g)
    BY <1>16, ChokeParts
  <2>. DEFINE rej == Rejects(peerRequests, g)
              t == Append(toDown, Msg("choke"))
  <2>3. /\ toDown' = t \o rej /\ rej \in Seq(DownMsg) /\ t \in Seq(DownMsg)
        /\ Msg("choke") \in DownMsg
    BY <1>0, <2>2, ChokedLists, Messages, SMTT(30) DEF Choked
  <2>4. ~Failing
    BY <1>0, <2>1, <2>3, StillFailing
  <2>5. hasFast
    <3>1. Msg("choke").type = "choke"
      BY DEF Msg
    <3>2. ~hasFast => Ends(t, hasFast)
      BY <1>0, <2>3, <3>1, EndsAppend
    <3>3. Ends(t, hasFast) => Ends(t \o rej, hasFast)
      BY <2>3, EndsConcat
    <3>4. Failing' <=> down' # "open" \/ Ends(toDown', hasFast')
      BY DEF Failing, Members, Ends
    <3>. QED
      BY <2>1, <2>3, <3>2, <3>3, <3>4
  <2>. QED
    BY <1>0, <1>16, <2>4, <2>5, ChokeCover
<1>17. CASE Unchoke
  <2>1. UNCHANGED <<hasFast, down>> /\ toDown' = Append(toDown, Msg("unchoke"))
    BY <1>17 DEF Unchoke, downVars
  <2>2. Msg("unchoke") \in DownMsg
    BY Messages
  <2>3. ~Failing
    BY <1>3, <2>1, <2>2
  <2>. QED
    BY <1>0, <1>17, <2>3, UnchokeCover
<1>18. CASE Close
  <2>1. UNCHANGED <<hasFast, down>> /\ toDown' = Append(toDown, Msg("eof"))
    BY <1>18 DEF Close, downVars
  <2>2. Msg("eof") \in DownMsg /\ Msg("eof").type = "eof"
    BY Messages DEF Msg
  <2>. QED
    BY <1>3, <2>1, <2>2
<1>19. CASE OnPiece
  BY <1>12, <1>19 DEF OnPiece
<1>20. CASE OnReject
  BY <1>12, <1>20 DEF OnReject
<1>. QED
  BY <1>6, <1>7, <1>8, <1>9, <1>10, <1>11, <1>13, <1>14, <1>15, <1>16, <1>17, <1>18, <1>19,
     <1>20 DEF Next

-----------------------------------------------------------------------------
(* The invariant holds from the start.                                     *)
LEMMA InitWInv == Init => WInv
<1>. SUFFICES ASSUME Init PROVE WInv
  OBVIOUS
<1>1. WType
  BY DEF Init, WType
<1>2. Listed
  <2>1. Accounts({}, issued, calls)
    BY BoundsAssumption DEF Init, Accounts
  <2>. QED
    BY <2>1, NoRequest DEF Init, Listed
<1>3. Told
  BY DEF Init, Told, ToldBy
<1>4. OnlyFast
  BY DEF Init, OnlyFast, AllFast
<1>5. Covered
  <2>. SUFFICES ASSUME NEW b \in Blocks PROVE Cover(b)
    BY DEF Covered
  <2>1. /\ Num(requests, b) = 0 /\ Num(peerRequests, b) \in Nat /\ toUp \in Seq(UpMsg)
        /\ Back(toDown, dropped, b) \in Nat
    BY <1>1, NumEmpty, NumType, BackType DEF WType, Init
  <2>2. Covers(0, Num(peerRequests, b), toUp, Back(toDown, dropped, b), b)
    BY <2>1, CoversNone
  <2>. QED
    BY <2>1, <2>2 DEF Cover
<1>. QED
  BY <1>1, <1>2, <1>3, <1>4, <1>5 DEF WInv

LEMMA AlwaysWInv == Spec => []WInv
<1>1. Init => WInv
  BY InitWInv
<1>2. WInv /\ [Next]_vars => WInv'
  BY NextType, NextListed, NextTold, NextOnlyFast, NextCovered DEF WInv
<1>. QED
  BY <1>1, <1>2, PTL DEF Spec

-----------------------------------------------------------------------------
LEMMA CountIs ==
    \A q, types, b : Count(q, types, b) = Later(q, types, b, 0)
<1>. SUFFICES ASSUME NEW q, NEW types, NEW b
              PROVE  Count(q, types, b) = Later(q, types, b, 0)
  OBVIOUS
<1>1. After(q, types, b, 0) =
          {i \in 1 .. Len(q) : q[i].type \in types /\ q[i].block = b}
  BY DEF After
<1>. QED
  BY <1>1 DEF Count, Later

LEMMA LaterLess ==
    ASSUME NEW S, NEW q \in Seq(S), NEW types, NEW b, NEW k \in 0 .. Len(q)
    PROVE  Later(q, types, b, k) <= Later(q, types, b, 0)
<1>1. After(q, types, b, k) \subseteq After(q, types, b, 0)
  BY DEF After
<1>2. IsFiniteSet(After(q, types, b, 0))
  BY LaterType
<1>. QED
  BY <1>1, <1>2, FS_Subset DEF Later

(* Covered requests have something on its way.                             *)
LEMMA CoveredPending ==
    ASSUME WType, NEW b \in Blocks, Cover(b)
    PROVE  Cardinality(Matching(requests, b)) <= Pending(b) + dropped[b]
<1>. DEFINE x == Num(requests, b)
            y == Num(peerRequests, b)
            l == Later(toDown, {"piece", "reject"}, b, 0)
            z == Back(toDown, dropped, b)
            n == Later(toUp, {"request"}, b, 0)
<1>1. /\ toUp \in Seq(UpMsg) /\ toDown \in Seq(DownMsg) /\ dropped[b] \in Nat
      /\ requests \in Seq(Req) /\ peerRequests \in Seq(Req)
  BY DEF WType
<1>2. PICK k \in 0 .. Len(toUp) :
          x <= (IF k = 0 THEN y ELSE 0)
                   + Later(toUp, {"request"}, b, k) - Later(toUp, {"cancel"}, b, k) + z
  BY DEF Cover, Covers
<1>. DEFINE rk == Later(toUp, {"request"}, b, k)
            ck == Later(toUp, {"cancel"}, b, k)
<1>3. /\ x \in Nat /\ y \in Nat /\ l \in Nat /\ n \in Nat /\ rk \in Nat /\ ck \in Nat
      /\ z = l + dropped[b] /\ rk <= n
  BY <1>1, NumType, LaterType, LaterLess DEF Back
<1>4. Pending(b) = n + y + l
  BY CountIs DEF Pending, Num
<1>5. x <= (IF k = 0 THEN y ELSE 0) + rk - ck + z
  BY <1>2
<1>. DEFINE d == dropped[b]
            p == Pending(b)
<1>6. d \in Nat /\ z = l + d /\ p = n + y + l
  BY <1>1, <1>3, <1>4
<1>. HIDE DEF x, y, l, z, n, rk, ck, d, p
<1>7. x <= y + rk + z
  <2>1. CASE k = 0
    BY <1>3, <1>5, <1>6, <2>1
  <2>2. CASE k # 0
    BY <1>3, <1>5, <1>6, <2>2
  <2>. QED
    BY <2>1, <2>2
<1>8. x <= p + d
  BY <1>3, <1>6, <1>7
<1>. QED
  BY <1>8 DEF x, d, p, Num

(* Every request has exactly one callback, and one that is listed has an   *)
(* answer on its way, is with the peer, or was discarded there: for any    *)
(* blocks, any number of requests, duplicates among them.                  *)
THEOREM RequestsAreKept == Spec => []RequestsKept
<1>1. WInv => RequestsKept
  <2>. SUFFICES ASSUME WInv PROVE Accounted /\ Conserved
    BY DEF RequestsKept
  <2>1. Accounted
    <3>1. \A i : (\E r \in Members(requests) : r.id = i) <=> i \in IdsOf(requests)
      BY DEF Members, IdsOf
    <3>2. Accounts(IdsOf(requests), issued, calls)
      BY DEF WInv, Listed
    <3>3. \A i \in IdsOf(requests) : i <= issued
      BY <3>2 DEF Accounts
    <3>. QED
      BY <3>1, <3>2, <3>3 DEF Accounted, Accounts
  <2>2. Conserved
    BY CoveredPending DEF Conserved, WInv, Covered
  <2>. QED
    BY <2>1, <2>2
<1>. QED
  BY <1>1, AlwaysWInv, PTL

(* A choking end sends no piece but one of an allowed fast block.          *)
THEOREM ChokedSendsFast == Spec => NoPieceWhileChoking
<1>. DEFINE Piece(b) == BlockMsg("piece", b)
            A == \A b \in Blocks : toDown' = Append(toDown, Piece(b)) => ~amChoking \/ Fast(b)
<1>1. WInv /\ [Next]_vars => [A]_vars
  <2>. SUFFICES ASSUME WInv, Next, NEW b \in Blocks, toDown' = Append(toDown, Piece(b)), amChoking
                PROVE  Fast(b)
    OBVIOUS
  <2>0. /\ toDown \in Seq(DownMsg) /\ peerRequests \in Seq(Req) /\ AllFast(peerRequests)
    BY DEF WInv, WType, OnlyFast
  <2>1. Piece(b).type = "piece" /\ Piece(b).block = b
    BY DEF BlockMsg
  <2>. HIDE DEF Piece
  <2>2. Len(toDown) \in Nat /\ Len(toDown') = Len(toDown) + 1 /\ toDown'[Len(toDown) + 1] = Piece(b)
    BY <2>0
  <2>3. ~UNCHANGED toDown
    BY <2>2
  <2>4. \A type : ~ToDown(type)
    <3>1. toDown # << >> => Len(Tail(toDown)) = Len(toDown) - 1
      BY <2>0, HeadTailProperties
    <3>. QED
      BY <2>2, <3>1 DEF ToDown
  <2>5. \A m : toDown' = Append(toDown, m) => m = Piece(b)
    <3>1. \A m : Append(toDown, m)[Len(toDown) + 1] = m
      BY <2>0
    <3>. QED
      BY <2>2, <3>1
  <2>6. \A c : toDown' # Append(toDown, BlockMsg("reject", c))
    BY <2>1, <2>5 DEF BlockMsg
  <2>7. \A type \in {"unchoke", "eof"} : toDown' # Append(toDown, Msg(type))
    BY <2>1, <2>5 DEF Msg
  <2>8. PICK r \in responding, ok \in BOOLEAN : Respond(r, ok)
    BY <2>3, <2>4, <2>6, <2>7
       DEF Next, Request, Cancel, End, OnTimeout, Finish, OnChoke, OnUnchoke, OnPiece, OnReject,
           OnEof, OnRequest, OnCancel, Choke, Unchoke, Close
  <2>9. Pulled(peerRequests, r.block) = {r} /\ toDown' = Append(toDown, BlockMsg("piece", r.block))
    BY <2>3, <2>6, <2>8 DEF Respond
  <2>10. r.block = b
    BY <2>1, <2>5, <2>9 DEF BlockMsg
  <2>11. \E i \in 1 .. Len(peerRequests) : peerRequests[i].block = b
    <3>1. Matching(peerRequests, b) # {}
      BY <2>9, <2>10 DEF Pulled
    <3>. QED
      BY <3>1 DEF Matching
  <2>. QED
    BY <2>0, <2>11 DEF AllFast
<1>2. Spec => [][A]_vars
  BY <1>1, AlwaysWInv, PTL DEF Spec
<1>. QED
  BY <1>2 DEF NoPieceWhileChoking

-----------------------------------------------------------------------------
(* The metadata.                                                           *)

(* A peer that is not rude: what it was asked for and what has come are    *)
(* apart, so that one hash at a time runs, and no data comes meanwhile.    *)
Gentle(x) ==
    /\ x.bits \cap x.asked = {}
    /\ ~x.touched
    /\ x.fetching => x.emits = 0
    /\ x.shakes = 0 => x.size = "none" /\ x.bits = {} /\ x.checks = << >>
    /\ \/ x.checks = << >>
       \/ /\ \E c \in Check : x.checks = <<c>>
          /\ x.asked = {} /\ x.bits = Pieces /\ Pieces # {} /\ x.fetching
    /\ x.fetching /\ x.size # "none" =>
          \/ x.checks # << >>
          \/ x.rejects = 0
          \/ x.bits # Pieces /\ Pieces \ x.bits \subseteq x.asked

(* A hash says that the bytes were right, and they still are unless data   *)
(* came meanwhile.                                                         *)
HashesRight(x) ==
    \A i \in DOMAIN x.checks : x.checks[i].ok => x.touched \/ x.checks[i].array = Pieces

UtOk(k, x) ==
    /\ x \in Ut
    /\ x.fetching => ~x.complete
    /\ HashesRight(x)
    /\ k # "rude" => Gentle(x)

RudePeer == \E w \in Wires : kind[w] = "rude"

MetadataInv ==
    /\ kind \in [Wires -> Kind]
    /\ u \in [Wires -> Ut]
    /\ \A w \in Wires : UtOk(kind[w], u[w])
    /\ \A w \in Wires : u[w].metadata = "bad" => u[w].touched \/ meta = "bad"
    /\ parsing \subseteq {"good", "bad"} /\ meta \in {"none", "good", "bad"}
    /\ "bad" \in parsing \/ meta = "bad" => RudePeer

-----------------------------------------------------------------------------
LEMMA Constants == NumPieces \in Nat /\ 2 * NumPieces \in Nat /\ MaxHandshakes \in Nat \ {0}
<1>1. NumPieces \in Nat
  BY MetadataAssumption, FS_CardinalityType DEF NumPieces
<1>. QED
  BY <1>1, MetadataAssumption

LEMMA NewUtOk ==
    ASSUME NEW k, NEW on \in BOOLEAN, NEW done \in BOOLEAN, NEW m \in {"none", "good", "bad"}
    PROVE  UtOk(k, [NewUt EXCEPT !.on = on, !.complete = done, !.metadata = m, !.fetching = ~done])
<1> DEFINE f == ~done
           n == NewUt
           x == [n EXCEPT !.on = on, !.complete = done, !.metadata = m, !.fetching = f]
<1>1. /\ n \in Ut /\ n.shakes = 0 /\ n.size = "none" /\ n.bits = {} /\ n.asked = {}
      /\ n.checks = << >> /\ n.emits = 0 /\ n.touched = FALSE
  BY Constants DEF NewUt, Ut
<1>2. f \in BOOLEAN /\ (f => ~done)
  OBVIOUS
<1> HIDE DEF n, f
<1>3. /\ x \in Ut /\ x.shakes = 0 /\ x.size = "none" /\ x.bits = {} /\ x.asked = {}
      /\ x.checks = << >> /\ x.emits = 0 /\ x.touched = FALSE
      /\ x.fetching = f /\ x.complete = done
  BY <1>1, <1>2 DEF Ut
<1> HIDE DEF x
<1>4. HashesRight(x) /\ Gentle(x)
  BY <1>3 DEF HashesRight, Gentle
<1>5. UtOk(k, x)
  BY <1>2, <1>3, <1>4 DEF UtOk
<1>. QED
  BY <1>5 DEF x, n, f

LEMMA FreshUtOk == ASSUME NEW k PROVE UtOk(k, NewUt)
<1>1. NewUt \in Ut
  BY Constants DEF NewUt, Ut
<1>2. /\ NewUt.shakes = 0 /\ NewUt.size = "none" /\ NewUt.bits = {} /\ NewUt.asked = {}
      /\ NewUt.checks = << >> /\ NewUt.emits = 0 /\ NewUt.touched = FALSE /\ NewUt.fetching = FALSE
  BY DEF NewUt
<1>3. HashesRight(NewUt)
  BY <1>2 DEF HashesRight
<1>4. Gentle(NewUt)
  BY <1>2 DEF Gentle
<1>. QED
  BY <1>1, <1>2, <1>3, <1>4 DEF UtOk

(* What is left of a sequence without its i-th element.                    *)
LEMMA RemoveAtElements ==
    ASSUME NEW S, NEW s \in Seq(S), NEW i \in DOMAIN s
    PROVE  /\ RemoveAt(s, i) \in Seq(S)
           /\ \A j \in DOMAIN RemoveAt(s, i) : \E k \in DOMAIN s : RemoveAt(s, i)[j] = s[k]
           /\ Len(s) = 1 => RemoveAt(s, i) = << >>
<1> DEFINE a == SubSeq(s, 1, i - 1)
           b == SubSeq(s, i + 1, Len(s))
           n == Len(s)
<1>0. n \in Nat /\ i \in 1 .. n /\ DOMAIN s = 1 .. n
  OBVIOUS
<1>1. a \in Seq(S) /\ Len(a) = i - 1 /\ \A j \in 1 .. i - 1 : a[j] = s[j]
  BY <1>0
<1>2. b \in Seq(S) /\ Len(b) = n - i /\ \A j \in 1 .. n - i : b[j] = s[i + j]
  BY <1>0
<1>3. RemoveAt(s, i) = a \o b
  BY DEF RemoveAt
<1> HIDE DEF a, b, n
<1>4. /\ a \o b \in Seq(S) /\ Len(a \o b) = Len(a) + Len(b)
      /\ \A j \in 1 .. Len(a) + Len(b) : (a \o b)[j] = IF j <= Len(a) THEN a[j] ELSE b[j - Len(a)]
  BY <1>1, <1>2, ConcatProperties
<1>5. Len(a) + Len(b) = n - 1 /\ n - 1 \in Nat
  BY <1>0, <1>1, <1>2
<1>6. ASSUME NEW j \in 1 .. n - 1 PROVE \E k \in 1 .. n : (a \o b)[j] = s[k]
  <2>1. CASE j <= i - 1
    <3>1. j \in 1 .. i - 1 /\ j \in 1 .. n
      BY <1>0, <2>1
    <3>2. (a \o b)[j] = a[j]
      BY <1>1, <1>4, <1>5, <2>1
    <3>. QED
      BY <1>1, <3>1, <3>2
  <2>2. CASE ~(j <= i - 1)
    <3>1. j - (i - 1) \in 1 .. n - i /\ i + (j - (i - 1)) \in 1 .. n
      BY <1>0, <2>2
    <3>2. (a \o b)[j] = b[j - (i - 1)]
      BY <1>1, <1>4, <1>5, <2>2
    <3>. QED
      BY <1>2, <3>1, <3>2
  <2>. QED
    BY <2>1, <2>2
<1>7. DOMAIN (a \o b) = 1 .. n - 1
  BY <1>4, <1>5
<1>8. n = 1 => a \o b = << >>
  BY <1>4, <1>5, EmptySeq
<1>9. RemoveAt(s, i) \in Seq(S)
  BY <1>3, <1>4
<1>10. Len(s) = 1 => RemoveAt(s, i) = << >>
  BY <1>3, <1>8 DEF n
<1>. QED
  BY <1>0, <1>3, <1>6, <1>7, <1>9, <1>10

LEMMA MetadataInitInv == MetadataInit => MetadataInv
<1> SUFFICES ASSUME MetadataInit PROVE MetadataInv
  OBVIOUS
<1>1. kind \in [Wires -> Kind]
  BY MetadataAssumption DEF MetadataInit
<1>2. \A w \in Wires : u[w] = NewUt /\ UtOk(kind[w], u[w])
  BY FreshUtOk DEF MetadataInit
<1>3. u \in [Wires -> Ut]
  BY FreshUtOk DEF MetadataInit, UtOk
<1>4. \A w \in Wires : u[w].metadata = "none"
  BY <1>2 DEF NewUt
<1>. QED
  BY <1>1, <1>2, <1>3, <1>4 DEF MetadataInv, MetadataInit

(* What an action on one wire has to show.                                 *)
LEMMA OneWireStep ==
    ASSUME MetadataInv, NEW w \in Wires, NEW y, u' = [u EXCEPT ![w] = y], kind' = kind, meta' = meta,
           UtOk(kind[w], y), y.metadata = "bad" => y.touched \/ meta = "bad",
           parsing' \subseteq {"good", "bad"}, "bad" \in parsing' \ parsing => RudePeer
    PROVE  MetadataInv'
<1>1. y \in Ut
  BY DEF UtOk
<1>2. u \in [Wires -> Ut] /\ u' \in [Wires -> Ut]
  BY <1>1 DEF MetadataInv
<1>3. u'[w] = y /\ \A v \in Wires \ {w} : u'[v] = u[v]
  BY <1>2
<1>4. \A v \in Wires : UtOk(kind'[v], u'[v])
  BY <1>3 DEF MetadataInv
<1>5. \A v \in Wires : u'[v].metadata = "bad" => u'[v].touched \/ meta' = "bad"
  BY <1>3 DEF MetadataInv
<1>6. "bad" \in parsing' \/ meta' = "bad" => RudePeer'
  BY DEF MetadataInv, RudePeer
<1>. QED
  BY <1>2, <1>4, <1>5, <1>6 DEF MetadataInv, UtOk, HashesRight, Gentle

(* #requestPieces keeps the bytes that the hashes have read.               *)
LEMMA RequestOk ==
    ASSUME NEW k, NEW x \in Ut, HashesRight(x), x.fetching => ~x.complete,
           k # "rude" =>
               /\ x.bits = {} /\ ~x.touched /\ x.checks = << >> /\ x.shakes # 0
               /\ x.fetching => x.emits = 0
               /\ x.fetching => Pieces # {} \/ x.rejects = 0
               /\ ~x.fetching => x.asked \cap x.bits = {}
    PROVE  /\ UtOk(k, RequestPieces(x))
           /\ RequestPieces(x).metadata = x.metadata /\ RequestPieces(x).touched = x.touched
<1>1. CASE ~x.fetching
  <2>1. RequestPieces(x) = x
    BY <1>1 DEF RequestPieces
  <2>2. k # "rude" => Gentle(x)
    BY <1>1 DEF Gentle, Ut
  <2>. QED
    BY <1>1, <2>1, <2>2 DEF UtOk
<1>2. CASE x.fetching
  <2> DEFINE cs == [i \in DOMAIN x.checks |-> [x.checks[i] EXCEPT !.live = FALSE]]
             y == [x EXCEPT !.array = {}, !.asked = Pieces, !.checks = cs]
  <2>1. RequestPieces(x) = y
    BY <1>2 DEF RequestPieces
  <2>2. x.checks \in Seq(Check)
    BY DEF Ut
  <2>3. \A i \in DOMAIN x.checks : /\ cs[i] \in Check /\ cs[i].ok = x.checks[i].ok
                                   /\ cs[i].array = x.checks[i].array
    <3>1. ASSUME NEW c \in Check
          PROVE  LET d == [c EXCEPT !.live = FALSE]
                 IN  d \in Check /\ d.ok = c.ok /\ d.array = c.array
      BY DEF Check
    <3>2. \A i \in DOMAIN x.checks : x.checks[i] \in Check
      BY <2>2
    <3>3. \A i \in DOMAIN x.checks : cs[i] = [x.checks[i] EXCEPT !.live = FALSE]
      OBVIOUS
    <3> HIDE DEF cs
    <3>. QED
      BY <3>1, <3>2, <3>3
  <2>4. cs \in Seq(Check) /\ DOMAIN cs = DOMAIN x.checks /\ (x.checks = << >> => cs = << >>)
    <3> DEFINE n == Len(x.checks)
    <3>1. n \in Nat /\ DOMAIN x.checks = 1 .. n
      BY <2>2
    <3>2. DOMAIN cs = 1 .. n /\ cs = [i \in 1 .. n |-> cs[i]]
      BY <3>1
    <3> HIDE DEF cs, n
    <3>3. cs \in [1 .. n -> Check]
      BY <2>3, <3>1, <3>2
    <3>4. cs \in Seq(Check) /\ Len(cs) = n
      BY <3>1, <3>3
    <3>. QED
      BY <3>1, <3>2, <3>4, EmptySeq DEF n
  <2> HIDE DEF cs
  <2>5. /\ y \in Ut /\ y.checks = cs /\ y.asked = Pieces /\ y.bits = x.bits /\ y.touched = x.touched
        /\ y.shakes = x.shakes /\ y.fetching = x.fetching /\ y.emits = x.emits /\ y.rejects = x.rejects
        /\ y.complete = x.complete /\ y.metadata = x.metadata /\ y.size = x.size
    BY <2>4 DEF Ut
  <2> HIDE DEF y
  <2>6. HashesRight(y)
    BY <2>3, <2>4, <2>5 DEF HashesRight
  <2>7. k # "rude" => Gentle(y)
    BY <1>2, <2>4, <2>5 DEF Gentle
  <2>. QED
    BY <2>1, <2>5, <2>6, <2>7 DEF UtOk
<1>. QED
  BY <1>1, <1>2 DEF Ut

LEMMA HandleWireStep == ASSUME MetadataInv, NEW w \in Wires, HandleWire(w) PROVE MetadataInv'
<1>1. meta \in {"none", "good", "bad"} /\ parsing \subseteq {"good", "bad"}
  BY DEF MetadataInv
<1> DEFINE done == meta # "none"
           y == [NewUt EXCEPT !.on = TRUE, !.complete = done, !.metadata = meta, !.fetching = ~done]
<1>2. UtOk(kind[w], y)
  <2>1. done \in BOOLEAN
    OBVIOUS
  <2> HIDE DEF done
  <2>. QED
    BY <1>1, <2>1, NewUtOk
<1>3. u' = [u EXCEPT ![w] = y] /\ UNCHANGED <<kind, parsing, meta>>
  <2>1. ~done <=> meta = "none"
    OBVIOUS
  <2>2. ~done = (meta = "none")
    BY <2>1
  <2>. QED
    BY <2>2 DEF HandleWire
<1>4. y.metadata = meta
  BY DEF NewUt
<1> HIDE DEF y, done
<1>5. y.metadata = "bad" => y.touched \/ meta = "bad"
  BY <1>4
<1>6. parsing' \subseteq {"good", "bad"} /\ ("bad" \in parsing' \ parsing => RudePeer)
  BY <1>1, <1>3
<1>7. kind' = kind /\ meta' = meta /\ u' = [u EXCEPT ![w] = y]
  BY <1>3
<1>. QED
  BY <1>2, <1>5, <1>6, <1>7, OneWireStep

LEMMA CloseStep == ASSUME MetadataInv, NEW w \in Wires, OnClose(w) PROVE MetadataInv'
<1>1. parsing \subseteq {"good", "bad"} /\ UtOk(kind[w], NewUt) /\ NewUt.metadata = "none"
  BY FreshUtOk DEF MetadataInv, NewUt
<1>2. u' = [u EXCEPT ![w] = NewUt] /\ UNCHANGED <<kind, parsing, meta>>
  BY DEF OnClose
<1>. QED
  BY <1>1, <1>2, OneWireStep

(* The handshake of a gentle peer is its only one.                         *)
LEMMA HandshakeStep ==
    ASSUME MetadataInv, NEW w \in Wires, NEW size \in {"right", "wrong"}, OnExtendedHandshake(w, size)
    PROVE  MetadataInv'
<1> DEFINE x == u[w]
           z == [x EXCEPT !.size = size, !.shakes = x.shakes + 1, !.rejects = 2 * NumPieces]
           y == RequestPieces(z)
<1>1. /\ x \in Ut /\ UtOk(kind[w], x) /\ (x.metadata = "bad" => x.touched \/ meta = "bad")
      /\ x.shakes < (IF kind[w] = "rude" THEN MaxHandshakes ELSE 1)
      /\ u' = [u EXCEPT ![w] = y] /\ UNCHANGED <<kind, parsing, meta>>
      /\ parsing \subseteq {"good", "bad"}
  <2>1. /\ x \in Ut /\ UtOk(kind[w], x) /\ (x.metadata = "bad" => x.touched \/ meta = "bad")
        /\ parsing \subseteq {"good", "bad"}
    BY DEF MetadataInv
  <2>2. u' = [u EXCEPT ![w] = y] /\ UNCHANGED <<kind, parsing, meta>>
    <3>1. UNCHANGED <<kind, parsing, meta>>
      BY DEF OnExtendedHandshake
    <3>2. u' = [u EXCEPT ![w] = RequestPieces([u[w] EXCEPT !.size = size, !.shakes = u[w].shakes + 1, !.rejects = 2 * NumPieces])]
      BY DEF OnExtendedHandshake
    <3>. QED
      BY <3>1, <3>2
  <2>3. x.shakes < (IF kind[w] = "rude" THEN MaxHandshakes ELSE 1)
    BY DEF OnExtendedHandshake
  <2>. QED
    BY <2>1, <2>2, <2>3
<1>2. x.shakes + 1 \in 0 .. MaxHandshakes /\ x.shakes + 1 # 0 /\ (kind[w] # "rude" => x.shakes = 0)
  <2> DEFINE h == x.shakes
             M == MaxHandshakes
  <2>1. h \in Nat /\ M \in Nat \ {0}
    BY <1>1, Constants DEF Ut
  <2>2. h < (IF kind[w] = "rude" THEN M ELSE 1)
    BY <1>1
  <2> HIDE DEF x, h, M
  <2>3. CASE kind[w] = "rude"
    <3>1. h + 1 \in 0 .. M /\ h + 1 # 0
      BY <2>1, <2>2, <2>3
    <3>. QED
      BY <2>3, <3>1 DEF h, M
  <2>4. CASE kind[w] # "rude"
    <3>1. h + 1 \in 0 .. M /\ h + 1 # 0 /\ h = 0
      BY <2>1, <2>2, <2>4
    <3>. QED
      BY <3>1 DEF h, M
  <2>. QED
    BY <2>3, <2>4
<1> HIDE DEF x
<1>3. /\ z \in Ut /\ z.shakes # 0 /\ z.rejects = 2 * NumPieces /\ z.bits = x.bits /\ z.touched = x.touched
      /\ z.checks = x.checks /\ z.fetching = x.fetching /\ z.complete = x.complete
      /\ z.emits = x.emits /\ z.asked = x.asked /\ z.metadata = x.metadata
  BY <1>1, <1>2, Constants DEF Ut
<1> HIDE DEF z
<1>4. HashesRight(z) /\ (z.fetching => ~z.complete)
  BY <1>1, <1>3 DEF UtOk, HashesRight
<1>5. Pieces # {} \/ z.rejects = 0
  <2>1. CASE Pieces = {}
    <3>1. NumPieces = 0
      BY <2>1, FS_EmptySet DEF NumPieces
    <3>. QED
      BY <1>3, <3>1
  <2>. QED
    BY <2>1
<1>6. kind[w] # "rude" =>
          /\ z.bits = {} /\ ~z.touched /\ z.checks = << >>
          /\ z.fetching => z.emits = 0
          /\ ~z.fetching => z.asked \cap z.bits = {}
  BY <1>1, <1>2, <1>3 DEF UtOk, Gentle
<1>7. UtOk(kind[w], y) /\ y.metadata = z.metadata /\ y.touched = z.touched
  BY <1>3, <1>4, <1>5, <1>6, RequestOk
<1> HIDE DEF y
<1>. QED
  BY <1>1, <1>3, <1>7, OneWireStep

LEMMA RejectStep ==
    ASSUME MetadataInv, NEW w \in Wires, NEW p \in Pieces, OnPieceReject(w, p)
    PROVE  MetadataInv'
<1> DEFINE x == u[w]
           y == IF x.rejects > 0 /\ x.fetching THEN [x EXCEPT !.rejects = x.rejects - 1]
                ELSE IF kind[w] = "rude" THEN x ELSE [x EXCEPT !.asked = x.asked \ {p}]
<1>1. /\ x \in Ut /\ UtOk(kind[w], x) /\ (x.metadata = "bad" => x.touched \/ meta = "bad")
      /\ u' = [u EXCEPT ![w] = y] /\ UNCHANGED <<kind, parsing, meta>>
      /\ parsing \subseteq {"good", "bad"}
  <2>1. /\ x \in Ut /\ UtOk(kind[w], x) /\ (x.metadata = "bad" => x.touched \/ meta = "bad")
        /\ parsing \subseteq {"good", "bad"}
    BY DEF MetadataInv
  <2>2. u' = [u EXCEPT ![w] = y] /\ UNCHANGED <<kind, parsing, meta>>
    <3>1. UNCHANGED <<kind, parsing, meta>>
      BY DEF OnPieceReject
    <3>2. u' = [u EXCEPT ![w] = y]
      BY DEF OnPieceReject
    <3>. QED
      BY <3>1, <3>2
  <2>. QED
    BY <2>1, <2>2
<1> HIDE DEF x
<1>2. /\ y \in Ut /\ y.shakes = x.shakes /\ y.size = x.size /\ y.bits = x.bits /\ y.touched = x.touched
      /\ y.checks = x.checks /\ y.fetching = x.fetching /\ y.complete = x.complete
      /\ y.emits = x.emits /\ y.metadata = x.metadata
      /\ \/ x.rejects # 0 /\ y.asked = x.asked
         \/ y = x
         \/ y.asked = x.asked \ {p} /\ y.rejects = x.rejects /\ (x.rejects = 0 \/ ~x.fetching)
  <2>1. CASE x.rejects > 0 /\ x.fetching
    <3> DEFINE r == x.rejects - 1
    <3>1. r \in Nat /\ y = [x EXCEPT !.rejects = r] /\ x.rejects # 0
      BY <1>1, <2>1 DEF Ut
    <3> HIDE DEF r, y
    <3>. QED
      BY <1>1, <3>1 DEF Ut
  <2>2. CASE ~(x.rejects > 0 /\ x.fetching) /\ kind[w] = "rude"
    BY <1>1, <2>2
  <2>3. CASE ~(x.rejects > 0 /\ x.fetching) /\ kind[w] # "rude"
    <3>1. y = [x EXCEPT !.asked = x.asked \ {p}] /\ (x.rejects = 0 \/ ~x.fetching)
      BY <1>1, <2>3 DEF Ut
    <3>. QED
      BY <1>1, <3>1 DEF Ut
  <2>. QED
    BY <2>1, <2>2, <2>3
<1> HIDE DEF y
<1>3. HashesRight(y) /\ (y.fetching => ~y.complete)
  BY <1>1, <1>2 DEF UtOk, HashesRight
<1>4. kind[w] # "rude" => Gentle(y)
  BY <1>1, <1>2 DEF UtOk, Gentle, Ut
<1>5. UtOk(kind[w], y)
  BY <1>2, <1>3, <1>4 DEF UtOk
<1>. QED
  BY <1>1, <1>2, <1>5, OneWireStep

(* The end of the process leaves no wire and nothing to parse.             *)
LEMMA ThrowStep == ASSUME MetadataInv, Throw, UNCHANGED <<kind, meta>> PROVE MetadataInv'
<1>1. u' = [w \in Wires |-> NewUt] /\ parsing' = {}
  BY DEF Throw
<1>2. \A w \in Wires : UtOk(kind'[w], NewUt) /\ u'[w] = NewUt
  BY <1>1, FreshUtOk
<1>3. u' \in [Wires -> Ut]
  BY <1>1, FreshUtOk DEF UtOk
<1>4. \A w \in Wires : u'[w].metadata = "none"
  BY <1>2 DEF NewUt
<1>5. meta' = "bad" => RudePeer'
  BY DEF MetadataInv, RudePeer
<1>6. kind' \in [Wires -> Kind] /\ meta' \in {"none", "good", "bad"}
  BY DEF MetadataInv
<1>. QED
  BY <1>1, <1>2, <1>3, <1>4, <1>5, <1>6 DEF MetadataInv, UtOk, HashesRight, Gentle

(* A piece comes; the last one starts a hash.  What a gentle peer sends,   *)
(* it was asked for, and then no hash runs.                                *)
LEMMA DataStep ==
    ASSUME MetadataInv, NEW w \in Wires, NEW p \in Pieces, NEW b \in Data, OnData(w, p, b),
           ~Throws(w, b)
    PROVE  MetadataInv'
<1> DEFINE rude == kind[w] = "rude"
           o == u[w]
           x == [o EXCEPT !.asked = IF rude THEN o.asked ELSE o.asked \ {p}]
           touch(c) == IF c.live THEN [c EXCEPT !.array = Put(c.array, p, b)] ELSE c
           cs == [i \in DOMAIN x.checks |-> touch(x.checks[i])]
           busy == \E i \in DOMAIN x.checks : x.checks[i].live
           y == [x EXCEPT !.array = Put(x.array, p, b), !.bits = x.bits \cup {p},
                          !.touched = x.touched \/ busy, !.checks = cs]
           new == [ok |-> y.size = "right" /\ y.array = Pieces, array |-> y.array, live |-> TRUE]
           z == IF x.fetching THEN CheckDone(y) ELSE x
<1>1. /\ o \in Ut /\ UtOk(kind[w], o) /\ (o.metadata = "bad" => o.touched \/ meta = "bad")
      /\ parsing \subseteq {"good", "bad"}
  BY DEF MetadataInv
<1>2. u' = [u EXCEPT ![w] = z] /\ UNCHANGED <<kind, parsing, meta>>
  BY DEF OnData
<1>3. (rude \/ p \in o.asked) /\ (rude \/ o.size # "none")
  BY DEF OnData
<1>4. /\ x \in Ut /\ x.shakes = o.shakes /\ x.size = o.size /\ x.bits = o.bits /\ x.touched = o.touched
      /\ x.checks = o.checks /\ x.fetching = o.fetching /\ x.complete = o.complete
      /\ x.emits = o.emits /\ x.metadata = o.metadata /\ x.rejects = o.rejects
      /\ x.asked = (IF rude THEN o.asked ELSE o.asked \ {p})
  <2> DEFINE s == IF rude THEN o.asked ELSE o.asked \ {p}
  <2>1. s \in SUBSET Pieces /\ o \in Ut /\ x = [o EXCEPT !.asked = s]
    BY <1>1 DEF Ut
  <2> HIDE DEF s, x, o
  <2>2. /\ x \in Ut /\ x.shakes = o.shakes /\ x.size = o.size /\ x.bits = o.bits /\ x.touched = o.touched
        /\ x.checks = o.checks /\ x.fetching = o.fetching /\ x.complete = o.complete
        /\ x.emits = o.emits /\ x.metadata = o.metadata /\ x.rejects = o.rejects /\ x.asked = s
    BY <2>1 DEF Ut
  <2>. QED
    BY <2>2 DEF s
<1> HIDE DEF x, o
<1>5. HashesRight(x) /\ (x.fetching => ~x.complete)
  BY <1>1, <1>4 DEF UtOk, HashesRight
<1>6. ~rude => /\ x.checks = << >> /\ ~x.touched /\ x.bits \cap x.asked = {}
               /\ x.fetching => x.emits = 0
               /\ x.shakes # 0
               /\ x.fetching => \/ x.rejects = 0
                                \/ Pieces \ (x.bits \cup {p}) \subseteq x.asked
               /\ p \notin x.asked
  BY <1>1, <1>3, <1>4 DEF UtOk, Gentle
<1>7. CASE ~x.fetching
  <2>1. z = x
    BY <1>7
  <2>2. ~rude => Gentle(x)
    BY <1>6, <1>7 DEF Gentle
  <2>3. UtOk(kind[w], x) /\ (x.metadata = "bad" => x.touched \/ meta = "bad")
    BY <1>1, <1>4, <1>5, <2>2 DEF UtOk
  <2>4. "bad" \in parsing' \ parsing => RudePeer
    BY <1>2
  <2>5. parsing' \subseteq {"good", "bad"}
    BY <1>1, <1>2
  <2>. QED
    BY <1>2, <2>1, <2>3, <2>4, <2>5, OneWireStep
<1>8. CASE x.fetching
  <2>1. x.checks \in Seq(Check) /\ x.array \in SUBSET Pieces
    BY <1>4 DEF Ut
  <2>2. \A a \in SUBSET Pieces : Put(a, p, b) \in SUBSET Pieces
    BY DEF Put
  <2>3. \A i \in DOMAIN x.checks : /\ cs[i] \in Check /\ cs[i].ok = x.checks[i].ok
                                   /\ (~busy => cs[i].array = x.checks[i].array)
    <3>1. ASSUME NEW c \in Check
          PROVE  /\ touch(c) \in Check /\ touch(c).ok = c.ok
                 /\ ~c.live => touch(c) = c
      <4> DEFINE a == Put(c.array, p, b)
      <4>1. a \in SUBSET Pieces
        BY <2>2 DEF Check
      <4>2. c.live => touch(c) = [c EXCEPT !.array = a]
        OBVIOUS
      <4> HIDE DEF a
      <4>. QED
        BY <4>1, <4>2 DEF Check
    <3>2. \A i \in DOMAIN x.checks : x.checks[i] \in Check
      BY <2>1
    <3>3. \A i \in DOMAIN x.checks : cs[i] = touch(x.checks[i])
      OBVIOUS
    <3>4. ASSUME ~busy, NEW i \in DOMAIN x.checks PROVE ~x.checks[i].live
      BY <3>4
    <3> HIDE DEF cs, touch, busy
    <3>. QED
      BY <3>1, <3>2, <3>3, <3>4
  <2>4. cs \in Seq(Check) /\ DOMAIN cs = DOMAIN x.checks /\ (x.checks = << >> => cs = << >>)
    <3> DEFINE n == Len(x.checks)
    <3>1. n \in Nat /\ DOMAIN x.checks = 1 .. n
      BY <2>1
    <3>2. DOMAIN cs = 1 .. n /\ cs = [i \in 1 .. n |-> cs[i]]
      BY <3>1
    <3> HIDE DEF cs, n
    <3>3. cs \in [1 .. n -> Check]
      BY <2>3, <3>1, <3>2
    <3>4. cs \in Seq(Check) /\ Len(cs) = n
      BY <3>1, <3>3
    <3>. QED
      BY <3>1, <3>2, <3>4, EmptySeq DEF n
  <2>5. busy \in BOOLEAN /\ (x.checks = << >> => ~busy)
    OBVIOUS
  <2>6. /\ y \in Ut /\ y.shakes = x.shakes /\ y.size = x.size /\ y.bits = x.bits \cup {p}
        /\ y.touched = (x.touched \/ busy) /\ y.checks = cs /\ y.fetching = x.fetching
        /\ y.complete = x.complete /\ y.emits = x.emits /\ y.metadata = x.metadata
        /\ y.rejects = x.rejects /\ y.asked = x.asked
    <3> DEFINE a == Put(x.array, p, b)
               t == x.touched \/ busy
    <3>1. /\ a \in SUBSET Pieces /\ t \in BOOLEAN /\ cs \in Seq(Check)
          /\ y = [x EXCEPT !.array = a, !.bits = x.bits \cup {p}, !.touched = t, !.checks = cs]
      BY <2>1, <2>2, <2>4
    <3> HIDE DEF a, t, cs, y
    <3>2. /\ y \in Ut /\ y.shakes = x.shakes /\ y.size = x.size /\ y.bits = x.bits \cup {p}
          /\ y.touched = t /\ y.checks = cs /\ y.fetching = x.fetching
          /\ y.complete = x.complete /\ y.emits = x.emits /\ y.metadata = x.metadata
          /\ y.rejects = x.rejects /\ y.asked = x.asked
      BY <1>4, <3>1 DEF Ut
    <3>. QED
      BY <3>2 DEF t
  <2> HIDE DEF cs, busy, y
  <2>7. HashesRight(y)
    BY <1>5, <2>3, <2>4, <2>6, ZenonT(30) DEF HashesRight
  <2>8. CASE y.bits # Pieces
    <3>1. z = y
      BY <1>8, <2>8 DEF CheckDone
    <3>2. ~rude => Gentle(y)
      BY <1>6, <1>8, <2>4, <2>5, <2>6, <2>8 DEF Gentle
    <3>3. UtOk(kind[w], y) /\ (y.metadata = "bad" => y.touched \/ meta = "bad")
      BY <1>1, <1>4, <1>5, <2>6, <2>7, <3>2 DEF UtOk
    <3>4. parsing' \subseteq {"good", "bad"} /\ ("bad" \in parsing' \ parsing => RudePeer)
      BY <1>1, <1>2
    <3>. QED
      BY <1>2, <3>1, <3>3, <3>4, OneWireStep
  <2>9. CASE y.bits = Pieces
    <3> DEFINE v == [y EXCEPT !.checks = Append(cs, new)]
    <3>1. z = v
      <4>1. ~y.complete
        BY <1>5, <1>8, <2>6
      <4>. QED
        BY <1>8, <2>6, <2>9, <4>1 DEF CheckDone
    <3>2. new \in Check /\ (new.ok => new.array = Pieces)
      BY <2>6 DEF Check, Ut
    <3> HIDE DEF new
    <3>3. /\ Append(cs, new) \in Seq(Check)
          /\ \A i \in DOMAIN Append(cs, new) :
                Append(cs, new)[i] = new \/ (i \in DOMAIN cs /\ Append(cs, new)[i] = cs[i])
          /\ (cs = << >> => Append(cs, new) = <<new>>)
      <4> DEFINE n == Len(cs)
      <4>1. n \in Nat /\ DOMAIN cs = 1 .. n
        BY <2>4
      <4>2. /\ Append(cs, new) \in Seq(Check) /\ Len(Append(cs, new)) = n + 1
            /\ \A i \in 1 .. n : Append(cs, new)[i] = cs[i]
            /\ Append(cs, new)[n + 1] = new
        BY <2>4, <3>2, AppendProperties
      <4>3. DOMAIN Append(cs, new) = 1 .. n + 1
        BY <4>2
      <4>4. \A i \in 1 .. n + 1 : i \in 1 .. n \/ i = n + 1
        BY <4>1
      <4>5. cs = << >> => Append(cs, new) = <<new>>
        OBVIOUS
      <4> HIDE DEF n
      <4>. QED
        BY <4>1, <4>2, <4>3, <4>4, <4>5
    <3> DEFINE ds == Append(cs, new)
    <3> HIDE DEF ds
    <3>4. /\ v \in Ut /\ v.shakes = y.shakes /\ v.size = y.size /\ v.bits = y.bits
          /\ v.touched = y.touched /\ v.checks = ds /\ v.fetching = y.fetching
          /\ v.complete = y.complete /\ v.emits = y.emits /\ v.metadata = y.metadata
          /\ v.rejects = y.rejects /\ v.asked = y.asked
      BY <2>6, <3>3 DEF Ut, ds
    <3> HIDE DEF v
    <3>5. HashesRight(v)
      BY <2>6, <2>7, <3>2, <3>3, <3>4 DEF HashesRight, ds
    <3>6. ~rude => Gentle(v)
      <4>1. SUFFICES ASSUME ~rude PROVE Gentle(v)
        OBVIOUS
      <4>2. cs = << >> /\ v.checks = <<new>> /\ <<new>> # << >>
        BY <1>6, <2>4, <3>3, <3>4, <4>1 DEF ds
      <4>3. v.asked = {}
        BY <1>3, <1>4, <1>6, <2>6, <2>9, <3>4, <4>1 DEF Ut
      <4>. QED
        BY <1>6, <1>8, <2>5, <2>6, <2>9, <3>2, <3>4, <4>1, <4>2, <4>3 DEF Gentle
    <3>7. UtOk(kind[w], v) /\ (v.metadata = "bad" => v.touched \/ meta = "bad")
      BY <1>1, <1>4, <1>5, <2>6, <3>4, <3>5, <3>6 DEF UtOk
    <3>8. parsing' \subseteq {"good", "bad"} /\ ("bad" \in parsing' \ parsing => RudePeer)
      BY <1>1, <1>2
    <3>. QED
      BY <1>2, <3>1, <3>7, <3>8, OneWireStep
  <2>. QED
    BY <2>8, <2>9
<1>. QED
  BY <1>7, <1>8

(* A hash is known.  Bytes that are no longer right came from a rude peer. *)
LEMMA HashStep ==
    ASSUME MetadataInv, NEW w \in Wires, NEW i \in DOMAIN u[w].checks, OnHash(w, i)
    PROVE  MetadataInv'
<1> DEFINE rude == kind[w] = "rude"
           o == u[w]
           c == o.checks[i]
           cs == RemoveAt(o.checks, i)
           x == [o EXCEPT !.checks = cs]
           m == Worth(c.array)
           y == [x EXCEPT !.fetching = FALSE, !.complete = TRUE, !.metadata = m, !.array = {}]
           z == [y EXCEPT !.emits = y.emits + 1]
           f == [x EXCEPT !.bits = {}, !.rejects = Less(x.rejects)]
<1>1. /\ o \in Ut /\ UtOk(kind[w], o) /\ (o.metadata = "bad" => o.touched \/ meta = "bad")
      /\ parsing \subseteq {"good", "bad"}
  BY DEF MetadataInv
<1>2. /\ UNCHANGED <<kind, meta>>
      /\ \/ /\ c.ok /\ u' = [u EXCEPT ![w] = z] /\ parsing' = parsing \cup {m}
         \/ /\ c.ok /\ m = "bad" /\ u' = [u EXCEPT ![w] = y] /\ parsing' = parsing
         \/ /\ ~c.ok /\ u' = [u EXCEPT ![w] = Failed(x)] /\ parsing' = parsing
  <2>1. UNCHANGED <<kind, meta>>
    BY DEF OnHash
  <2>2. \/ /\ c.ok /\ u' = [u EXCEPT ![w] = z] /\ parsing' = parsing \cup {m}
        \/ /\ c.ok /\ m = "bad" /\ u' = [u EXCEPT ![w] = y] /\ parsing' = parsing
        \/ /\ ~c.ok /\ u' = [u EXCEPT ![w] = Failed(x)] /\ parsing' = parsing
    BY DEF OnHash
  <2>. QED
    BY <2>1, <2>2
<1>3. /\ o.checks \in Seq(Check) /\ i \in DOMAIN o.checks /\ c \in Check
      /\ (c.ok => o.touched \/ c.array = Pieces)
  BY <1>1 DEF Ut, UtOk, HashesRight
<1>4. /\ cs \in Seq(Check) /\ (Len(o.checks) = 1 => cs = << >>)
      /\ \A j \in DOMAIN cs : \E k \in DOMAIN o.checks : cs[j] = o.checks[k]
  BY <1>3, RemoveAtElements
<1>5. ~rude => cs = << >> /\ ~o.touched /\ o.fetching /\ o.emits = 0 /\ o.shakes # 0
               /\ Pieces # {} /\ o.bits = Pieces
  <2>1. SUFFICES ASSUME ~rude
                 PROVE  cs = << >> /\ ~o.touched /\ o.fetching /\ o.emits = 0 /\ o.shakes # 0
                        /\ Pieces # {} /\ o.bits = Pieces
    OBVIOUS
  <2>2. Gentle(o) /\ o.checks # << >>
    BY <1>1, <1>3, <2>1 DEF UtOk
  <2>3. PICK d \in Check : o.checks = <<d>>
    BY <2>2 DEF Gentle
  <2>4. Len(o.checks) = 1
    BY <2>3
  <2>. QED
    BY <1>4, <2>2, <2>4 DEF Gentle
<1> HIDE DEF cs, c, o
<1>6. /\ x \in Ut /\ x.shakes = o.shakes /\ x.size = o.size /\ x.bits = o.bits /\ x.touched = o.touched
      /\ x.checks = cs /\ x.fetching = o.fetching /\ x.complete = o.complete
      /\ x.emits = o.emits /\ x.metadata = o.metadata /\ x.rejects = o.rejects /\ x.asked = o.asked
  BY <1>1, <1>4 DEF Ut
<1>7. HashesRight(x)
  <2>1. HashesRight(o)
    BY <1>1 DEF UtOk
  <2>2. \A j \in DOMAIN cs : cs[j].ok => o.touched \/ cs[j].array = Pieces
    BY <1>4, <2>1 DEF HashesRight
  <2>. QED
    BY <1>6, <2>2 DEF HashesRight
<1> HIDE DEF x
<1>8. m \in {"good", "bad"} /\ (c.ok /\ m = "bad" => o.touched)
  BY <1>3 DEF Worth
<1> HIDE DEF m
<1>9. /\ y \in Ut /\ y.fetching = FALSE /\ y.complete = TRUE /\ y.metadata = m
      /\ y.shakes = x.shakes /\ y.size = x.size /\ y.bits = x.bits /\ y.touched = x.touched
      /\ y.checks = cs /\ y.emits = x.emits /\ y.asked = x.asked
  BY <1>6, <1>8 DEF Ut
<1> HIDE DEF y
<1>10. /\ z \in Ut /\ z.fetching = FALSE /\ z.complete = TRUE /\ z.metadata = m
       /\ z.shakes = x.shakes /\ z.size = x.size /\ z.bits = x.bits /\ z.touched = x.touched
       /\ z.checks = cs /\ z.asked = x.asked
  <2> DEFINE n == y.emits + 1
  <2>1. n \in Nat
    BY <1>9 DEF Ut
  <2> HIDE DEF n
  <2>. QED
    BY <1>9, <2>1 DEF Ut
<1> HIDE DEF z
<1>11. UtOk(kind[w], y) /\ UtOk(kind[w], z)
  <2>1. HashesRight(y) /\ HashesRight(z)
    BY <1>6, <1>7, <1>9, <1>10 DEF HashesRight
  <2>2. ~rude => Gentle(o)
    BY <1>1 DEF UtOk
  <2>3. ~rude => Gentle(y)
    BY <1>5, <1>6, <1>9, <2>2 DEF Gentle
  <2>4. ~rude => Gentle(z)
    BY <1>5, <1>6, <1>10, <2>2 DEF Gentle
  <2>. QED
    BY <1>9, <1>10, <2>1, <2>3, <2>4 DEF UtOk
<1>12. CASE c.ok /\ u' = [u EXCEPT ![w] = z] /\ parsing' = parsing \cup {m}
  <2>1. "bad" \in parsing' \ parsing => RudePeer
    BY <1>5, <1>8, <1>12 DEF RudePeer
  <2>2. z.metadata = "bad" => z.touched \/ meta = "bad"
    BY <1>6, <1>8, <1>10, <1>12
  <2>3. parsing' \subseteq {"good", "bad"}
    BY <1>1, <1>8, <1>12
  <2>. QED
    BY <1>2, <1>11, <1>12, <2>1, <2>2, <2>3, OneWireStep
<1>13. CASE c.ok /\ m = "bad" /\ u' = [u EXCEPT ![w] = y] /\ parsing' = parsing
  <2>1. "bad" \in parsing' \ parsing => RudePeer
    BY <1>13
  <2>2. y.metadata = "bad" => y.touched \/ meta = "bad"
    BY <1>6, <1>8, <1>9, <1>13
  <2>3. parsing' \subseteq {"good", "bad"}
    BY <1>1, <1>13
  <2>. QED
    BY <1>2, <1>11, <1>13, <2>1, <2>2, <2>3, OneWireStep
<1>14. CASE ~c.ok /\ u' = [u EXCEPT ![w] = Failed(x)] /\ parsing' = parsing
  <2>1. Less(x.rejects) \in Nat
    BY <1>6, Constants DEF Less, Ut
  <2> DEFINE r == Less(x.rejects)
  <2> HIDE DEF r
  <2>2. /\ f \in Ut /\ f.shakes = x.shakes /\ f.size = x.size /\ f.bits = {} /\ f.touched = x.touched
        /\ f.checks = cs /\ f.fetching = x.fetching /\ f.complete = x.complete
        /\ f.emits = x.emits /\ f.metadata = x.metadata /\ f.rejects = r /\ f.asked = x.asked
    <3>1. f = [x EXCEPT !.bits = {}, !.rejects = r] /\ r \in Nat
      BY <2>1 DEF r
    <3> HIDE DEF f
    <3>. QED
      BY <1>6, <3>1 DEF Ut
  <2>3. Failed(x) = IF f.rejects > 0 THEN RequestPieces(f) ELSE f
    BY DEF Failed
  <2> HIDE DEF f
  <2>4. HashesRight(f) /\ (f.fetching => ~f.complete)
    BY <1>1, <1>6, <1>7, <2>2 DEF HashesRight, UtOk
  <2>5. UtOk(kind[w], RequestPieces(f)) /\ RequestPieces(f).metadata = f.metadata
        /\ RequestPieces(f).touched = f.touched
    <3>1. ~rude => /\ f.bits = {} /\ ~f.touched /\ f.checks = << >> /\ f.shakes # 0
                   /\ f.fetching => f.emits = 0
                   /\ f.fetching => Pieces # {} \/ f.rejects = 0
                   /\ ~f.fetching => f.asked \cap f.bits = {}
      BY <1>5, <1>6, <2>2
    <3>. QED
      BY <2>2, <2>4, <3>1, RequestOk
  <2>6. CASE f.rejects > 0
    <3> DEFINE g == RequestPieces(f)
    <3>1. u' = [u EXCEPT ![w] = g] /\ UtOk(kind[w], g) /\ (g.metadata = "bad" => g.touched \/ meta = "bad")
      BY <1>1, <1>6, <1>14, <2>2, <2>3, <2>5, <2>6
    <3>2. parsing' \subseteq {"good", "bad"} /\ ("bad" \in parsing' \ parsing => RudePeer)
      BY <1>1, <1>14
    <3> HIDE DEF g
    <3>. QED
      BY <1>2, <3>1, <3>2, OneWireStep
  <2>7. CASE ~(f.rejects > 0)
    <3>1. f.rejects = 0
      BY <2>2, <2>7 DEF Ut
    <3>2. ~rude => Gentle(f)
      BY <1>5, <1>6, <2>2, <3>1 DEF Gentle
    <3>3. u' = [u EXCEPT ![w] = f] /\ UtOk(kind[w], f) /\ (f.metadata = "bad" => f.touched \/ meta = "bad")
      BY <1>1, <1>6, <1>14, <2>2, <2>3, <2>4, <2>7, <3>2 DEF UtOk
    <3>4. parsing' \subseteq {"good", "bad"} /\ ("bad" \in parsing' \ parsing => RudePeer)
      BY <1>1, <1>14
    <3>. QED
      BY <1>2, <3>3, <3>4, OneWireStep
  <2>. QED
    BY <2>6, <2>7
<1>. QED
  BY <1>2, <1>12, <1>13, <1>14

(* The torrent's own steps leave the wires alone.                          *)
LEMMA TorrentStep ==
    ASSUME MetadataInv, UNCHANGED <<kind, u>>, parsing' \subseteq parsing,
           meta' \in {meta, "good"} \cup parsing, meta' # meta => meta = "none"
    PROVE  MetadataInv'
<1>1. meta' \in {"none", "good", "bad"} /\ ("bad" \in parsing' \/ meta' = "bad" => RudePeer')
  BY DEF MetadataInv, RudePeer
<1>2. \A w \in Wires : u'[w].metadata = "bad" => u'[w].touched \/ meta' = "bad"
  BY DEF MetadataInv
<1>3. \A w \in Wires : UtOk(kind'[w], u'[w])
  BY DEF MetadataInv
<1>4. \A w \in Wires : UtOk(kind[w], u[w])' <=> UtOk(kind'[w], u'[w])
  BY DEF UtOk, HashesRight, Gentle
<1>. QED
  BY <1>1, <1>2, <1>3, <1>4 DEF MetadataInv

LEMMA OwnSteps ==
    ASSUME MetadataInv,
           \/ OnListening \/ Destroy \/ \E m \in {"good", "bad"} : OnParsed(m)
           \/ \E url \in Urls : OnXsResponse(url) \/ OnXsParsed(url) \/ OnXsError(url)
    PROVE  MetadataInv'
<1>1. CASE OnListening
  BY <1>1, TorrentStep DEF OnListening, OnMetadata
<1>2. CASE Destroy
  BY <1>2, TorrentStep DEF Destroy
<1>3. CASE \E m \in {"good", "bad"} : OnParsed(m)
  BY <1>3, TorrentStep DEF OnParsed, OnMetadata
<1>4. CASE \E url \in Urls : OnXsResponse(url) \/ OnXsParsed(url) \/ OnXsError(url)
  BY <1>4, TorrentStep DEF OnXsResponse, OnXsParsed, OnXsError, OnMetadata
<1>. QED
  BY <1>1, <1>2, <1>3, <1>4

(* No piece is forgotten, and what is taken and served has the info hash.  *)
THEOREM AlwaysFetched == MetadataSpec => []Fetched
<1>1. MetadataInit => MetadataInv
  BY MetadataInitInv
<1>2. MetadataInv /\ [MetadataNext]_metadataVars => MetadataInv'
  <2> SUFFICES ASSUME MetadataInv, [MetadataNext]_metadataVars PROVE MetadataInv'
    OBVIOUS
  <2>1. CASE \E w \in Wires : HandleWire(w) \/ OnClose(w)
    BY <2>1, HandleWireStep, CloseStep
  <2>2. CASE \E w \in Wires : \E size \in {"right", "wrong"} : OnExtendedHandshake(w, size)
    BY <2>2, HandshakeStep
  <2>3. CASE \E w \in Wires : \E p \in Pieces : OnPieceReject(w, p)
    BY <2>3, RejectStep
  <2>4. CASE \E w \in Wires : \E p \in Pieces : \E b \in Data : OnData(w, p, b)
    <3>1. PICK w \in Wires, p \in Pieces, b \in Data : OnData(w, p, b)
      BY <2>4
    <3>2. CASE Throws(w, b)
      <4>1. Throw /\ UNCHANGED <<kind, meta>>
        BY <3>1, <3>2 DEF OnData
      <4>. QED
        BY <4>1, ThrowStep
    <3>3. CASE ~Throws(w, b)
      BY <3>1, <3>3, DataStep
    <3>. QED
      BY <3>2, <3>3
  <2>5. CASE \E w \in Wires : \E i \in 1 .. MaxChecks : OnHash(w, i)
    <3>1. PICK w \in Wires, i \in 1 .. MaxChecks : OnHash(w, i)
      BY <2>5
    <3>2. i \in DOMAIN u[w].checks
      BY <3>1 DEF OnHash
    <3>. QED
      BY <3>1, <3>2, HashStep
  <2>6. CASE \/ OnListening \/ Destroy \/ \E m \in {"good", "bad"} : OnParsed(m)
             \/ \E url \in Urls : OnXsResponse(url) \/ OnXsParsed(url) \/ OnXsError(url)
    BY <2>6, OwnSteps
  <2>7. CASE UNCHANGED metadataVars
    BY <2>7, TorrentStep DEF metadataVars
  <2>. QED
    BY <2>1, <2>2, <2>3, <2>4, <2>5, <2>6, <2>7 DEF MetadataNext, UtNext
<1>3. MetadataInv => Fetched
  <2> SUFFICES ASSUME MetadataInv PROVE Fetched
    OBVIOUS
  <2>1. NothingForgotten
    <3>1. \A w \in Wires : kind[w] # "rude" => Gentle(u[w])
      BY DEF MetadataInv, UtOk
    <3>. QED
      BY <3>1 DEF NothingForgotten, Gentle
  <2>2. GoodMetadata
    BY DEF MetadataInv, GoodMetadata, RudePeer, Reply
  <2>. QED
    BY <2>1, <2>2 DEF Fetched
<1>. QED
  BY <1>1, <1>2, <1>3, PTL DEF MetadataSpec

(* The metadata is set once, and never after destroy.                      *)
THEOREM MetadataSetOnce == MetadataSpec => SetOnce
<1>1. [MetadataNext]_metadataVars => [meta' # meta => meta = "none" /\ ~destroyed]_metadataVars
  <2> SUFFICES ASSUME MetadataNext PROVE meta' # meta => meta = "none" /\ ~destroyed
    OBVIOUS
  <2>1. CASE \E w \in Wires : UtNext(w)
    <3>1. \A w \in Wires : HandleWire(w) \/ OnClose(w) => meta' = meta
      BY DEF HandleWire, OnClose
    <3>2. \A w \in Wires, size \in {"right", "wrong"} : OnExtendedHandshake(w, size) => meta' = meta
      BY DEF OnExtendedHandshake
    <3>3. \A w \in Wires, p \in Pieces : OnPieceReject(w, p) => meta' = meta
      BY DEF OnPieceReject
    <3>4. \A w \in Wires, p \in Pieces, b \in Data : OnData(w, p, b) => meta' = meta
      BY DEF OnData
    <3>5. \A w \in Wires, i \in 1 .. MaxChecks : OnHash(w, i) => meta' = meta
      BY DEF OnHash
    <3>. QED
      BY <2>1, <3>1, <3>2, <3>3, <3>4, <3>5 DEF UtNext
  <2>2. CASE OnListening \/ Destroy
    BY <2>2 DEF OnListening, Destroy, OnMetadata
  <2>3. CASE \E m \in {"good", "bad"} : OnParsed(m)
    BY <2>3 DEF OnParsed, OnMetadata
  <2>4. CASE \E url \in Urls : OnXsResponse(url) \/ OnXsParsed(url) \/ OnXsError(url)
    BY <2>4 DEF OnXsResponse, OnXsParsed, OnXsError, OnMetadata
  <2>. QED
    BY <2>1, <2>2, <2>3, <2>4 DEF MetadataNext
<1>. QED
  BY <1>1, PTL DEF MetadataSpec, SetOnce
=============================================================================
