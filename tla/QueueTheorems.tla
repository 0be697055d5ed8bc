--------------------------- MODULE QueueTheorems ---------------------------
(***************************************************************************)
(* What the enqueue and the dequeue of a FIFO do to the set of its         *)
(* elements, and to the number of times it holds one.                      *)
(***************************************************************************)
EXTENDS Counting, SequenceTheorems, FiniteSetTheorems, TLAPS

\* Enqueuing adds the element, and repeats none if it is new: SafeQueue::enqueue,
\* m_taskqueue.emplace.
LEMMA EnqueueElements ==
  ASSUME NEW S, NEW q \in Seq(S), NEW e \in S
  PROVE  /\ ToSet(Append(q, e)) = ToSet(q) \union {e}
         /\ IsInjective(q) /\ e \notin ToSet(q) => IsInjective(Append(q, e))
<1> DEFINE r == Append(q, e)
<1>1. /\ Len(q) \in Nat /\ DOMAIN q = 1..Len(q)
      /\ DOMAIN r = 1..(Len(q) + 1)
      /\ \A i \in 1..Len(q) : r[i] = q[i]
      /\ r[Len(q) + 1] = e
  BY AppendProperties, LenProperties
<1>2. DOMAIN r = DOMAIN q \union {Len(q) + 1}
  BY <1>1
<1>3. ToSet(r) = ToSet(q) \union {e}
  BY <1>1, <1>2 DEF ToSet
<1>4. ASSUME IsInjective(q), e \notin ToSet(q),
             NEW i \in DOMAIN r, NEW j \in DOMAIN r, r[i] = r[j]
      PROVE  i = j
  <2>1. \A k \in DOMAIN q : q[k] # e
    BY <1>4 DEF ToSet
  <2> QED
    BY <1>1, <1>2, <1>4, <2>1 DEF IsInjective
<1>5. IsInjective(q) /\ e \notin ToSet(q) => IsInjective(r)
  BY <1>4 DEF IsInjective
<1> QED
  BY <1>3, <1>5

\* Dequeuing takes the head away, and with it its only occurrence:
\* SafeQueue::dequeue, front and pop of m_taskqueue.
LEMMA DequeueElements ==
  ASSUME NEW S, NEW q \in Seq(S), q # <<>>
  PROVE  /\ Head(q) \in S /\ Tail(q) \in Seq(S)
         /\ ToSet(q) = {Head(q)} \union ToSet(Tail(q))
         /\ IsInjective(q) => IsInjective(Tail(q)) /\ Head(q) \notin ToSet(Tail(q))
<1> DEFINE r == Tail(q)
<1>1. /\ Len(q) \in Nat \ {0} /\ DOMAIN q = 1..Len(q)
      /\ r \in Seq(S) /\ Len(r) = Len(q) - 1 /\ DOMAIN r = 1..(Len(q) - 1)
      /\ \A i \in 1..(Len(q) - 1) : r[i] = q[i + 1]
      /\ Head(q) = q[1] /\ Head(q) \in S
  BY HeadTailProperties, LenProperties, EmptySeq
<1>2. \A i \in DOMAIN r : i + 1 \in DOMAIN q /\ r[i] = q[i + 1]
  BY <1>1
<1>3. \A k \in DOMAIN q : k = 1 \/ (k - 1 \in DOMAIN r /\ r[k - 1] = q[k])
  BY <1>1
<1>4. ToSet(q) = {Head(q)} \union ToSet(r)
  BY <1>1, <1>2, <1>3 DEF ToSet
<1>5. ASSUME IsInjective(q), NEW i \in DOMAIN r, NEW j \in DOMAIN r, r[i] = r[j]
      PROVE  i = j
  BY <1>1, <1>2, <1>5 DEF IsInjective
<1>6. ASSUME IsInjective(q), NEW i \in DOMAIN r
      PROVE  r[i] # Head(q)
  BY <1>1, <1>2, <1>6 DEF IsInjective
<1>7. IsInjective(q) => IsInjective(r)
  BY <1>5 DEF IsInjective
<1>8. IsInjective(q) => Head(q) \notin ToSet(r)
  BY <1>6 DEF ToSet
<1> QED
  BY <1>1, <1>4, <1>7, <1>8

\* Writing several elements at once adds theirs to the set: the requests of one
\* pass of the retransmission thread.
LEMMA ConcatElements ==
  ASSUME NEW S, NEW q \in Seq(S), NEW r \in Seq(S)
  PROVE  ToSet(q \o r) = ToSet(q) \union ToSet(r)
<1> DEFINE c == q \o r
<1>1. /\ Len(q) \in Nat /\ DOMAIN q = 1..Len(q)
      /\ Len(r) \in Nat /\ DOMAIN r = 1..Len(r)
      /\ DOMAIN c = 1..(Len(q) + Len(r))
      /\ \A i \in 1..(Len(q) + Len(r)) : c[i] = IF i =< Len(q) THEN q[i] ELSE r[i - Len(q)]
  BY ConcatProperties, LenProperties
<1>2. \A i \in DOMAIN q : i \in DOMAIN c /\ c[i] = q[i]
  BY <1>1
<1>3. \A i \in DOMAIN r : i + Len(q) \in DOMAIN c /\ c[i + Len(q)] = r[i]
  BY <1>1
<1>4. \A i \in DOMAIN c : \/ i \in DOMAIN q /\ c[i] = q[i]
                          \/ i - Len(q) \in DOMAIN r /\ c[i] = r[i - Len(q)]
  BY <1>1
<1> HIDE DEF c
<1>5. ToSet(c) = ToSet(q) \union ToSet(r)
  BY <1>2, <1>3, <1>4 DEF ToSet
<1> QED
  BY <1>5 DEF c

-----------------------------------------------------------------------------
(* How many times an element is in a FIFO, and in a bag *)

\* The occurrences in a FIFO are countable, and it has none of what it does not hold.
LEMMA TimesType ==
  ASSUME NEW S, NEW q \in Seq(S), NEW e
  PROVE  /\ Times(e, q) \in Nat
         /\ Times(e, q) = 0 <=> e \notin ToSet(q)
<1> DEFINE I == {i \in DOMAIN q : q[i] = e}
<1>1. Len(q) \in Nat /\ DOMAIN q = 1..Len(q)
  BY LenProperties
<1>2. IsFiniteSet(DOMAIN q)
  BY <1>1, FS_Interval
<1>3. IsFiniteSet(I)
  BY <1>2, FS_Subset
<1>4. I = {} <=> e \notin ToSet(q)
  BY DEF ToSet
<1> QED
  BY <1>3, <1>4, FS_CardinalityType, FS_EmptySet DEF Times

LEMMA TimesEmpty == \A e : Times(e, <<>>) = 0
<1> SUFFICES ASSUME NEW e PROVE Times(e, <<>>) = 0
  OBVIOUS
<1>1. {i \in DOMAIN <<>> : <<>>[i] = e} = {}
  OBVIOUS
<1> QED
  BY <1>1, FS_EmptySet DEF Times

\* A FIFO of one element.
LEMMA TimesOne == ASSUME NEW e, NEW x PROVE Times(e, <<x>>) = IF x = e THEN 1 ELSE 0
<1>1. {i \in DOMAIN <<x>> : <<x>>[i] = e} = IF x = e THEN {1} ELSE {}
  OBVIOUS
<1> QED
  BY <1>1, FS_EmptySet, FS_Singleton DEF Times

\* Enqueuing adds one occurrence of what is enqueued.
LEMMA TimesAppend ==
  ASSUME NEW S, NEW q \in Seq(S), NEW x \in S, NEW e
  PROVE  Times(e, Append(q, x)) = Times(e, q) + (IF x = e THEN 1 ELSE 0)
<1> DEFINE r == Append(q, x)
           I == {i \in DOMAIN q : q[i] = e}
           J == {i \in DOMAIN r : r[i] = e}
<1>1. /\ Len(q) \in Nat /\ DOMAIN q = 1..Len(q)
      /\ DOMAIN r = 1..(Len(q) + 1)
      /\ \A i \in 1..Len(q) : r[i] = q[i]
      /\ r[Len(q) + 1] = x
  BY AppendProperties, LenProperties
<1>2. IsFiniteSet(I)
  <2>1. IsFiniteSet(DOMAIN q)
    BY <1>1, FS_Interval
  <2> QED
    BY <2>1, FS_Subset
<1> HIDE DEF r
<1>3. Len(q) + 1 \notin I
  BY <1>1
<1>4. CASE x = e
  <2>1. J = I \union {Len(q) + 1}
    BY <1>1, <1>4
  <2>2. Cardinality(J) = Cardinality(I) + 1
    BY <1>2, <1>3, <2>1, FS_AddElement
  <2> QED
    BY <1>4, <2>2 DEF Times, r
<1>5. CASE x # e
  <2>1. J = I
    BY <1>1, <1>5
  <2>2. Cardinality(I) \in Nat
    BY <1>2, FS_CardinalityType
  <2>3. Cardinality(J) = Cardinality(I)
    BY <2>1
  <2>4. Times(e, Append(q, x)) = Times(e, q)
    BY <2>3 DEF Times, r
  <2>5. Times(e, q) \in Nat
    BY <2>2 DEF Times
  <2> QED
    BY <1>5, <2>4, <2>5
<1> QED
  BY <1>4, <1>5

\* Dequeuing takes away one occurrence of the head.
LEMMA TimesTail ==
  ASSUME NEW S, NEW q \in Seq(S), q # <<>>, NEW e
  PROVE  Times(e, q) = Times(e, Tail(q)) + (IF Head(q) = e THEN 1 ELSE 0)
<1> DEFINE r == Tail(q)
           I == {i \in DOMAIN q : q[i] = e}
           J == {i \in DOMAIN r : r[i] = e}
           K == {i \in I : i # 1}
           f == [i \in J |-> i + 1]
<1>1. /\ Len(q) \in Nat \ {0} /\ DOMAIN q = 1..Len(q)
      /\ DOMAIN r = 1..(Len(q) - 1)
      /\ \A i \in 1..(Len(q) - 1) : r[i] = q[i + 1]
      /\ Head(q) = q[1]
  BY HeadTailProperties, LenProperties, EmptySeq
<1>2. IsFiniteSet(I) /\ IsFiniteSet(J)
  <2>1. IsFiniteSet(DOMAIN q) /\ IsFiniteSet(DOMAIN r)
    BY <1>1, FS_Interval
  <2> QED
    BY <2>1, FS_Subset
<1> HIDE DEF r
<1>3. f \in Bijection(J, K)
  <2>1. \A i \in J : i + 1 \in K
    BY <1>1
  <2>2. \A i, j \in J : i + 1 = j + 1 => i = j
    BY <1>1
  <2>3. \A k \in K : k - 1 \in J /\ (k - 1) + 1 = k
    BY <1>1
  <2>4. f \in [J -> K] /\ \A i \in J : f[i] = i + 1
    BY <2>1
  <2> HIDE DEF f, J, K
  <2>5. f \in Injection(J, K)
    BY <2>2, <2>4 DEF Injection, IsInjective
  <2>6. f \in Surjection(J, K)
    BY <2>3, <2>4 DEF Surjection
  <2> QED
    BY <2>5, <2>6 DEF Bijection
<1>4. Cardinality(K) = Cardinality(J) /\ IsFiniteSet(K)
  <2>1. ExistsBijection(J, K)
    BY <1>3 DEF ExistsBijection
  <2> QED
    BY <1>2, <2>1, FS_Bijection
<1>5. Cardinality(J) \in Nat
  BY <1>2, FS_CardinalityType
<1>6. CASE Head(q) = e
  <2>1. I = K \union {1} /\ 1 \notin K
    BY <1>1, <1>6
  <2>2. Cardinality(I) = Cardinality(K) + 1
    BY <1>4, <2>1, FS_AddElement
  <2> QED
    BY <1>4, <1>6, <2>2 DEF Times, r
<1>7. CASE Head(q) # e
  <2>1. I = K
    BY <1>1, <1>7
  <2>2. Cardinality(I) = Cardinality(J)
    BY <1>4, <2>1
  <2>3. Times(e, q) = Times(e, Tail(q))
    BY <2>2 DEF Times, r
  <2>4. Times(e, Tail(q)) \in Nat
    BY <1>5 DEF Times, r
  <2> QED
    BY <1>7, <2>3, <2>4
<1> QED
  BY <1>6, <1>7

\* A FIFO cut in two: what it holds is in the one part or in the other.  The first
\* part is what a broken connection to the broker takes with it.
LEMMA TimesSplit ==
  ASSUME NEW S, NEW q \in Seq(S), NEW n \in 0 .. Len(q)
  PROVE  /\ SubSeq(q, 1, n) \in Seq(S) /\ SubSeq(q, n + 1, Len(q)) \in Seq(S)
         /\ \A e : Times(e, q) = Times(e, SubSeq(q, 1, n)) + Times(e, SubSeq(q, n + 1, Len(q)))
<1> DEFINE a == SubSeq(q, 1, n)
           b == SubSeq(q, n + 1, Len(q))
<1>1. PICK l \in Nat : l = Len(q) /\ DOMAIN q = 1..l /\ \A i \in 1..l : q[i] \in S
  BY LenProperties, ElementOfSeq
<1>2. n \in 0..l /\ n \in Nat
  BY <1>1
<1>3. a \in Seq(S) /\ Len(a) = n /\ \A i \in 1..n : a[i] = q[i]
  <2>1. \A i \in 1..n : q[i] \in S
    BY <1>1, <1>2
  <2>2. /\ a \in Seq(S) /\ Len(a) = IF 1 =< n THEN n - 1 + 1 ELSE 0
        /\ \A i \in 1 .. n - 1 + 1 : a[i] = q[1 + i - 1]
    BY <1>2, <2>1, SubSeqProperties
  <2> HIDE DEF a
  <2> QED
    BY <1>2, <2>2
<1>4. b \in Seq(S) /\ Len(b) = l - n /\ \A i \in 1..(l - n) : b[i] = q[i + n]
  <2>1. \A i \in (n + 1)..l : q[i] \in S
    BY <1>1, <1>2
  <2>2. /\ b \in Seq(S) /\ Len(b) = IF n + 1 =< l THEN l - (n + 1) + 1 ELSE 0
        /\ \A i \in 1 .. l - (n + 1) + 1 : b[i] = q[n + 1 + i - 1]
    BY <1>1, <1>2, <2>1, SubSeqProperties
  <2> HIDE DEF b
  <2> QED
    BY <1>2, <2>2
<1>5. DOMAIN a = 1..n /\ DOMAIN b = 1..(l - n)
  BY <1>3, <1>4, LenProperties
<1> HIDE DEF a, b
<1>6. ASSUME NEW e PROVE Times(e, q) = Times(e, a) + Times(e, b)
  <2> DEFINE I == {i \in 1..l : q[i] = e}
             J == {i \in 1..n : q[i] = e}
             K == {i \in 1..(l - n) : b[i] = e}
             M == {i \in (n + 1)..l : q[i] = e}
             f == [i \in K |-> i + n]
  <2>1. IsFiniteSet(J) /\ IsFiniteSet(K)
    <3>1. IsFiniteSet(1..n) /\ IsFiniteSet(1..(l - n))
      BY <1>2, FS_Interval
    <3> QED
      BY <3>1, FS_Subset
  <2>2. f \in Bijection(K, M)
    <3>1. \A i \in K : i + n \in M
      BY <1>2, <1>4
    <3>2. \A i, j \in K : i + n = j + n => i = j
      BY <1>2
    <3>3. \A k \in M : k - n \in K /\ (k - n) + n = k
      <4> SUFFICES ASSUME NEW k \in M PROVE k - n \in K /\ (k - n) + n = k
        OBVIOUS
      <4>1. k - n \in 1..(l - n) /\ (k - n) + n = k
        BY <1>2
      <4> QED
        BY <1>4, <4>1
    <3>4. f \in [K -> M] /\ \A i \in K : f[i] = i + n
      BY <3>1
    <3> HIDE DEF f, K, M
    <3>5. f \in Injection(K, M)
      BY <3>2, <3>4 DEF Injection, IsInjective
    <3>6. f \in Surjection(K, M)
      BY <3>3, <3>4 DEF Surjection
    <3> QED
      BY <3>5, <3>6 DEF Bijection
  <2>3. Cardinality(M) = Cardinality(K) /\ IsFiniteSet(M)
    BY <2>1, <2>2, FS_Bijection DEF ExistsBijection
  <2>4. I = J \union M /\ J \intersect M = {}
    BY <1>2
  <2>5. Cardinality(I) = Cardinality(J) + Cardinality(M)
    <3>1. Cardinality(J \union M) = Cardinality(J) + Cardinality(M) - Cardinality(J \intersect M)
      BY <2>1, <2>3, FS_Union
    <3>2. Cardinality(J \intersect M) = 0 /\ Cardinality(J) \in Nat /\ Cardinality(M) \in Nat
      BY <2>1, <2>3, <2>4, FS_EmptySet, FS_CardinalityType
    <3> HIDE DEF I, J, M
    <3> QED
      BY <2>4, <3>1, <3>2
  <2>6. Times(e, q) = Cardinality(I) /\ Times(e, b) = Cardinality(K)
    BY <1>1, <1>5 DEF Times
  <2>7. {i \in DOMAIN a : a[i] = e} = J
    BY <1>3, <1>5
  <2>8. Times(e, a) = Cardinality(J)
    BY <2>7 DEF Times
  <2> HIDE DEF I, J, K, M
  <2> QED
    BY <2>3, <2>5, <2>6, <2>8
<1> QED
  BY <1>3, <1>4, <1>6 DEF a, b

\* The sum of two bags has the copies of both.
LEMMA BagSum ==
  ASSUME NEW A, NEW B, IsABag(A), IsABag(B)
  PROVE  /\ IsABag(A (+) B) /\ BagToSet(A (+) B) = BagToSet(A) \union BagToSet(B)
         /\ \A e : /\ Copies(e, A) \in Nat
                   /\ Copies(e, A (+) B) = Copies(e, A) + Copies(e, B)
<1> DEFINE P == A (+) B
<1>1. /\ \A y \in DOMAIN A : A[y] \in Nat /\ A[y] > 0
      /\ \A y \in DOMAIN B : B[y] \in Nat /\ B[y] > 0
  BY DEF IsABag
<1>2. /\ DOMAIN P = DOMAIN A \union DOMAIN B /\ P = [y \in DOMAIN P |-> P[y]]
      /\ \A y \in DOMAIN P : P[y] = (IF y \in DOMAIN A THEN A[y] ELSE 0)
                                      + (IF y \in DOMAIN B THEN B[y] ELSE 0)
  BY <1>1 DEF (+)
<1> HIDE DEF P
<1>3. IsABag(P) /\ BagToSet(P) = BagToSet(A) \union BagToSet(B)
  <2>1. \A y \in DOMAIN P : P[y] \in Nat /\ P[y] > 0
    BY <1>1, <1>2
  <2> QED
    BY <1>2, <2>1 DEF IsABag, BagToSet
<1>4. \A e : Copies(e, A) \in Nat /\ Copies(e, P) = Copies(e, A) + Copies(e, B)
  BY <1>1, <1>2 DEF Copies, BagIn, BagToSet
<1> QED
  BY <1>3, <1>4 DEF P

\* A set as a bag.
LEMMA BagOfSet ==
  ASSUME NEW S
  PROVE  /\ IsABag(SetToBag(S)) /\ BagToSet(SetToBag(S)) = S
         /\ \A e : Copies(e, SetToBag(S)) = IF e \in S THEN 1 ELSE 0
BY DEF SetToBag, IsABag, BagToSet, Copies, BagIn

\* A bag over S that gains a copy of x.
LEMMA BagMore ==
  ASSUME NEW S, NEW B, IsABag(B), BagToSet(B) \subseteq S, NEW x \in S
  PROVE  /\ IsABag(SetToBag({x})) /\ BagToSet(SetToBag({x})) \subseteq S
         /\ IsABag(B (+) SetToBag({x})) /\ BagToSet(B (+) SetToBag({x})) \subseteq S
         /\ \A e : /\ Copies(e, SetToBag({x})) = IF e = x THEN 1 ELSE 0
                   /\ Copies(e, B) \in Nat
                   /\ Copies(e, B (+) SetToBag({x})) = Copies(e, B) + (IF e = x THEN 1 ELSE 0)
<1> DEFINE X == SetToBag({x})
<1>1. /\ IsABag(X) /\ BagToSet(X) = {x}
      /\ \A e : Copies(e, X) = IF e = x THEN 1 ELSE 0
  BY BagOfSet
<1> HIDE DEF X
<1>2. /\ IsABag(B (+) X) /\ BagToSet(B (+) X) = BagToSet(B) \union BagToSet(X)
      /\ \A e : /\ Copies(e, B) \in Nat
                /\ Copies(e, B (+) X) = Copies(e, B) + Copies(e, X)
  BY <1>1, BagSum
<1> QED
  BY <1>1, <1>2 DEF X

\* A bag that loses a copy of x.
LEMMA BagLess ==
  ASSUME NEW B, IsABag(B), NEW x, BagIn(x, B)
  PROVE  /\ IsABag(B (-) SetToBag({x}))
         /\ BagToSet(B (-) SetToBag({x})) \subseteq BagToSet(B)
         /\ \A e : Copies(e, B) = Copies(e, B (-) SetToBag({x})) + (IF e = x THEN 1 ELSE 0)
<1> DEFINE X == SetToBag({x})
           M == B (-) X
<1>1. \A y \in DOMAIN B : B[y] \in Nat /\ B[y] > 0
  BY DEF IsABag
<1>2. DOMAIN X = {x} /\ X[x] = 1
  BY DEF SetToBag
<1> HIDE DEF X
<1> DEFINE C == [e \in DOMAIN B |-> IF e \in DOMAIN X THEN B[e] - X[e] ELSE B[e]]
<1>3. /\ DOMAIN C = DOMAIN B
      /\ \A y \in DOMAIN B : C[y] = B[y] - (IF y = x THEN 1 ELSE 0)
  BY <1>1, <1>2
<1>4. M = [e \in {d \in DOMAIN C : C[d] > 0} |-> C[e]]
  BY DEF (-)
<1> HIDE DEF C, M
<1>5. DOMAIN M = {d \in DOMAIN B : C[d] > 0} /\ \A y \in DOMAIN M : M[y] = C[y]
  BY <1>3, <1>4
<1>6. \A y \in DOMAIN B : C[y] \in Nat
  BY <1>1, <1>3
<1>7. IsABag(M) /\ BagToSet(M) \subseteq BagToSet(B)
  <2>1. \A y \in DOMAIN M : M[y] \in Nat /\ M[y] > 0
    BY <1>5, <1>6
  <2> QED
    BY <1>4, <1>5, <2>1 DEF IsABag, BagToSet
<1>8. ASSUME NEW e PROVE Copies(e, B) = Copies(e, M) + (IF e = x THEN 1 ELSE 0)
  <2>1. x \in DOMAIN B
    BY DEF BagIn, BagToSet
  <2>2. CASE e \notin DOMAIN B
    BY <1>5, <2>1, <2>2 DEF Copies, BagIn, BagToSet
  <2>3. CASE e \in DOMAIN M
    BY <1>1, <1>3, <1>5, <2>3 DEF Copies, BagIn, BagToSet
  <2>4. CASE e \in DOMAIN B /\ e \notin DOMAIN M
    <3>1. C[e] = 0
      BY <1>5, <1>6, <2>4
    <3>2. e = x /\ B[e] = 1
      BY <1>1, <1>3, <2>4, <3>1
    <3> QED
      BY <2>4, <3>2 DEF Copies, BagIn, BagToSet
  <2> QED
    BY <1>5, <2>2, <2>3, <2>4
<1> QED
  BY <1>7, <1>8 DEF M, X

\* A FIFO as a bag.
LEMMA BagOfFifo ==
  ASSUME NEW S, NEW q \in Seq(S)
  PROVE  LET B == [e \in ToSet(q) |-> Times(e, q)]
         IN  /\ IsABag(B) /\ BagToSet(B) = ToSet(q) /\ ToSet(q) \subseteq S
             /\ \A e : Copies(e, B) = Times(e, q)
<1> DEFINE B == [e \in ToSet(q) |-> Times(e, q)]
<1>1. \A e : Times(e, q) \in Nat /\ (Times(e, q) = 0 <=> e \notin ToSet(q))
  BY TimesType
<1>2. ToSet(q) \subseteq S
  BY DEF ToSet
<1>3. IsABag(B) /\ BagToSet(B) = ToSet(q)
  BY <1>1 DEF IsABag, BagToSet
<1>4. \A e : Copies(e, B) = Times(e, q)
  BY <1>1 DEF Copies, BagIn, BagToSet
<1> QED
  BY <1>2, <1>3, <1>4

-----------------------------------------------------------------------------
(* How many elements a set has *)

\* A set in which at most w changes.
LEMMA CountStep ==
  ASSUME NEW A, NEW B, NEW w, IsFiniteSet(A), B \ {w} = A \ {w}
  PROVE  /\ IsFiniteSet(B) /\ Cardinality(A) \in Nat /\ Cardinality(B) \in Nat
         /\ Cardinality(B) + (IF w \in A THEN 1 ELSE 0) = Cardinality(A) + (IF w \in B THEN 1 ELSE 0)
<1> DEFINE C == A \ {w}
<1>1. IsFiniteSet(C) /\ w \notin C
  BY FS_Subset
<1>2. Cardinality(C) \in Nat
  BY <1>1, FS_CardinalityType
<1> HIDE DEF C
<1>3. ASSUME NEW X, X \ {w} = C
      PROVE  /\ IsFiniteSet(X) /\ Cardinality(X) \in Nat
             /\ Cardinality(X) = Cardinality(C) + (IF w \in X THEN 1 ELSE 0)
  <2>1. CASE w \in X
    <3>1. X = C \union {w}
      BY <1>3, <2>1
    <3>2. IsFiniteSet(C \union {w}) /\ Cardinality(C \union {w}) = Cardinality(C) + 1
      BY <1>1, FS_AddElement
    <3> QED
      BY <1>2, <2>1, <3>1, <3>2
  <2>2. CASE w \notin X
    <3>1. X = C
      BY <1>3, <2>2
    <3> QED
      BY <1>1, <1>2, <2>2, <3>1
  <2> QED
    BY <2>1, <2>2
<1>4. A \ {w} = C /\ B \ {w} = C
  BY DEF C
<1>5. /\ Cardinality(A) = Cardinality(C) + (IF w \in A THEN 1 ELSE 0) /\ Cardinality(A) \in Nat
      /\ Cardinality(B) = Cardinality(C) + (IF w \in B THEN 1 ELSE 0) /\ Cardinality(B) \in Nat
      /\ IsFiniteSet(B)
  BY <1>3, <1>4
<1> QED
  BY <1>2, <1>5

\* Membership as a number.
LEMMA CountOne ==
  ASSUME NEW e, NEW S
  PROVE  Cardinality({e} \intersect S) = IF e \in S THEN 1 ELSE 0
<1>1. CASE e \in S
  <2>1. {e} \intersect S = {e}
    BY <1>1
  <2> QED
    BY <1>1, <2>1, FS_Singleton
<1>2. CASE e \notin S
  <2>1. {e} \intersect S = {}
    BY <1>2
  <2> QED
    BY <1>2, <2>1, FS_EmptySet
<1> QED
  BY <1>1, <1>2
=============================================================================
