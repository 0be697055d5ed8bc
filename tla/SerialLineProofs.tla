-------------------------- MODULE SerialLineProofs --------------------------
(***************************************************************************)
(* Proofs about SerialLine, for any number of writers, any messages, any   *)
(* tearing of the frames and any length of a payload.                      *)
(*                                                                         *)
(* The invariant LineInv describes the stream, all that was ever put on    *)
(* the line, as a sequence of blocks of FrameLen bytes, one for each       *)
(* message begun: what a block ends with is known as soon as the block is  *)
(* full, and a block that only one writer filled is that writer's frame.   *)
(* The reader takes the blocks one by one until a byte is lost, and takes  *)
(* them one byte off from then on.                                         *)
(*                                                                         *)
(* That a whole frame is read back as Expected says is CodecRoundTrip:     *)
(* std::to_string, std::stoull, the separation into parts and the five     *)
(* parsers, for every message.  The induction over numbers and sequences   *)
(* has the property as a set (NatInd, StrongInd), and Recursion shows that *)
(* the functions the codec defines recursively exist.                      *)
(***************************************************************************)
EXTENDS SerialLine, QueueTheorems

Byte == 0..255
Digit == 48..57

-----------------------------------------------------------------------------
(* Induction *)

LEMMA LessThan ==
  \E R : IsWellFoundedOn(R, Nat) /\ \A a, b \in Nat : a < b => <<a, b>> \in R
<1>1. \A a, b \in Nat : a < b => <<a, b>> \in OpToRel(<, Nat)
  BY DEF OpToRel
<1> QED
  BY <1>1, NatLessThanWellFounded

LEMMA FirstOf == ASSUME NEW T, T \subseteq Nat, T # {} PROVE Min(T) \in T /\ \A y \in T : Min(T) =< y
<1>1. PICK R : IsWellFoundedOn(R, Nat) /\ \A a, b \in Nat : a < b => <<a, b>> \in R
  BY LessThan
<1>2. PICK x \in T : \A y \in T : ~(<<y, x>> \in R)
  <2>1. \A Q, S, U : IsWellFoundedOn(Q, S) /\ U \subseteq S /\ U # {}
                       => \E x \in U : \A y \in U : ~(<<y, x>> \in Q)
    BY WFMin
  <2>2. IsWellFoundedOn(R, Nat)
    BY <1>1
  <2> QED
    BY <2>1, <2>2, Zenon
<1>3. ASSUME NEW y \in T PROVE x =< y
  <2>1. y \in Nat /\ x \in Nat
    OBVIOUS
  <2>2. y < x => <<y, x>> \in R
    BY <1>1, <2>1, Zenon
  <2>3. ~(y < x)
    BY <2>2, <1>2, Zenon
  <2> QED
    BY <2>1, <2>3
<1> QED
  BY <1>3 DEF Min

\* Induction, with the property as a set.
LEMMA NatInd ==
  ASSUME NEW S, 0 \in S, \A n \in Nat : n \in S => n + 1 \in S
  PROVE  \A n \in Nat : n \in S
<1>1. SUFFICES ASSUME Nat \ S # {} PROVE FALSE
  OBVIOUS
<1>2. PICK x \in Nat \ S : \A y \in Nat \ S : x =< y
  BY <1>1, FirstOf
<1>3. x - 1 \in Nat /\ x - 1 \in S
  BY <1>2
<1> QED
  BY <1>2, <1>3

\* f starts with a and goes on by the function step up to n.
Iterates(S, a, step, n, f) ==
  f \in [0..n -> S] /\ f[0] = a /\ \A k \in 0..(n - 1) : f[k + 1] = step[<<k, f[k]>>]

LEMMA Recursion ==
  ASSUME NEW S, NEW a \in S, NEW step \in [Nat \X S -> S], NEW n \in Nat
  PROVE  \E f : Iterates(S, a, step, n, f)
<1> DEFINE Good(m, f) == f[0] = a /\ \A k \in 0..(m - 1) : f[k + 1] = step[<<k, f[k]>>]
           T == {m \in Nat : \E f \in [0..m -> S] : Good(m, f)}
<1>1. 0 \in T
  <2>1. [k \in 0..0 |-> a] \in [0..0 -> S] /\ Good(0, [k \in 0..0 |-> a])
    OBVIOUS
  <2> QED
    BY <2>1
<1>2. ASSUME NEW m \in Nat, m \in T PROVE m + 1 \in T
  <2>1. PICK f \in [0..m -> S] : Good(m, f)
    BY <1>2
  <2>2. m \in 0..m /\ f[m] \in S
    OBVIOUS
  <2>3. PICK e \in S : e = step[<<m, f[m]>>]
    BY <2>2
  <2> DEFINE g == [k \in 0..(m + 1) |-> IF k = m + 1 THEN e ELSE f[k]]
  <2>4. g \in [0..(m + 1) -> S] /\ g[m + 1] = e /\ \A k \in 0..m : g[k] = f[k]
    <3>1. ASSUME NEW k \in 0..(m + 1), k # m + 1 PROVE f[k] \in S
      <4>1. k \in 0..m
        BY <3>1
      <4> QED
        BY <4>1
    <3>2. \A k \in 0..m : k # m + 1 /\ k \in 0..(m + 1)
      OBVIOUS
    <3>3. m + 1 \in 0..(m + 1)
      OBVIOUS
    <3> QED
      BY <3>1, <3>2, <3>3
  <2> HIDE DEF g
  <2>5. ASSUME NEW k \in 0..m PROVE g[k + 1] = step[<<k, g[k]>>]
    <3>1. CASE k = m
      BY <3>1, <2>2, <2>3, <2>4
    <3>2. CASE k # m
      <4>1. k \in 0..(m - 1) /\ k + 1 \in 0..m
        BY <3>2
      <4>2. f[k + 1] = step[<<k, f[k]>>]
        BY <2>1, <4>1
      <4> QED
        BY <2>4, <4>1, <4>2
    <3> QED
      BY <3>1, <3>2
  <2>6. (m + 1) - 1 = m /\ 0 \in 0..m /\ m + 1 \in Nat
    OBVIOUS
  <2>7. g[0] = a
    BY <2>1, <2>4, <2>6
  <2>8. Good(m + 1, g)
    BY ONLY <2>5, <2>6, <2>7
  <2> HIDE DEF Good
  <2> QED
    BY <2>4, <2>6, <2>8
<1>3. n \in T
  <2> HIDE DEF T
  <2> QED
    BY <1>1, <1>2, NatInd
<1> QED
  BY <1>3 DEF Iterates

LEMMA StrongInd ==
  ASSUME NEW S, \A n \in Nat : (\A k \in 0..(n - 1) : k \in S) => n \in S
  PROVE  \A n \in Nat : n \in S
<1> DEFINE T == {n \in Nat : \A k \in 0..(n - 1) : k \in S}
<1>1. 0 \in T
  OBVIOUS
<1>2. ASSUME NEW n \in Nat, n \in T PROVE n + 1 \in T
  <2>1. n \in S
    BY <1>2
  <2>2. \A k \in 0..((n + 1) - 1) : k \in 0..(n - 1) \/ k = n
    OBVIOUS
  <2> QED
    BY <1>2, <2>1, <2>2
<1>3. \A n \in Nat : n \in T
  <2> HIDE DEF T
  <2> QED
    BY <1>1, <1>2, NatInd
<1> QED
  BY <1>3

-----------------------------------------------------------------------------
(* std::to_string *)

\* h is std::to_string of the numbers up to m.
DigitsUpTo(m, h) ==
  /\ h \in [0..m -> Seq(Digit)]
  /\ \A n \in 0..m : h[n] = IF n < 10 THEN <<48 + n>> ELSE Append(h[n \div 10], 48 + (n % 10))

LEMMA Division ==
  ASSUME NEW n \in Nat
  PROVE  /\ n \div 10 \in Nat /\ n % 10 \in 0..9
         /\ n = 10 * (n \div 10) + (n % 10)
         /\ n >= 10 => n \div 10 < n /\ n \div 10 > 0
         /\ n < 100 => n \div 10 < 10
         /\ n >= 100 => n \div 10 >= 10
OBVIOUS

LEMMA DigitsThere == ASSUME NEW m \in Nat PROVE \E h : DigitsUpTo(m, h)
<1> DEFINE T == {k \in Nat : \E h : DigitsUpTo(k, h)}
<1>1. 0 \in T
  <2> DEFINE h == [k \in 0..0 |-> <<48>>]
  <2>1. <<48>> \in Seq(Digit)
    BY DEF Digit
  <2>2. DigitsUpTo(0, h)
    BY <2>1 DEF DigitsUpTo
  <2> QED
    BY <2>2
<1>2. ASSUME NEW k \in Nat, k \in T PROVE k + 1 \in T
  <2>1. PICK h : DigitsUpTo(k, h)
    BY <1>2
  <2> DEFINE n == k + 1
  <2>2. PICK e \in Seq(Digit) : e = IF n < 10 THEN <<48 + n>> ELSE Append(h[n \div 10], 48 + (n % 10))
    <3>1. CASE n < 10
      <4>1. <<48 + n>> \in Seq(Digit)
        BY <3>1 DEF Digit
      <4> QED
        BY <3>1, <4>1
    <3>2. CASE ~(n < 10)
      <4>1. n \div 10 \in 0..k /\ 48 + (n % 10) \in Digit
        BY <3>2, Division DEF Digit
      <4>2. h[n \div 10] \in Seq(Digit)
        BY <4>1, <2>1 DEF DigitsUpTo
      <4>3. Append(h[n \div 10], 48 + (n % 10)) \in Seq(Digit)
        BY <4>1, <4>2, AppendProperties
      <4> QED
        BY <3>2, <4>3
    <3> QED
      BY <3>1, <3>2
  <2> DEFINE g == [j \in 0..n |-> IF j = n THEN e ELSE h[j]]
  <2>3. g \in [0..n -> Seq(Digit)] /\ g[n] = e /\ \A j \in 0..k : g[j] = h[j]
    <3>1. \A j \in 0..n : j # n => j \in 0..k /\ h[j] \in Seq(Digit)
      BY <2>1 DEF DigitsUpTo
    <3>2. n \in 0..n /\ \A j \in 0..k : j \in 0..n /\ j # n
      OBVIOUS
    <3> QED
      BY <3>1, <3>2
  <2> HIDE DEF g
  <2>4. ASSUME NEW j \in 0..n
        PROVE  g[j] = IF j < 10 THEN <<48 + j>> ELSE Append(g[j \div 10], 48 + (j % 10))
    <3>1. j >= 10 => j \div 10 \in 0..k
      BY Division
    <3>2. j >= 10 => g[j \div 10] = h[j \div 10]
      BY <2>3, <3>1
    <3>3. CASE j = n
      BY <2>2, <2>3, <3>2, <3>3
    <3>4. CASE j # n
      <4>1. j \in 0..k /\ (j < 10 \/ j >= 10)
        BY <3>4
      <4>2. h[j] = IF j < 10 THEN <<48 + j>> ELSE Append(h[j \div 10], 48 + (j % 10))
        BY <4>1, <2>1 DEF DigitsUpTo
      <4> QED
        BY <2>3, <3>2, <4>1, <4>2
    <3> QED
      BY <3>3, <3>4
  <2>5. DigitsUpTo(n, g)
    BY <2>3, <2>4 DEF DigitsUpTo
  <2> QED
    BY <2>5
<1>3. m \in T
  <2> HIDE DEF T
  <2> QED
    BY <1>1, <1>2, NatInd
<1> QED
  BY <1>3

LEMMA DigitsAgree ==
  ASSUME NEW m \in Nat, NEW h, DigitsUpTo(m, h), NEW k \in Nat, NEW g, DigitsUpTo(k, g)
  PROVE  \A n \in Nat : n =< m /\ n =< k => h[n] = g[n]
<1> DEFINE T == {n \in Nat : n =< m /\ n =< k => h[n] = g[n]}
<1>1. ASSUME NEW n \in Nat, \A j \in 0..(n - 1) : j \in T PROVE n \in T
  <2>1. SUFFICES ASSUME n =< m, n =< k PROVE h[n] = g[n]
    OBVIOUS
  <2>2. n \in 0..m /\ n \in 0..k
    BY <2>1
  <2>3. /\ h[n] = IF n < 10 THEN <<48 + n>> ELSE Append(h[n \div 10], 48 + (n % 10))
        /\ g[n] = IF n < 10 THEN <<48 + n>> ELSE Append(g[n \div 10], 48 + (n % 10))
    BY <2>2 DEF DigitsUpTo
  <2>4. ASSUME ~(n < 10) PROVE h[n \div 10] = g[n \div 10]
    <3>1. n \div 10 \in 0..(n - 1) /\ n \div 10 =< m /\ n \div 10 =< k
      BY <2>1, <2>4, Division
    <3> QED
      BY <1>1, <3>1
  <2> QED
    BY <2>3, <2>4
<1>2. \A n \in Nat : n \in T
  <2> HIDE DEF T
  <2> QED
    BY <1>1, StrongInd
<1> QED
  BY <1>2

LEMMA DigitsAre ==
  /\ Digits \in [Nat -> Seq(Digit)]
  /\ \A n \in Nat : Digits[n] = IF n < 10 THEN <<48 + n>> ELSE Append(Digits[n \div 10], 48 + (n % 10))
<1> DEFINE f == [n \in Nat |-> (CHOOSE h : DigitsUpTo(n, h))[n]]
<1>1. ASSUME NEW n \in Nat, NEW m \in Nat, NEW h, DigitsUpTo(m, h), n =< m
      PROVE  f[n] = h[n]
  <2>1. DigitsUpTo(n, CHOOSE g : DigitsUpTo(n, g))
    BY DigitsThere
  <2> QED
    BY <1>1, <2>1, DigitsAgree
<1> HIDE DEF f
<1>2. ASSUME NEW n \in Nat
      PROVE  /\ f[n] \in Seq(Digit)
             /\ f[n] = IF n < 10 THEN <<48 + n>> ELSE Append(f[n \div 10], 48 + (n % 10))
  <2>1. PICK h : DigitsUpTo(n, h)
    BY DigitsThere
  <2>2. n \in 0..n /\ f[n] = h[n]
    BY <1>1, <2>1
  <2>3. ~(n < 10) => f[n \div 10] = h[n \div 10]
    BY <1>1, <2>1, Division
  <2> QED
    BY <2>1, <2>2, <2>3 DEF DigitsUpTo
<1>3. f = [n \in Nat |-> IF n < 10 THEN <<48 + n>> ELSE Append(f[n \div 10], 48 + (n % 10))]
  <2>1. f = [n \in Nat |-> f[n]]
    BY DEF f
  <2> QED
    BY <1>2, <2>1
<1>4. Digits = [n \in Nat |-> IF n < 10 THEN <<48 + n>> ELSE Append(Digits[n \div 10], 48 + (n % 10))]
  BY <1>3 DEF Digits
<1>5. \A n \in Nat : Digits[n] = IF n < 10 THEN <<48 + n>> ELSE Append(Digits[n \div 10], 48 + (n % 10))
  BY <1>4
<1>6. \A n \in Nat : Digits[n] \in Seq(Digit)
  <2> DEFINE T == {n \in Nat : Digits[n] \in Seq(Digit)}
  <2>1. ASSUME NEW n \in Nat, \A k \in 0..(n - 1) : k \in T PROVE n \in T
    <3>1. CASE n < 10
      <4>1. <<48 + n>> \in Seq(Digit)
        BY <3>1 DEF Digit
      <4> QED
        BY <3>1, <4>1, <1>5
    <3>2. CASE ~(n < 10)
      <4>1. n \div 10 \in 0..(n - 1) /\ 48 + (n % 10) \in Digit
        BY <3>2, Division DEF Digit
      <4>2. Digits[n \div 10] \in Seq(Digit)
        BY <4>1, <2>1
      <4>3. Append(Digits[n \div 10], 48 + (n % 10)) \in Seq(Digit)
        BY <4>1, <4>2, AppendProperties
      <4> QED
        BY <3>2, <4>3, <1>5
    <3> QED
      BY <3>1, <3>2
  <2>2. \A n \in Nat : n \in T
    <3> HIDE DEF T
    <3> QED
      BY <2>1, StrongInd
  <2> QED
    BY <2>2
<1> QED
  BY <1>4, <1>5, <1>6

LEMMA DigitsOf ==
  ASSUME NEW n \in Nat
  PROVE  /\ Digits[n] \in Seq(Digit) /\ Len(Digits[n]) \in Nat
         /\ n < 10 => Digits[n] = <<48 + n>>
         /\ n >= 10 => /\ Digits[n] = Append(Digits[n \div 10], 48 + (n % 10))
                       /\ Len(Digits[n]) = Len(Digits[n \div 10]) + 1
<1>1. Digits[n] = IF n < 10 THEN <<48 + n>> ELSE Append(Digits[n \div 10], 48 + (n % 10))
  BY DigitsAre
<1>2. Digits[n] \in Seq(Digit) /\ Len(Digits[n]) \in Nat
  BY DigitsAre, LenProperties
<1>3. Digits[n \div 10] \in Seq(Digit) /\ 48 + (n % 10) \in Digit
  BY Division, DigitsAre DEF Digit
<1>4. Len(Append(Digits[n \div 10], 48 + (n % 10))) = Len(Digits[n \div 10]) + 1
  BY <1>3, AppendProperties
<1>5. (n < 10 \/ n >= 10) /\ ~(n < 10 /\ n >= 10)
  OBVIOUS
<1> QED
  BY ONLY <1>1, <1>2, <1>4, <1>5

LEMMA DigitsLength ==
  ASSUME NEW n \in Nat
  PROVE  /\ Len(Digits[n]) \in Nat /\ Len(Digits[n]) > 0
         /\ n < 10 => Digits[n] = <<48 + n>>
         /\ n \in 10..99 => /\ Len(Digits[n]) = 2
                            /\ Digits[n][1] = 48 + (n \div 10) /\ Digits[n][2] = 48 + (n % 10)
         /\ n > 99 => Len(Digits[n]) > 2
<1>1. ASSUME NEW k \in Nat, k < 10 PROVE Digits[k] = <<48 + k>> /\ Len(Digits[k]) = 1
  <2>1. Digits[k] = <<48 + k>>
    BY <1>1, DigitsOf
  <2> QED
    BY <2>1
<1>2. ASSUME NEW k \in Nat PROVE Len(Digits[k]) \in Nat /\ Len(Digits[k]) > 0
  <2>1. CASE k < 10
    BY <1>1, <2>1
  <2>2. CASE k >= 10
    <3>1. k \div 10 \in Nat /\ Len(Digits[k \div 10]) \in Nat
      BY Division, DigitsOf
    <3>2. Len(Digits[k]) = Len(Digits[k \div 10]) + 1
      BY <2>2, DigitsOf
    <3> QED
      BY <3>1, <3>2
  <2> QED
    BY <2>1, <2>2
<1>3. ASSUME n \in 10..99
      PROVE  /\ Len(Digits[n]) = 2
             /\ Digits[n][1] = 48 + (n \div 10) /\ Digits[n][2] = 48 + (n % 10)
  <2>1. n >= 10 /\ n \div 10 \in Nat /\ n \div 10 < 10
    BY <1>3, Division
  <2>2. Digits[n \div 10] = <<48 + (n \div 10)>>
    BY <1>1, <2>1
  <2>3. Digits[n] = Append(Digits[n \div 10], 48 + (n % 10))
    BY <2>1, DigitsOf
  <2>4. Digits[n] = Append(<<48 + (n \div 10)>>, 48 + (n % 10))
    BY ONLY <2>2, <2>3
  <2> QED
    BY ONLY <2>4
<1>4. ASSUME n > 99 PROVE Len(Digits[n]) > 2
  <2>1. /\ n >= 10 /\ n \div 10 \in Nat /\ n \div 10 >= 10 /\ (n \div 10) \div 10 \in Nat
    BY <1>4, Division
  <2>2. PICK k \in Nat : k = n \div 10
    BY <2>1
  <2>3. Len(Digits[n]) = Len(Digits[k]) + 1
    BY <2>1, <2>2, DigitsOf
  <2>4. Len(Digits[k]) = Len(Digits[k \div 10]) + 1 /\ Len(Digits[k \div 10]) \in Nat
    BY <2>1, <2>2, DigitsOf
  <2>5. Len(Digits[k \div 10]) > 0
    BY <1>2, <2>1, <2>2
  <2> QED
    BY ONLY <2>3, <2>4, <2>5
<1> QED
  BY <1>1, <1>2, <1>3, <1>4

\* _id_format_transfomer writes two digits up to 99, and more from 100 on.
LEMMA FormatIs ==
  ASSUME NEW id \in Nat
  PROVE  /\ Format(id) \in Seq(Digit) /\ Len(Format(id)) \in Nat /\ Len(Format(id)) > 0
         /\ id =< 99 => Len(Format(id)) = 2
         /\ id > 99 => Len(Format(id)) > 2
<1>1. /\ Digits[id] \in Seq(Digit) /\ <<48>> \in Seq(Digit) /\ Len(<<48>>) = 1
  BY DigitsOf DEF Digit
<1>2. /\ <<48>> \o Digits[id] \in Seq(Digit)
      /\ Len(<<48>> \o Digits[id]) = 1 + Len(Digits[id])
  BY <1>1, ConcatProperties
<1>3. id < 10 => Len(Digits[id]) = 1
  <2>1. id < 10 => Digits[id] = <<48 + id>>
    BY DigitsLength
  <2> QED
    BY <2>1
<1>4. Format(id) = IF id < 10 THEN <<48>> \o Digits[id] ELSE Digits[id]
  BY DEF Format
<1>5. /\ Len(Digits[id]) \in Nat /\ Len(Digits[id]) > 0
      /\ id \in 10..99 => Len(Digits[id]) = 2
      /\ id > 99 => Len(Digits[id]) > 2
  BY DigitsLength
<1>6. CASE id < 10
  <2>1. Format(id) = <<48>> \o Digits[id]
    BY <1>4, <1>6
  <2>2. Len(Format(id)) = 2 /\ Format(id) \in Seq(Digit)
    BY <1>2, <1>3, <1>6, <2>1
  <2> QED
    BY ONLY <2>2, <1>6, id \in Nat
<1>7. CASE ~(id < 10)
  <2>1. Format(id) = Digits[id]
    BY <1>4, <1>7
  <2> QED
    BY ONLY <1>1, <1>5, <1>7, <2>1, id \in Nat
<1> QED
  BY <1>6, <1>7

-----------------------------------------------------------------------------
(* std::stoull *)

\* v holds the values of the beginnings of s.
Values(s, v) ==
  v = [k \in 0..Len(s) |-> IF k = 0 THEN 0 ELSE 10 * v[k - 1] + s[k] - 48]

LEMMA ValuesThere == ASSUME NEW s \in Seq(Digit) PROVE \E v : Values(s, v)
<1>1. Len(s) \in Nat /\ \A k \in 1..Len(s) : s[k] \in Int
  BY LenProperties DEF Digit
<1> DEFINE step == [x \in Nat \X Int |->
                      IF x[1] + 1 \in 1..Len(s) THEN 10 * x[2] + s[x[1] + 1] - 48 ELSE 0]
<1>2. step \in [Nat \X Int -> Int]
  BY <1>1
<1>3. \A k \in 0..(Len(s) - 1) : \A e \in Int : step[<<k, e>>] = 10 * e + s[k + 1] - 48
  BY <1>1
<1> HIDE DEF step
<1>4. PICK v : Iterates(Int, 0, step, Len(s), v)
  <2>1. 0 \in Int /\ step \in [Nat \X Int -> Int] /\ Len(s) \in Nat
    BY <1>1, <1>2
  <2> QED
    BY ONLY <2>1, Recursion
<1>5. ASSUME NEW k \in 0..Len(s)
      PROVE  v[k] = IF k = 0 THEN 0 ELSE 10 * v[k - 1] + s[k] - 48
  <2>1. CASE k = 0
    BY <2>1, <1>4 DEF Iterates
  <2>2. CASE k # 0
    <3>1. k - 1 \in 0..(Len(s) - 1) /\ (k - 1) + 1 = k /\ k - 1 \in 0..Len(s)
      BY <2>2, <1>1
    <3>2. v[k - 1] \in Int
      BY <1>4, <3>1 DEF Iterates
    <3>3. v[(k - 1) + 1] = 10 * v[k - 1] + s[(k - 1) + 1] - 48
      BY <1>3, <1>4, <3>1, <3>2 DEF Iterates
    <3> QED
      BY <2>2, <3>1, <3>3
  <2> QED
    BY <2>1, <2>2
<1>6. v = [k \in 0..Len(s) |-> v[k]]
  BY <1>4 DEF Iterates
<1>7. Values(s, v)
  BY <1>5, <1>6 DEF Values
<1> QED
  BY <1>7

LEMMA NumberIs ==
  ASSUME NEW s \in Seq(Digit), s # <<>>
  PROVE  HasNumber(s) /\ \E v : Values(s, v) /\ Number(s) = v[Len(s)]
<1>1. /\ Len(s) \in Nat /\ Len(s) > 0 /\ \A k \in 1..Len(s) : s[k] \in 48..57
      /\ s \in Seq(Byte)
  BY LenProperties, EmptySeq DEF Digit, Byte
<1>2. s[1] \in 48..57
  BY <1>1
<1>3. Unspaced(s) = s
  <2> DEFINE W == 0..255 \ (9..13 \union {32})
             i == SelectInSeq(s, LAMBDA ch : ch \notin 9..13 \union {32})
             I == {k \in 1..Len(s) : s[k] \notin 9..13 \union {32}}
  <2>1. 1 \in I /\ I \subseteq Nat
    BY <1>1, <1>2
  <2>2. Min(I) \in I /\ Min(I) =< 1
    BY <2>1, FirstOf
  <2>3. i = IF I # {} THEN Min(I) ELSE 0
    BY DEF SelectInSeq
  <2>4. i = 1
    BY <2>1, <2>2, <2>3, <1>1
  <2>5. SubSeq(s, 1, Len(s)) = s
    BY SubSeqFull
  <2>6. s[1] # 43
    BY <1>2
  <2> DEFINE u == IF i = 0 THEN <<>> ELSE SubSeq(s, i, Len(s))
  <2>7. Unspaced(s) = IF u # <<>> /\ u[1] = 43 THEN Tail(u) ELSE u
    BY DEF Unspaced
  <2> HIDE DEF i, I
  <2>8. u = s
    BY ONLY <2>4, <2>5
  <2> HIDE DEF u
  <2> QED
    BY ONLY <2>6, <2>7, <2>8
<1>4. HasNumber(s)
  BY <1>2, <1>3 DEF HasNumber, IsDigit
<1>5. SelectInSeq(s, LAMBDA ch : ~IsDigit(ch)) = 0
  BY <1>1 DEF SelectInSeq, IsDigit
<1> DEFINE stop == SelectInSeq(s, LAMBDA ch : ~IsDigit(ch))
           n == IF stop = 0 THEN Len(s) ELSE stop - 1
           value[k \in 0..n] == IF k = 0 THEN 0 ELSE 10 * value[k - 1] + s[k] - 48
<1>6. Number(s) = value[n]
  BY <1>3 DEF Number
<1>7. n = Len(s)
  BY <1>5
<1> HIDE DEF stop
<1>8. PICK v : v = [k \in 0..n |-> IF k = 0 THEN 0 ELSE 10 * v[k - 1] + s[k] - 48]
  BY <1>7, ValuesThere DEF Values
<1>9. value = [k \in 0..n |-> IF k = 0 THEN 0 ELSE 10 * value[k - 1] + s[k] - 48]
  BY <1>8
<1> QED
  BY <1>4, <1>6, <1>7, <1>9 DEF Values

LEMMA ValuesAt ==
  ASSUME NEW s, Len(s) \in Nat, NEW v, Values(s, v)
  PROVE  v[0] = 0 /\ \A k \in 1..Len(s) : v[k] = 10 * v[k - 1] + s[k] - 48
<1>1. ASSUME NEW k \in 0..Len(s)
      PROVE  v[k] = IF k = 0 THEN 0 ELSE 10 * v[k - 1] + s[k] - 48
  BY DEF Values
<1>2. 0 \in 0..Len(s) /\ \A k \in 1..Len(s) : k \in 0..Len(s) /\ k # 0
  OBVIOUS
<1> QED
  BY ONLY <1>1, <1>2

LEMMA NumberOne == ASSUME NEW c \in Digit PROVE HasNumber(<<c>>) /\ Number(<<c>>) = c - 48
<1>1. <<c>> \in Seq(Digit) /\ <<c>> # <<>> /\ Len(<<c>>) = 1 /\ <<c>>[1] = c
  OBVIOUS
<1>2. PICK v : Values(<<c>>, v) /\ Number(<<c>>) = v[Len(<<c>>)]
  BY <1>1, NumberIs
<1>3. v[0] = 0 /\ v[1] = 10 * v[0] + <<c>>[1] - 48
  BY ONLY <1>1, <1>2, ValuesAt
<1>4. c \in Int
  BY DEF Digit
<1>5. HasNumber(<<c>>)
  BY ONLY <1>1, NumberIs
<1>6. v[1] = c - 48
  BY ONLY <1>1, <1>3, <1>4
<1> QED
  BY <1>1, <1>2, <1>5, <1>6

LEMMA NumberAppend ==
  ASSUME NEW s \in Seq(Digit), s # <<>>, NEW c \in Digit
  PROVE  /\ HasNumber(Append(s, c))
         /\ Number(s) \in Int => Number(Append(s, c)) = 10 * Number(s) + c - 48
<1> DEFINE t == Append(s, c)
           n == Len(s)
<1>1. /\ t \in Seq(Digit) /\ t # <<>> /\ Len(t) = n + 1 /\ n \in Nat
      /\ \A k \in 1..n : t[k] = s[k]
      /\ t[n + 1] = c
  BY AppendProperties, LenProperties
<1> HIDE DEF t
<1>2. PICK v : Values(s, v) /\ Number(s) = v[n]
  BY NumberIs
<1>3. PICK w : Values(t, w) /\ Number(t) = w[n + 1]
  BY <1>1, NumberIs
<1>4. v[0] = 0 /\ \A k \in 1..n : v[k] = 10 * v[k - 1] + s[k] - 48
  BY ONLY <1>1, <1>2, ValuesAt
<1>5. w[0] = 0 /\ \A k \in 1..(n + 1) : w[k] = 10 * w[k - 1] + t[k] - 48
  <2>1. Len(t) \in Nat
    BY <1>1
  <2> QED
    BY ONLY <1>1, <1>3, <2>1, ValuesAt
<1>6. w[n] = v[n]
  <2> DEFINE T == {k \in Nat : k =< n => w[k] = v[k]}
  <2>1. 0 \in T
    BY <1>4, <1>5
  <2>2. ASSUME NEW k \in Nat, k \in T PROVE k + 1 \in T
    <3>1. SUFFICES ASSUME k + 1 =< n PROVE w[k + 1] = v[k + 1]
      OBVIOUS
    <3>2. k + 1 \in 1..n /\ k + 1 \in 1..(n + 1) /\ (k + 1) - 1 = k /\ w[k] = v[k]
      BY <2>2, <3>1, <1>1
    <3>3. /\ w[k + 1] = 10 * w[(k + 1) - 1] + t[k + 1] - 48
          /\ v[k + 1] = 10 * v[(k + 1) - 1] + s[k + 1] - 48
          /\ t[k + 1] = s[k + 1]
      BY ONLY <1>1, <1>4, <1>5, <3>2
    <3> QED
      BY ONLY <3>2, <3>3
  <2>3. n \in T
    <3> HIDE DEF T
    <3> QED
      BY <1>1, <2>1, <2>2, NatInd
  <2> QED
    BY <1>1, <2>3
<1>7. w[n + 1] = 10 * w[n] + c - 48
  <2>1. n + 1 \in 1..(n + 1) /\ (n + 1) - 1 = n
    BY <1>1
  <2> QED
    BY ONLY <1>1, <1>5, <2>1
<1>8. HasNumber(t)
  BY <1>1, NumberIs
<1> QED
  BY <1>2, <1>3, <1>6, <1>7, <1>8 DEF t

\* What std::to_string writes std::stoull reads.
LEMMA NumberOfDigits ==
  ASSUME NEW n \in Nat
  PROVE  Digits[n] \in Seq(Digit) /\ HasNumber(Digits[n]) /\ Number(Digits[n]) = n
<1> DEFINE T == {k \in Nat : HasNumber(Digits[k]) /\ Number(Digits[k]) = k}
<1>1. ASSUME NEW k \in Nat, \A j \in 0..(k - 1) : j \in T PROVE k \in T
  <2>1. CASE k < 10
    <3>1. Digits[k] = <<48 + k>>
      BY <2>1, DigitsOf
    <3>2. 48 + k \in Digit /\ (48 + k) - 48 = k
      BY <2>1 DEF Digit
    <3>3. HasNumber(<<48 + k>>) /\ Number(<<48 + k>>) = (48 + k) - 48
      BY ONLY <3>2, NumberOne
    <3> QED
      BY <3>1, <3>2, <3>3
  <2>2. CASE k >= 10
    <3>1. PICK q \in Nat, r \in 0..9 : q = k \div 10 /\ r = k % 10 /\ k = 10 * q + r /\ q < k
      BY <2>2, Division
    <3>2. q \in T
      BY <1>1, <3>1
    <3>3. Digits[k] = Append(Digits[q], 48 + r)
      BY <2>2, <3>1, DigitsOf
    <3>4. Digits[q] \in Seq(Digit) /\ Digits[q] # <<>> /\ 48 + r \in Digit
      <4>1. Len(Digits[q]) > 0 /\ Digits[q] \in Seq(Digit)
        BY DigitsLength, DigitsOf
      <4>2. 48 + r \in Digit
        BY ONLY r \in 0..9 DEF Digit
      <4>3. Digits[q] # <<>>
        BY <4>1, EmptySeq
      <4> QED
        BY <4>1, <4>2, <4>3
    <3>5. /\ HasNumber(Append(Digits[q], 48 + r))
          /\ Number(Append(Digits[q], 48 + r)) = 10 * q + (48 + r) - 48
      <4>1. Number(Digits[q]) = q /\ q \in Int
        BY <3>2
      <4> QED
        BY ONLY <3>4, <4>1, NumberAppend
    <3>6. 10 * q + (48 + r) - 48 = k
      BY ONLY <3>1, q \in Nat, r \in 0..9
    <3> QED
      BY <3>3, <3>5, <3>6
  <2> QED
    BY <2>1, <2>2
<1>2. n \in T
  <2> HIDE DEF T
  <2> QED
    BY <1>1, StrongInd
<1> QED
  BY <1>2, DigitsOf

\* What _id_format_transfomer writes std::stoull reads.
LEMMA NumberOfFormat ==
  ASSUME NEW id \in Nat
  PROVE  HasNumber(Format(id)) /\ Number(Format(id)) = id
<1>1. CASE id < 10
  <2>1. /\ <<48>> \in Seq(Digit) /\ <<48>> # <<>> /\ 48 \in Digit /\ 48 + id \in Digit
        /\ Number(<<48>>) = 0
    <3>1. 48 \in Digit /\ 48 + id \in Digit
      BY <1>1 DEF Digit
    <3>2. Number(<<48>>) = 48 - 48
      BY <3>1, NumberOne
    <3> QED
      BY <3>1, <3>2
  <2>2. Format(id) = Append(<<48>>, 48 + id)
    <3>1. Format(id) = <<48>> \o <<48 + id>>
      BY <1>1, DigitsOf DEF Format
    <3> QED
      BY <3>1, <2>1, AppendIsConcat
  <2>3. /\ HasNumber(Append(<<48>>, 48 + id))
        /\ Number(Append(<<48>>, 48 + id)) = 10 * 0 + (48 + id) - 48
    BY ONLY <2>1, NumberAppend, 0 \in Int
  <2> QED
    BY <2>2, <2>3
<1>2. CASE ~(id < 10)
  <2>1. Format(id) = Digits[id]
    BY <1>2 DEF Format
  <2> QED
    BY <2>1, NumberOfDigits
<1> QED
  BY <1>1, <1>2

-----------------------------------------------------------------------------
(* _separate_payload_by_symbol *)

Parts == Seq(Seq(Byte)) \ {<<>>}

\* f holds the parts after each character of x, from a on.
Reads(x, f, a) ==
  /\ f \in [0..Len(x) -> Parts] /\ f[0] = a
  /\ \A k \in 1..Len(x) : f[k] = Read(f[k - 1], x[k])

\* Reading x makes the parts b of the parts a.
ReadsTo(x, a, b) == \E f : Reads(x, f, a) /\ b = f[Len(x)]

LEMMA PartsLength == ASSUME NEW a \in Parts PROVE Len(a) \in Nat /\ Len(a) > 0 /\ a[Len(a)] \in Seq(Byte)
<1>1. a \in Seq(Seq(Byte)) /\ a # <<>>
  BY DEF Parts
<1>2. Len(a) \in Nat /\ Len(a) > 0
  BY <1>1, EmptySeq
<1>3. Len(a) \in 1..Len(a)
  BY <1>2
<1> QED
  BY <1>1, <1>2, <1>3, ElementOfSeq

LEMMA PartSet ==
  ASSUME NEW a \in Parts, NEW x \in Seq(Byte)
  PROVE  /\ [a EXCEPT ![Len(a)] = x] \in Parts
         /\ Len([a EXCEPT ![Len(a)] = x]) = Len(a)
         /\ [a EXCEPT ![Len(a)] = x][Len(a)] = x
<1> DEFINE b == [a EXCEPT ![Len(a)] = x]
<1>1. a \in Seq(Seq(Byte)) /\ Len(a) \in 1..Len(a) /\ Len(a) \in Nat /\ Len(a) > 0
  BY PartsLength DEF Parts
<1>2. b \in Seq(Seq(Byte)) /\ Len(b) = Len(a)
      /\ \A j \in 1..Len(a) : b[j] = IF j = Len(a) THEN x ELSE a[j]
  BY ONLY <1>1, x \in Seq(Byte), ExceptSeq
<1> HIDE DEF b
<1>3. b # <<>>
  BY <1>1, <1>2, EmptySeq
<1> QED
  BY <1>1, <1>2, <1>3 DEF Parts, b

LEMMA PartAdded ==
  ASSUME NEW a \in Parts, NEW x \in Seq(Byte)
  PROVE  Append(a, x) \in Parts /\ Len(Append(a, x)) = Len(a) + 1
<1>1. a \in Seq(Seq(Byte))
  BY DEF Parts
<1> QED
  BY <1>1, AppendProperties DEF Parts

LEMMA ReadType ==
  ASSUME NEW a \in Parts, NEW ch \in Byte
  PROVE  /\ Read(a, ch) \in Parts
         /\ Len(Read(a, ch)) = IF ch = SEP THEN Len(a) + 1 ELSE Len(a)
<1>1. CASE ch = SEP
  <2>1. <<>> \in Seq(Byte) /\ Read(a, ch) = Append(a, <<>>)
    BY <1>1, EmptySeq DEF Read
  <2> QED
    BY <1>1, <2>1, PartAdded
<1>2. CASE ch # SEP
  <2>1. Append(a[Len(a)], ch) \in Seq(Byte)
    BY PartsLength, AppendProperties
  <2>2. Read(a, ch) = [a EXCEPT ![Len(a)] = Append(a[Len(a)], ch)]
    BY <1>2 DEF Read
  <2> QED
    BY <1>2, <2>1, <2>2, PartSet
<1> QED
  BY <1>1, <1>2

LEMMA ReadsThere ==
  ASSUME NEW x \in Seq(Byte), NEW a \in Parts
  PROVE  \E f : Reads(x, f, a)
<1>1. Len(x) \in Nat /\ \A k \in 1..Len(x) : x[k] \in Byte
  BY LenProperties
<1> DEFINE step == [y \in Nat \X Parts |->
                      IF y[1] + 1 \in 1..Len(x) THEN Read(y[2], x[y[1] + 1]) ELSE a]
<1>2. step \in [Nat \X Parts -> Parts]
  <2>1. ASSUME NEW y \in Nat \X Parts
        PROVE  (IF y[1] + 1 \in 1..Len(x) THEN Read(y[2], x[y[1] + 1]) ELSE a) \in Parts
    <3>1. y[1] + 1 \in 1..Len(x) => Read(y[2], x[y[1] + 1]) \in Parts
      BY <1>1, ReadType
    <3> QED
      BY <3>1
  <2> QED
    BY <2>1
<1>3. \A k \in 0..(Len(x) - 1) : \A e \in Parts : step[<<k, e>>] = Read(e, x[k + 1])
  <2>1. ASSUME NEW k \in 0..(Len(x) - 1), NEW e \in Parts PROVE step[<<k, e>>] = Read(e, x[k + 1])
    <3>1. k + 1 \in 1..Len(x) /\ <<k, e>> \in Nat \X Parts
      BY <1>1
    <3> QED
      BY <3>1
  <2> QED
    BY <2>1
<1> HIDE DEF step
<1>4. PICK f : Iterates(Parts, a, step, Len(x), f)
  BY ONLY <1>1, <1>2, a \in Parts, Recursion
<1>5. f \in [0..Len(x) -> Parts] /\ f[0] = a
  BY <1>4 DEF Iterates
<1>6. ASSUME NEW k \in 1..Len(x) PROVE f[k] = Read(f[k - 1], x[k])
  <2>1. k - 1 \in 0..(Len(x) - 1) /\ (k - 1) + 1 = k /\ k - 1 \in 0..Len(x)
    BY <1>1
  <2>2. f[k - 1] \in Parts
    BY <1>5, <2>1
  <2>3. f[(k - 1) + 1] = step[<<k - 1, f[k - 1]>>]
    BY <1>4, <2>1 DEF Iterates
  <2>4. step[<<k - 1, f[k - 1]>>] = Read(f[k - 1], x[(k - 1) + 1])
    BY <1>3, <2>1, <2>2
  <2> QED
    BY <2>1, <2>3, <2>4
<1> QED
  BY <1>5, <1>6 DEF Reads

LEMMA ReadsOnly ==
  ASSUME NEW x, Len(x) \in Nat, NEW a, NEW b, ReadsTo(x, a, b), NEW c, ReadsTo(x, a, c)
  PROVE  b = c
<1>1. PICK f : Reads(x, f, a) /\ b = f[Len(x)]
  BY DEF ReadsTo
<1>2. PICK g : Reads(x, g, a) /\ c = g[Len(x)]
  BY DEF ReadsTo
<1> DEFINE T == {k \in Nat : k =< Len(x) => f[k] = g[k]}
<1>3. 0 \in T
  BY <1>1, <1>2 DEF Reads
<1>4. ASSUME NEW k \in Nat, k \in T PROVE k + 1 \in T
  <2>1. SUFFICES ASSUME k + 1 =< Len(x) PROVE f[k + 1] = g[k + 1]
    OBVIOUS
  <2>2. k + 1 \in 1..Len(x) /\ (k + 1) - 1 = k /\ f[k] = g[k]
    BY <1>4, <2>1
  <2>3. f[k + 1] = Read(f[(k + 1) - 1], x[k + 1]) /\ g[k + 1] = Read(g[(k + 1) - 1], x[k + 1])
    BY <1>1, <1>2, <2>2 DEF Reads
  <2> QED
    BY ONLY <2>2, <2>3
<1>5. Len(x) \in T
  <2> HIDE DEF T
  <2> QED
    BY <1>3, <1>4, NatInd
<1> QED
  BY <1>1, <1>2, <1>5

\* One sequence after the other.
LEMMA ReadsConcat ==
  ASSUME NEW x \in Seq(Byte), NEW y \in Seq(Byte), NEW a, NEW b, NEW c,
         ReadsTo(x, a, b), ReadsTo(y, b, c)
  PROVE  ReadsTo(x \o y, a, c)
<1> DEFINE m == Len(x)
           n == Len(y)
           z == x \o y
<1>1. PICK f : Reads(x, f, a) /\ b = f[m]
  BY DEF ReadsTo
<1>2. PICK g : Reads(y, g, b) /\ c = g[n]
  BY DEF ReadsTo
<1>3. /\ m \in Nat /\ n \in Nat /\ Len(z) = m + n
      /\ \A k \in 1..(m + n) : z[k] = IF k =< m THEN x[k] ELSE y[k - m]
  BY ConcatProperties, LenProperties
<1>4. /\ f \in [0..m -> Parts] /\ f[0] = a /\ \A k \in 1..m : f[k] = Read(f[k - 1], x[k])
      /\ g \in [0..n -> Parts] /\ g[0] = b /\ \A k \in 1..n : g[k] = Read(g[k - 1], y[k])
  BY <1>1, <1>2 DEF Reads
<1> HIDE DEF m, n, z
<1> DEFINE h == [k \in 0..(m + n) |-> IF k =< m THEN f[k] ELSE g[k - m]]
<1>5. h \in [0..(m + n) -> Parts]
  <2>1. ASSUME NEW k \in 0..(m + n) PROVE (IF k =< m THEN f[k] ELSE g[k - m]) \in Parts
    <3>1. k =< m => k \in 0..m
      BY <1>3
    <3>2. ~(k =< m) => k - m \in 0..n
      BY <1>3
    <3> QED
      BY <3>1, <3>2, <1>4
  <2> QED
    BY <2>1
<1>6. /\ \A k \in 0..m : h[k] = f[k]
      /\ \A k \in 0..n : h[m + k] = g[k]
  <2>1. ASSUME NEW k \in 0..m PROVE h[k] = f[k]
    <3>1. k \in 0..(m + n) /\ k =< m
      BY <1>3
    <3> QED
      BY <3>1
  <2>2. ASSUME NEW k \in 0..n PROVE h[m + k] = g[k]
    <3>1. CASE k = 0
      <4>1. m + k = m /\ m \in 0..m
        BY <1>3, <3>1
      <4> HIDE DEF h
      <4> QED
        BY <2>1, <4>1, <3>1, <1>1, <1>4 DEF m
    <3>2. CASE k # 0
      <4>1. m + k \in 0..(m + n) /\ ~(m + k =< m) /\ (m + k) - m = k
        BY <1>3, <3>2
      <4> QED
        BY <4>1
    <3> QED
      BY <3>1, <3>2
  <2> QED
    BY <2>1, <2>2
<1> HIDE DEF h
<1>7. ASSUME NEW k \in 1..(m + n) PROVE h[k] = Read(h[k - 1], z[k])
  <2>1. CASE k =< m
    <3>1. k \in 1..m /\ k - 1 \in 0..m /\ k \in 0..m
      BY <2>1, <1>3
    <3>2. h[k] = f[k] /\ h[k - 1] = f[k - 1] /\ z[k] = x[k] /\ f[k] = Read(f[k - 1], x[k])
      BY <3>1, <2>1, <1>3, <1>4, <1>6
    <3> QED
      BY ONLY <3>2
  <2>2. CASE ~(k =< m)
    <3>1. PICK j \in 1..n : k = m + j /\ k - m = j /\ k - 1 = m + (j - 1) /\ j - 1 \in 0..n /\ j \in 0..n
      <4>1. k - m \in 1..n /\ k = m + (k - m) /\ k - 1 = m + ((k - m) - 1) /\ (k - m) - 1 \in 0..n
        BY <2>2, <1>3
      <4> QED
        BY <4>1
    <3>2. h[m + j] = g[j] /\ h[m + (j - 1)] = g[j - 1] /\ g[j] = Read(g[j - 1], y[j])
      BY <3>1, <1>4, <1>6
    <3>3. z[k] = y[j]
      BY <3>1, <2>2, <1>3
    <3> QED
      BY ONLY <3>1, <3>2, <3>3
  <2> QED
    BY <2>1, <2>2
<1>8. h[0] = a
  <2>1. 0 \in 0..m
    BY <1>3
  <2> QED
    BY <2>1, <1>4, <1>6
<1>9. h[Len(z)] = c
  <2>1. n \in 0..n
    BY <1>3
  <2> QED
    BY <2>1, <1>2, <1>3, <1>6
<1>10. Reads(z, h, a)
  BY <1>3, <1>5, <1>7, <1>8 DEF Reads
<1> QED
  BY <1>9, <1>10 DEF ReadsTo, z

LEMMA ReadsType ==
  ASSUME NEW x \in Seq(Byte), NEW a, NEW b, ReadsTo(x, a, b)
  PROVE  a \in Parts /\ b \in Parts
<1>1. PICK f : Reads(x, f, a) /\ b = f[Len(x)]
  BY DEF ReadsTo
<1>2. Len(x) \in Nat
  BY LenProperties
<1>3. 0 \in 0..Len(x) /\ Len(x) \in 0..Len(x)
  BY <1>2
<1> QED
  BY <1>1, <1>3 DEF Reads

LEMMA ReadsOne == ASSUME NEW a \in Parts, NEW ch \in Byte PROVE ReadsTo(<<ch>>, a, Read(a, ch))
<1>1. PICK b \in Parts : b = Read(a, ch)
  BY ReadType
<1> DEFINE f == [k \in 0..1 |-> IF k = 0 THEN a ELSE b]
<1>2. /\ f \in [0..1 -> Parts] /\ f[0] = a /\ f[1] = b
  OBVIOUS
<1>3. Len(<<ch>>) = 1 /\ <<ch>>[1] = ch
  OBVIOUS
<1> HIDE DEF f
<1>4. \A k \in 1..1 : f[k] = Read(f[k - 1], <<ch>>[k])
  <2>1. ASSUME NEW k \in 1..1 PROVE k = 1 /\ k - 1 = 0
    OBVIOUS
  <2> QED
    BY ONLY <1>1, <1>2, <1>3, <2>1
<1>5. Reads(<<ch>>, f, a)
  BY <1>2, <1>3, <1>4 DEF Reads
<1> QED
  BY <1>1, <1>2, <1>3, <1>5 DEF ReadsTo

\* The parts a when x has been added to the last one.
Extended(a, x) == [a EXCEPT ![Len(a)] = a[Len(a)] \o x]

LEMMA ExtendedType ==
  ASSUME NEW a \in Parts, NEW x \in Seq(Byte)
  PROVE  /\ Extended(a, x) \in Parts /\ Len(Extended(a, x)) = Len(a)
         /\ Extended(a, x)[Len(a)] = a[Len(a)] \o x
<1>1. a[Len(a)] \o x \in Seq(Byte)
  BY PartsLength, ConcatProperties
<1> QED
  BY <1>1, PartSet DEF Extended

LEMMA BytesAssociative ==
  \A s, t, u \in Seq(Byte) : (s \o t) \o u = s \o (t \o u)
BY ConcatAssociative

LEMMA ReadsPlain ==
  ASSUME NEW x \in Seq(Byte), \A k \in 1..Len(x) : x[k] # SEP, NEW a \in Parts
  PROVE  ReadsTo(x, a, Extended(a, x))
<1> DEFINE n == Len(x)
           f == [k \in 0..n |-> Extended(a, SubSeq(x, 1, k))]
<1>1. n \in Nat /\ \A k \in 1..n : x[k] \in Byte
  BY LenProperties
<1>2. ASSUME NEW k \in 0..n PROVE SubSeq(x, 1, k) \in Seq(Byte)
  <2>1. \A i \in 1..k : x[i] \in Byte
    BY <1>1
  <2> QED
    BY <2>1, SubSeqProperties
<1>3. f \in [0..n -> Parts] /\ \A k \in 0..n : f[k] = Extended(a, SubSeq(x, 1, k))
  BY <1>2, ExtendedType
<1> HIDE DEF f
<1>4. a[Len(a)] \in Seq(Byte)
  BY PartsLength
<1>5. f[0] = a
  <2>1. SubSeq(x, 1, 0) = <<>>
    BY SubSeqEmpty
  <2>2. a[Len(a)] \o <<>> = a[Len(a)]
    BY <1>4, ConcatEmptySeq
  <2>3. Extended(a, <<>>) = [a EXCEPT ![Len(a)] = a[Len(a)]]
    BY <2>2 DEF Extended
  <2>4. [a EXCEPT ![Len(a)] = a[Len(a)]] = a
    <3>1. a \in [1..Len(a) -> Seq(Byte)]
      BY LenProperties DEF Parts
    <3> QED
      BY <3>1
  <2>5. 0 \in 0..n
    BY <1>1
  <2> QED
    BY <1>3, <2>1, <2>3, <2>4, <2>5
<1>6. ASSUME NEW k \in 1..n PROVE f[k] = Read(f[k - 1], x[k])
  <2>1. k - 1 \in 0..n /\ k \in 0..n /\ x[k] # SEP
    BY <1>1
  <2>2. PICK s \in Seq(Byte) : s = SubSeq(x, 1, k - 1)
    BY <1>2, <2>1
  <2>3. PICK t \in Seq(Byte) : t = SubSeq(x, 1, k)
    BY <1>2, <2>1
  <2>4. Append(a[Len(a)] \o s, x[k]) = a[Len(a)] \o t
    <3>1. t = s \o <<x[k]>>
      <4>1. k \in 1..Len(x) /\ 1 \in 1..Len(x) /\ k \in 1..Len(x)
        BY <1>1
      <4> QED
        BY <4>1, <2>2, <2>3, SubSeqRecursiveSecond
    <3>2. x[k] \in Byte /\ <<x[k]>> \in Seq(Byte) /\ a[Len(a)] \o s \in Seq(Byte)
      BY <1>1, <1>4, ConcatProperties
    <3>3. Append(a[Len(a)] \o s, x[k]) = (a[Len(a)] \o s) \o <<x[k]>>
      BY <3>2, AppendIsConcat
    <3>4. (a[Len(a)] \o s) \o <<x[k]>> = a[Len(a)] \o (s \o <<x[k]>>)
      <4>1. PICK l \in Seq(Byte), e \in Seq(Byte) : l = a[Len(a)] /\ e = <<x[k]>>
        BY <1>4, <3>2
      <4>2. (l \o s) \o e = l \o (s \o e)
        BY ONLY l \in Seq(Byte), s \in Seq(Byte), e \in Seq(Byte), BytesAssociative
      <4> QED
        BY ONLY <4>1, <4>2
    <3> QED
      BY <3>1, <3>3, <3>4
  <2>5. f[k - 1] = Extended(a, s) /\ f[k] = Extended(a, t)
    BY <1>3, <2>1, <2>2, <2>3
  <2>6. Len(Extended(a, s)) = Len(a) /\ Extended(a, s)[Len(a)] = a[Len(a)] \o s
    BY ExtendedType
  <2>7. Read(Extended(a, s), x[k]) = [Extended(a, s) EXCEPT ![Len(a)] = a[Len(a)] \o t]
    BY <2>1, <2>4, <2>6 DEF Read
  <2>8. [Extended(a, s) EXCEPT ![Len(a)] = a[Len(a)] \o t] = Extended(a, t)
    BY DEF Extended
  <2> QED
    BY <2>5, <2>7, <2>8
<1>7. f[n] = Extended(a, x)
  <2>1. SubSeq(x, 1, Len(x)) = x
    BY SubSeqFull
  <2>2. n \in 0..n
    BY <1>1
  <2> QED
    BY <1>3, <2>1, <2>2
<1>8. Reads(x, f, a)
  BY <1>3, <1>5, <1>6 DEF Reads
<1> QED
  BY <1>7, <1>8 DEF ReadsTo

\* A separator and a part without one are one more part.
LEMMA ReadsField ==
  ASSUME NEW h \in Seq(Byte), NEW a, NEW b, ReadsTo(h, a, b),
         NEW x \in Seq(Byte), \A k \in 1..Len(x) : x[k] # SEP
  PROVE  h \o <<SEP>> \o x \in Seq(Byte) /\ ReadsTo(h \o <<SEP>> \o x, a, Append(b, x))
<1>1. b \in Parts /\ SEP \in Byte /\ <<SEP>> \in Seq(Byte) /\ <<>> \in Seq(Byte)
  <2>1. SEP \in Byte
    BY DEF SEP, Byte
  <2> QED
    BY <2>1, ReadsType, EmptySeq
<1>2. ReadsTo(<<SEP>>, b, Append(b, <<>>))
  <2>1. Read(b, SEP) = Append(b, <<>>)
    BY DEF Read
  <2> QED
    BY <1>1, <2>1, ReadsOne
<1>3. h \o <<SEP>> \in Seq(Byte) /\ ReadsTo(h \o <<SEP>>, a, Append(b, <<>>))
  BY <1>1, <1>2, ReadsConcat, ConcatProperties
<1>4. Append(b, <<>>) \in Parts /\ Len(Append(b, <<>>)) = Len(b) + 1 /\ Len(b) \in Nat
  BY <1>1, PartAdded, PartsLength
<1>5. ReadsTo(x, Append(b, <<>>), Extended(Append(b, <<>>), x))
  BY <1>4, ReadsPlain
<1>6. Extended(Append(b, <<>>), x) = Append(b, x)
  <2> DEFINE c == Append(b, <<>>)
             d == Append(b, x)
             e == Extended(c, x)
  <2>1. b \in Seq(Seq(Byte))
    BY <1>1 DEF Parts
  <2>2. /\ c \in Seq(Seq(Byte)) /\ c[Len(b) + 1] = <<>> /\ \A k \in 1..Len(b) : c[k] = b[k]
        /\ Len(c) = Len(b) + 1
    BY <1>1, <1>4, <2>1, AppendProperties
  <2>3. /\ d \in Seq(Seq(Byte)) /\ d[Len(b) + 1] = x /\ \A k \in 1..Len(b) : d[k] = b[k]
        /\ Len(d) = Len(b) + 1
    BY <2>1, AppendProperties
  <2>4. <<>> \o x = x
    BY ConcatEmptySeq
  <2> HIDE DEF c, d
  <2>5. e = [c EXCEPT ![Len(b) + 1] = x]
    BY <2>2, <2>4 DEF Extended
  <2>6. /\ e \in Seq(Seq(Byte)) /\ Len(e) = Len(b) + 1
        /\ \A k \in 1..(Len(b) + 1) : e[k] = IF k = Len(b) + 1 THEN x ELSE c[k]
    <3>1. Len(b) + 1 \in 1..Len(c)
      BY <1>4, <2>2
    <3> QED
      BY ONLY <2>2, <2>5, <3>1, x \in Seq(Byte), ExceptSeq
  <2> HIDE DEF e
  <2>7. ASSUME NEW k \in 1..(Len(b) + 1) PROVE e[k] = d[k]
    <3>1. k = Len(b) + 1 \/ k \in 1..Len(b)
      BY <1>4
    <3> QED
      BY <3>1, <2>2, <2>3, <2>6
  <2>8. e = d
    BY <2>3, <2>6, <2>7, SeqEqual
  <2> QED
    BY <2>8 DEF c, d, e
<1>7. (h \o <<SEP>>) \o x \in Seq(Byte)
  BY <1>3, ConcatProperties
<1> QED
  BY <1>3, <1>5, <1>6, <1>7, ReadsConcat

LEMMA ReadsGrow ==
  ASSUME NEW x \in Seq(Byte), NEW a, NEW b, ReadsTo(x, a, b)
  PROVE  /\ Len(b) \in Nat /\ Len(a) \in Nat /\ Len(b) >= Len(a)
         /\ (\E k \in 1..Len(x) : x[k] = SEP) => Len(b) > Len(a)
<1>1. PICK f : Reads(x, f, a) /\ b = f[Len(x)]
  BY DEF ReadsTo
<1>2. /\ Len(x) \in Nat /\ \A k \in 1..Len(x) : x[k] \in Byte
      /\ a \in Parts /\ Len(a) \in Nat
  BY LenProperties, ReadsType, PartsLength
<1> DEFINE More(j) == /\ Len(f[j]) >= Len(a)
                      /\ (\E k \in 1..j : x[k] = SEP) => Len(f[j]) > Len(a)
           T == {j \in Nat : j =< Len(x) => More(j)}
<1>3. 0 \in T
  BY <1>1, <1>2 DEF Reads
<1>4. ASSUME NEW j \in Nat, j \in T PROVE j + 1 \in T
  <2>1. SUFFICES ASSUME j + 1 =< Len(x) PROVE More(j + 1)
    OBVIOUS
  <2>2. j + 1 \in 1..Len(x) /\ (j + 1) - 1 = j /\ j \in 0..Len(x) /\ x[j + 1] \in Byte
    BY <1>2, <2>1
  <2>3. f[j] \in Parts /\ f[j + 1] = Read(f[j], x[j + 1])
    BY <1>1, <2>2 DEF Reads
  <2>4. Len(f[j + 1]) = IF x[j + 1] = SEP THEN Len(f[j]) + 1 ELSE Len(f[j])
    BY <2>2, <2>3, ReadType
  <2>5. Len(f[j]) \in Nat /\ More(j)
    BY <1>4, <2>1, <2>3, PartsLength
  <2>6. \A k \in 1..(j + 1) : k \in 1..j \/ k = j + 1
    OBVIOUS
  <2> QED
    BY <1>2, <2>4, <2>5, <2>6
<1>5. Len(x) \in T
  <2> HIDE DEF T
  <2> QED
    BY <1>2, <1>3, <1>4, NatInd
<1>6. b \in Parts /\ Len(b) \in Nat
  BY ReadsType, PartsLength
<1> QED
  BY <1>1, <1>2, <1>5, <1>6

-----------------------------------------------------------------------------
(* The zero bytes of a payload *)

\* c is s before its first zero byte.
Cuts(s, c) ==
  /\ c \in Seq(Byte) /\ Len(c) =< Len(s)
  /\ \A k \in 1..Len(c) : c[k] = s[k] /\ s[k] # NUL
  /\ Len(c) < Len(s) => s[Len(c) + 1] = NUL

LEMMA ZeroIs ==
  ASSUME NEW s \in Seq(Byte)
  PROVE  \E c : /\ Cuts(s, c) /\ c = UpToNul(s)
                /\ SelectInSeq(s, LAMBDA ch : ch = NUL) = IF Len(c) = Len(s) THEN 0 ELSE Len(c) + 1
<1> DEFINE I == {i \in 1..Len(s) : s[i] = NUL}
           z == SelectInSeq(s, LAMBDA ch : ch = NUL)
<1>1. Len(s) \in Nat /\ I \subseteq Nat /\ \A k \in 1..Len(s) : s[k] \in Byte
  BY LenProperties
<1>2. z = IF I # {} THEN Min(I) ELSE 0
  BY DEF SelectInSeq
<1>3. UpToNul(s) = IF z = 0 THEN s ELSE SubSeq(s, 1, z - 1)
  BY DEF UpToNul
<1>4. CASE I = {}
  <2>1. z = 0 /\ UpToNul(s) = s
    BY <1>2, <1>3, <1>4
  <2>2. Cuts(s, s)
    BY <1>1, <1>4 DEF Cuts
  <2> HIDE DEF z
  <2> QED
    BY <2>1, <2>2 DEF z
<1>5. CASE I # {}
  <2>1. z = Min(I) /\ Min(I) \in I /\ \A y \in I : Min(I) =< y
    BY <1>1, <1>2, <1>5, FirstOf
  <2> HIDE DEF z
  <2>2. z \in 1..Len(s) /\ s[z] = NUL /\ \A k \in 1..Len(s) : s[k] = NUL => z =< k
    BY <2>1
  <2>3. PICK c : c = SubSeq(s, 1, z - 1)
    OBVIOUS
  <2>4. /\ c \in Seq(Byte) /\ Len(c) = z - 1
        /\ \A k \in 1..(z - 1) : c[k] = s[k]
    <3>1. \A k \in 1..(z - 1) : s[k] \in Byte /\ (1 + k) - 1 = k
      BY <1>1, <2>2
    <3>2. 1 \in Int /\ z - 1 \in Int /\ (z - 1) - 1 + 1 = z - 1 /\ z \in Nat /\ z >= 1
      BY <1>1, <2>2
    <3>3. /\ c \in Seq(Byte)
          /\ Len(c) = IF 1 =< z - 1 THEN (z - 1) - 1 + 1 ELSE 0
          /\ \A k \in 1..((z - 1) - 1 + 1) : c[k] = s[1 + k - 1]
      BY ONLY <2>3, <3>1, <3>2, SubSeqProperties
    <3> QED
      BY ONLY <3>1, <3>2, <3>3
  <2>5. Cuts(s, c)
    <3>1. Len(c) =< Len(s) /\ Len(c) + 1 = z
      BY <1>1, <2>2, <2>4
    <3>2. ASSUME NEW k \in 1..Len(c) PROVE c[k] = s[k] /\ s[k] # NUL
      <4>1. k \in 1..(z - 1) /\ k \in 1..Len(s) /\ ~(z =< k)
        BY <1>1, <2>2, <2>4
      <4> QED
        BY <4>1, <2>2, <2>4
    <3> QED
      BY <2>2, <2>4, <3>1, <3>2 DEF Cuts
  <2>6. Len(c) # Len(s) /\ z = Len(c) + 1 /\ z # 0
    BY <1>1, <2>2, <2>4
  <2>7. c = UpToNul(s)
    BY <1>3, <2>3, <2>6
  <2> QED
    BY <2>5, <2>6, <2>7 DEF z
<1> QED
  BY <1>4, <1>5

LEMMA CutIs == ASSUME NEW s \in Seq(Byte) PROVE Cuts(s, UpToNul(s))
BY ZeroIs

LEMMA CutOnly ==
  ASSUME NEW s \in Seq(Byte), NEW c, Cuts(s, c), NEW d, Cuts(s, d)
  PROVE  c = d
<1>1. Len(c) \in Nat /\ Len(d) \in Nat /\ Len(s) \in Nat /\ c \in Seq(Byte) /\ d \in Seq(Byte)
  BY LenProperties DEF Cuts
<1>2. ~(Len(c) < Len(d))
  <2>1. SUFFICES ASSUME Len(c) < Len(d) PROVE FALSE
    OBVIOUS
  <2>2. Len(c) + 1 \in 1..Len(d) /\ Len(c) < Len(s)
    BY <1>1, <2>1 DEF Cuts
  <2> QED
    BY <2>2 DEF Cuts
<1>3. ~(Len(d) < Len(c))
  <2>1. SUFFICES ASSUME Len(d) < Len(c) PROVE FALSE
    OBVIOUS
  <2>2. Len(d) + 1 \in 1..Len(c) /\ Len(d) < Len(s)
    BY <1>1, <2>1 DEF Cuts
  <2> QED
    BY <2>2 DEF Cuts
<1>4. Len(c) = Len(d)
  BY <1>1, <1>2, <1>3
<1>5. \A k \in 1..Len(c) : c[k] = d[k]
  BY <1>4 DEF Cuts
<1> QED
  BY ONLY <1>1, <1>4, <1>5, SeqEqual

\* The loop of _separate_payload_by_symbol reads up to the first zero byte.
LEMMA SeparateReads ==
  ASSUME NEW payload \in Seq(Byte), NEW x, Cuts(payload, x)
  PROVE  ReadsTo(x, << <<>> >>, Separate(payload))
<1>1. PICK c : /\ Cuts(payload, c)
               /\ SelectInSeq(payload, LAMBDA ch : ch = NUL) = IF Len(c) = Len(payload) THEN 0 ELSE Len(c) + 1
  BY ZeroIs
<1>2. /\ c = x /\ x \in Seq(Byte) /\ Len(x) \in Nat /\ Len(payload) \in Nat
      /\ \A k \in 1..Len(x) : x[k] = payload[k]
  BY <1>1, CutOnly, LenProperties DEF Cuts
<1> DEFINE zero == SelectInSeq(payload, LAMBDA ch : ch = NUL)
           n == IF zero = 0 THEN Len(payload) ELSE zero - 1
           parts[k \in 0..n] == IF k = 0 THEN << <<>> >> ELSE Read(parts[k - 1], payload[k])
<1>3. Separate(payload) = parts[n]
  BY DEF Separate
<1>4. n = Len(x)
  BY <1>1, <1>2
<1> HIDE DEF zero
<1>5. << <<>> >> \in Parts
  <2>1. <<>> \in Seq(Byte)
    BY EmptySeq
  <2> QED
    BY <2>1 DEF Parts
<1>6. PICK f : Reads(x, f, << <<>> >>)
  BY <1>2, <1>5, ReadsThere
<1>7. f = [k \in 0..n |-> IF k = 0 THEN << <<>> >> ELSE Read(f[k - 1], payload[k])]
  <2>1. /\ f \in [0..n -> Parts] /\ f[0] = << <<>> >>
        /\ \A k \in 1..n : f[k] = Read(f[k - 1], x[k])
    BY <1>4, <1>6 DEF Reads
  <2>2. f = [k \in 0..n |-> f[k]]
    BY <2>1
  <2>3. ASSUME NEW k \in 0..n
        PROVE  f[k] = IF k = 0 THEN << <<>> >> ELSE Read(f[k - 1], payload[k])
    <3>1. k = 0 \/ (k # 0 /\ k \in 1..n)
      BY <1>2, <1>4
    <3> QED
      BY <3>1, <2>1, <1>2, <1>4
  <2> QED
    BY <2>2, <2>3
<1>8. parts = [k \in 0..n |-> IF k = 0 THEN << <<>> >> ELSE Read(parts[k - 1], payload[k])]
  BY <1>7
<1> HIDE DEF parts, n
<1>9. parts[n] = f[n]
  <2> DEFINE T == {k \in Nat : k =< n => parts[k] = f[k]}
  <2>1. /\ \A k \in 0..n : parts[k] = IF k = 0 THEN << <<>> >> ELSE Read(parts[k - 1], payload[k])
        /\ \A k \in 0..n : f[k] = IF k = 0 THEN << <<>> >> ELSE Read(f[k - 1], payload[k])
    BY <1>7, <1>8
  <2>2. n \in Nat
    BY <1>2, <1>4
  <2>3. 0 \in T
    BY <2>1
  <2>4. ASSUME NEW k \in Nat, k \in T PROVE k + 1 \in T
    <3>1. SUFFICES ASSUME k + 1 =< n PROVE parts[k + 1] = f[k + 1]
      OBVIOUS
    <3>2. k + 1 \in 0..n /\ k + 1 # 0 /\ (k + 1) - 1 = k /\ parts[k] = f[k]
      BY <2>2, <2>4, <3>1
    <3> QED
      BY ONLY <2>1, <3>2
  <2>5. n \in T
    <3> HIDE DEF T
    <3> QED
      BY <2>2, <2>3, <2>4, NatInd
  <2> QED
    BY <2>2, <2>5
<1> QED
  BY <1>3, <1>4, <1>6, <1>9 DEF ReadsTo

-----------------------------------------------------------------------------
(* Texts, which have no zero byte, and the parts they spell *)

Text == Byte \ {NUL}

Spells(x, b) == x \in Seq(Text) /\ ReadsTo(x, << <<>> >>, b)

LEMMA TextBytes == ASSUME NEW x \in Seq(Text) PROVE x \in Seq(Byte) /\ Cuts(x, x)
<1>1. x \in Seq(Byte)
  BY SeqMonotonic DEF Text
<1>2. Len(x) \in Nat /\ \A k \in 1..Len(x) : x[k] \in Text
  BY LenProperties
<1> QED
  BY <1>1, <1>2 DEF Cuts, Text

LEMMA DigitText ==
  ASSUME NEW x \in Seq(Digit)
  PROVE  x \in Seq(Text) /\ x \in Seq(Byte) /\ \A k \in 1..Len(x) : x[k] # SEP
<1>1. Digit \subseteq Text
  BY DEF Digit, Text, Byte, NUL
<1>2. x \in Seq(Text)
  BY <1>1, SeqMonotonic
<1>3. \A k \in 1..Len(x) : x[k] \in Digit
  BY LenProperties
<1> QED
  BY <1>2, <1>3, TextBytes DEF Digit, SEP

LEMMA CutText == ASSUME NEW s, NEW c, Cuts(s, c) PROVE c \in Seq(Text)
<1>1. Len(c) \in Nat /\ \A k \in 1..Len(c) : c[k] \in Byte /\ c[k] # NUL
  BY LenProperties DEF Cuts
<1>2. c \in [1..Len(c) -> Text]
  <2>1. c \in [1..Len(c) -> Byte]
    BY LenProperties DEF Cuts
  <2> QED
    BY <1>1, <2>1 DEF Text
<1> QED
  BY <1>1, <1>2

LEMMA CutConcat ==
  ASSUME NEW h \in Seq(Text), NEW s \in Seq(Byte), NEW c, Cuts(s, c)
  PROVE  Cuts(h \o s, h \o c)
<1>1. /\ h \in Seq(Byte) /\ c \in Seq(Byte)
      /\ Len(h) \in Nat /\ Len(s) \in Nat /\ Len(c) \in Nat
      /\ \A k \in 1..Len(h) : h[k] # NUL
  <2>1. \A k \in 1..Len(h) : h[k] \in Text
    BY LenProperties
  <2> QED
    BY <2>1, TextBytes, LenProperties DEF Cuts, Text
<1> DEFINE y == h \o s
           z == h \o c
<1>2. /\ y \in Seq(Byte) /\ Len(y) = Len(h) + Len(s)
      /\ \A k \in 1..(Len(h) + Len(s)) : y[k] = IF k =< Len(h) THEN h[k] ELSE s[k - Len(h)]
      /\ z \in Seq(Byte) /\ Len(z) = Len(h) + Len(c)
      /\ \A k \in 1..(Len(h) + Len(c)) : z[k] = IF k =< Len(h) THEN h[k] ELSE c[k - Len(h)]
  BY <1>1, ConcatProperties
<1> HIDE DEF y, z
<1>3. /\ Len(c) =< Len(s)
      /\ \A k \in 1..Len(c) : c[k] = s[k] /\ s[k] # NUL
      /\ Len(c) < Len(s) => s[Len(c) + 1] = NUL
  BY DEF Cuts
<1>4. ASSUME NEW k \in 1..Len(z) PROVE z[k] = y[k] /\ y[k] # NUL
  <2>1. k \in 1..(Len(h) + Len(c)) /\ k \in 1..(Len(h) + Len(s))
    BY <1>1, <1>2, <1>3
  <2>2. CASE k =< Len(h)
    <3>1. k \in 1..Len(h)
      BY <2>1, <2>2, <1>1
    <3> QED
      BY ONLY <1>1, <1>2, <2>1, <2>2, <3>1
  <2>3. CASE ~(k =< Len(h))
    <3>1. k - Len(h) \in 1..Len(c)
      BY <2>1, <2>3, <1>1
    <3> QED
      BY ONLY <1>2, <1>3, <2>1, <2>3, <3>1
  <2> QED
    BY <2>2, <2>3
<1>5. ASSUME Len(z) < Len(y) PROVE y[Len(z) + 1] = NUL
  <2>1. /\ Len(c) < Len(s) /\ Len(z) + 1 \in 1..(Len(h) + Len(s))
        /\ ~(Len(z) + 1 =< Len(h)) /\ (Len(z) + 1) - Len(h) = Len(c) + 1
    BY <1>1, <1>2, <1>5
  <2> QED
    BY <1>2, <1>3, <2>1
<1>6. Len(z) =< Len(y)
  BY <1>1, <1>2, <1>3
<1> QED
  BY <1>2, <1>4, <1>5, <1>6 DEF Cuts, y, z

\* Zero bytes that fill a payload up change nothing.
LEMMA CutFilled ==
  ASSUME NEW s \in Seq(Byte), NEW t \in Seq(Byte), Len(s) =< Len(t),
         \A k \in 1..Len(t) : t[k] = IF k =< Len(s) THEN s[k] ELSE NUL,
         NEW c, Cuts(s, c)
  PROVE  Cuts(t, c)
<1>1. /\ Len(s) \in Nat /\ Len(t) \in Nat /\ Len(c) \in Nat /\ c \in Seq(Byte)
      /\ Len(c) =< Len(s)
      /\ \A k \in 1..Len(c) : c[k] = s[k] /\ s[k] # NUL
      /\ Len(c) < Len(s) => s[Len(c) + 1] = NUL
  BY LenProperties DEF Cuts
<1>2. ASSUME NEW k \in 1..Len(c) PROVE c[k] = t[k] /\ t[k] # NUL
  <2>1. k \in 1..Len(t) /\ k =< Len(s)
    BY <1>1
  <2> QED
    BY <1>1, <2>1
<1>3. ASSUME Len(c) < Len(t) PROVE t[Len(c) + 1] = NUL
  <2>1. Len(c) + 1 \in 1..Len(t) /\ (Len(c) < Len(s) <=> Len(c) + 1 =< Len(s))
    BY <1>1, <1>3
  <2> QED
    BY <1>1, <2>1
<1>4. Len(c) =< Len(t)
  BY <1>1
<1> QED
  BY <1>1, <1>2, <1>3, <1>4 DEF Cuts

LEMMA SpellsOne ==
  ASSUME NEW x \in Seq(Text), \A k \in 1..Len(x) : x[k] # SEP
  PROVE  Spells(x, <<x>>)
<1>1. x \in Seq(Byte) /\ <<>> \in Seq(Byte) /\ << <<>> >> \in Parts
  <2>1. <<>> \in Seq(Byte)
    BY EmptySeq
  <2> QED
    BY <2>1, TextBytes DEF Parts
<1>2. ReadsTo(x, << <<>> >>, Extended(<< <<>> >>, x))
  BY <1>1, ReadsPlain
<1>3. Extended(<< <<>> >>, x) = <<x>>
  <2>1. <<>> \o x = x
    BY <1>1, ConcatEmptySeq
  <2>2. Len(<< <<>> >>) = 1 /\ << <<>> >>[1] = <<>>
    OBVIOUS
  <2>3. Extended(<< <<>> >>, x) = [<< <<>> >> EXCEPT ![1] = x]
    BY <2>1, <2>2 DEF Extended
  <2> QED
    BY <2>3
<1> QED
  BY <1>2, <1>3 DEF Spells

LEMMA SpellsField ==
  ASSUME NEW h, NEW b, Spells(h, b),
         NEW x \in Seq(Text), \A k \in 1..Len(x) : x[k] # SEP
  PROVE  Spells(h \o <<SEP>> \o x, Append(b, x))
<1>1. h \in Seq(Byte) /\ h \in Seq(Text) /\ x \in Seq(Byte) /\ ReadsTo(h, << <<>> >>, b)
  BY TextBytes DEF Spells
<1>2. ReadsTo(h \o <<SEP>> \o x, << <<>> >>, Append(b, x))
  BY <1>1, ReadsField
<1>3. <<SEP>> \in Seq(Text)
  BY DEF Text, SEP, NUL, Byte
<1>4. h \o <<SEP>> \in Seq(Text)
  BY <1>1, <1>3, ConcatProperties
<1>5. h \o <<SEP>> \o x \in Seq(Text)
  BY <1>4, ConcatProperties
<1> QED
  BY <1>2, <1>5 DEF Spells

\* A separator and a text with another one in it are two parts more at least.
LEMMA SpellsMore ==
  ASSUME NEW h, NEW b, Spells(h, b), NEW x \in Seq(Text), \E k \in 1..Len(x) : x[k] = SEP
  PROVE  \E d : Spells(h \o <<SEP>> \o x, d) /\ Len(b) \in Nat /\ Len(d) \in Nat /\ Len(d) >= Len(b) + 2
<1>1. /\ h \in Seq(Byte) /\ h \in Seq(Text) /\ x \in Seq(Byte) /\ ReadsTo(h, << <<>> >>, b)
      /\ <<>> \in Seq(Text) /\ <<>> \in Seq(Byte) /\ Len(<<>>) = 0
  BY TextBytes, EmptySeq DEF Spells
<1>2. Spells(h \o <<SEP>> \o <<>>, Append(b, <<>>))
  <2>1. \A k \in 1..Len(<<>>) : <<>>[k] # SEP
    BY <1>1
  <2> QED
    BY ONLY <1>1, <2>1, Spells(h, b), SpellsField
<1>3. <<SEP>> \in Seq(Text) /\ h \o <<SEP>> \in Seq(Text)
  <2>1. <<SEP>> \in Seq(Text)
    BY DEF Text, SEP, NUL, Byte
  <2> QED
    BY <1>1, <2>1, ConcatProperties
<1>4. PICK y \in Seq(Text) : y = h \o <<SEP>>
  BY <1>3
<1>5. y \o <<>> = y
  BY ConcatEmptySeq
<1>6. ReadsTo(y, << <<>> >>, Append(b, <<>>)) /\ y \in Seq(Byte)
  BY <1>2, <1>4, <1>5, TextBytes DEF Spells
<1>7. Append(b, <<>>) \in Parts
  BY <1>6, ReadsType
<1>8. PICK f : Reads(x, f, Append(b, <<>>))
  BY <1>1, <1>7, ReadsThere
<1>9. PICK d : ReadsTo(x, Append(b, <<>>), d)
  BY <1>8 DEF ReadsTo
<1>10. b \in Parts /\ Len(b) \in Nat /\ Len(Append(b, <<>>)) = Len(b) + 1
  BY <1>1, ReadsType, PartsLength, PartAdded
<1>11. Len(d) \in Nat /\ Len(d) > Len(Append(b, <<>>))
  BY <1>1, <1>9, ReadsGrow
<1>12. ReadsTo(y \o x, << <<>> >>, d)
  BY <1>1, <1>6, <1>9, ReadsConcat
<1>13. y \o x \in Seq(Text)
  BY ConcatProperties
<1> QED
  BY <1>4, <1>10, <1>11, <1>12, <1>13 DEF Spells

\* What the parsers get of a payload.
LEMMA Separated ==
  ASSUME NEW s \in Seq(Byte), NEW t \in Seq(Byte), Len(s) =< Len(t),
         \A k \in 1..Len(t) : t[k] = IF k =< Len(s) THEN s[k] ELSE NUL,
         NEW c, Cuts(s, c), NEW b, Spells(c, b)
  PROVE  Separate(t) = b
<1>1. Cuts(t, c)
  BY CutFilled
<1>2. ReadsTo(c, << <<>> >>, Separate(t))
  BY <1>1, SeparateReads
<1>3. Len(c) \in Nat
  BY <1>1, LenProperties DEF Cuts
<1> QED
  BY <1>2, <1>3, ReadsOnly DEF Spells

-----------------------------------------------------------------------------
(* The length of a frame *)

LEMMA Lengths == FrameLen \in Nat /\ FrameLen > 10 /\ PayloadLen = FrameLen - 5
  BY SerialCodecAssumption DEF FrameLen

-----------------------------------------------------------------------------
(* Multiples of the length of a frame: where blocks start *)

BlockStarts == {FrameLen * b : b \in Nat}

LEMMA Multiples ==
  ASSUME NEW n \in Nat, n > 0, NEW a \in Nat, NEW b \in Nat
  PROVE  /\ n * a \in Nat
         /\ n * (a + 1) = n * a + n
         /\ a =< b => n * a =< n * b
         /\ a < b => n * a + n =< n * b
<1>1. /\ n * a \in Nat
      /\ n * (a + 1) = n * a + n
  OBVIOUS
<1>2. ASSUME NEW c \in Nat, NEW d \in Nat, c =< d PROVE n * c =< n * d
  <2>1. PICK e \in Nat : d = c + e
    <3>1. d - c \in Nat /\ d = c + (d - c)
      BY <1>2
    <3> QED
      BY <3>1
  <2>2. n * d = n * c + n * e
    BY <2>1
  <2>3. n * e \in Nat /\ n * c \in Nat /\ n * d \in Nat
    OBVIOUS
  <2> QED
    BY <2>2, <2>3
<1>3. a < b => n * (a + 1) =< n * b
  BY <1>2
<1>4. a =< b => n * a =< n * b
  BY <1>2
<1> QED
  BY <1>1, <1>3, <1>4

LEMMA StartsApart ==
  ASSUME NEW p \in BlockStarts, NEW r \in BlockStarts
  PROVE  /\ p \in Nat /\ p + FrameLen \in BlockStarts
         /\ p < r + FrameLen => p =< r
<1>1. PICK a \in Nat, b \in Nat : p = FrameLen * a /\ r = FrameLen * b
  BY DEF BlockStarts
<1>2. /\ p \in Nat /\ r \in Nat
      /\ FrameLen * (a + 1) = p + FrameLen
      /\ a =< b => p =< r
      /\ b < a => r + FrameLen =< p
  BY <1>1, Multiples, Lengths
<1>3. p + FrameLen \in BlockStarts
  BY <1>2 DEF BlockStarts
<1>4. p < r + FrameLen => p =< r
  BY <1>2, Lengths
<1> QED
  BY <1>2, <1>3, <1>4

-----------------------------------------------------------------------------
(* Frames, and what two of them become when they tear each other *)

IsFrame(f) ==
  /\ f \in Seq(Byte) /\ Len(f) = FrameLen
  /\ f[1] = 105 /\ f[2] = 150
  /\ f[FrameLen - 1] = 13 /\ f[FrameLen] = 10

\* A frame in which the second byte of START and the first of END are nowhere else.
Clean(f) ==
  /\ IsFrame(f)
  /\ \A q \in 1..FrameLen : (f[q] = 150 => q = 2) /\ (f[q] = 13 => q = FrameLen - 1)

StartsAt(s, p) == s[p + 1] = 105 /\ s[p + 2] = 150
EndsAt(s, p) == s[p + FrameLen - 1] = 13 /\ s[p + FrameLen] = 10

\* The block of s at p is a frame of F, or is refused.
Known(F, s, p) ==
  StartsAt(s, p) /\ EndsAt(s, p) => \E f \in F : \A q \in 1..FrameLen : s[p + q] = f[q]

\* The bytes of s from p on will not begin with START, with v bytes of one frame
\* written and z of another.
NoStart(s, p, v, z) ==
  /\ Len(s) >= p + 2 => ~StartsAt(s, p)
  /\ Len(s) = p + 1 /\ s[p + 1] = 105 => v # 1 /\ z # 1

Begins(s, p, f, v, z) == (\A q \in 1..v : s[p + q] = f[q]) \/ NoStart(s, p, v, z)

\* s holds whole frames of the length p, v bytes of f and z bytes of g: its full
\* blocks are known, and so is how the block begins that is not full.
Stream(F, s, p, f, v, g, z) ==
  /\ s \in Seq(Byte) /\ p \in BlockStarts
  /\ v \in 0..(FrameLen - 1) /\ z \in 0..(FrameLen - 1)
  /\ Len(s) = p + v + z
  /\ \A r \in BlockStarts : r + FrameLen =< Len(s) => Known(F, s, r)
  /\ Len(s) > 0 => \/ s[Len(s)] = 10
                   \/ v > 0 /\ s[Len(s)] = f[v]
                   \/ z > 0 /\ s[Len(s)] = g[z]
  /\ z = 0 => Begins(s, p, f, v, z)
  /\ v = 0 => Begins(s, p, g, z, v)
  /\ v + z >= FrameLen => NoStart(s, p + FrameLen, v, z)

LEMMA StreamSwap ==
  ASSUME NEW F, NEW s, NEW p, NEW f, NEW v, NEW g, NEW z, Stream(F, s, p, f, v, g, z)
  PROVE  Stream(F, s, p, g, z, f, v)
<1>1. v \in Nat /\ z \in Nat /\ p \in Nat
  BY StartsApart, Lengths DEF Stream
<1>2. \A t, r : NoStart(t, r, v, z) <=> NoStart(t, r, z, v)
  BY DEF NoStart
<1>3. p + v + z = p + z + v /\ v + z = z + v
  BY <1>1
<1> QED
  BY <1>2, <1>3 DEF Stream

\* A frame of which no byte is written yet can be any, and more frames known.
LEMMA StreamFree ==
  ASSUME NEW F, NEW s, NEW p, NEW f, NEW g, NEW z, Stream(F, s, p, f, 0, g, z),
         NEW G, F \subseteq G, NEW h
  PROVE  Stream(G, s, p, h, 0, g, z)
<1>1. \A r : Known(F, s, r) => Known(G, s, r)
  BY DEF Known
<1>2. z = 0 => Begins(s, p, h, 0, z)
  BY DEF Begins
<1> QED
  BY <1>1, <1>2 DEF Stream

\* t is s with the k bytes of f that follow the first v.
Longer(s, t, f, v, k) ==
  /\ k \in 1..(FrameLen - v)
  /\ t \in Seq(Byte) /\ Len(t) = Len(s) + k
  /\ \A q \in 1..Len(s) : t[q] = s[q]
  /\ \A q \in 1..k : t[Len(s) + q] = f[v + q]

\* The facts about t that do not depend on whether f gets complete.
Grown(F, t, p, f, v, k, z) ==
  /\ \A r \in BlockStarts : r + FrameLen =< Len(t) => Known(F, t, r)
  /\ Len(t) > 0 /\ t[Len(t)] = f[v + k]
  /\ z = 0 => Begins(t, p, f, v + k, 0)
  /\ v + k + z >= FrameLen /\ z > 0
       => NoStart(t, p + FrameLen, IF v + k = FrameLen THEN 0 ELSE v + k, z)

LEMMA StreamGrows ==
  ASSUME NEW F, NEW s, NEW p, NEW f, NEW v, NEW g, NEW z, Stream(F, s, p, f, v, g, z),
         f \in F, Clean(f), z > 0 => Clean(g),
         NEW k, NEW t, Longer(s, t, f, v, k)
  PROVE  Grown(F, t, p, f, v, k, z)
<1> DEFINE N == Len(s)
<1> USE DEF Longer, Grown
<1>1. /\ FrameLen \in Nat /\ FrameLen > 10
      /\ v \in Nat /\ v < FrameLen /\ z \in Nat /\ z < FrameLen /\ p \in Nat
      /\ k \in Nat /\ k > 0 /\ v + k =< FrameLen
      /\ N = p + v + z /\ N \in Nat /\ Len(t) = p + v + z + k
  BY Lengths, StartsApart DEF Stream
<1>2. \A q \in 1..N : t[q] = s[q]
  OBVIOUS
<1>3. \A q \in 1..k : t[N + q] = f[v + q]
  OBVIOUS
<1>4. /\ \A q \in 1..FrameLen : (f[q] = 150 => q = 2) /\ (f[q] = 13 => q = FrameLen - 1)
      /\ f[1] = 105 /\ f[FrameLen] = 10 /\ f[2] = 150 /\ f[FrameLen - 1] = 13
  BY DEF Clean, IsFrame
<1>5. z > 0 => /\ \A q \in 1..FrameLen : (g[q] = 150 => q = 2) /\ (g[q] = 13 => q = FrameLen - 1)
               /\ g[1] = 105 /\ g[FrameLen] = 10
  BY DEF Clean, IsFrame
<1>6. Len(t) > 0 /\ t[Len(t)] = f[v + k]
  <2>1. Len(t) = N + k /\ k \in 1..k
    BY <1>1
  <2> QED
    BY <2>1, <1>1, <1>3
<1>7. z = 0 => Begins(t, p, f, v + k, 0)
  <2> SUFFICES ASSUME z = 0 PROVE Begins(t, p, f, v + k, 0)
    OBVIOUS
  <2>1. Begins(s, p, f, v, 0) /\ N = p + v
    BY <1>1 DEF Stream
  <2>2. CASE \A q \in 1..v : s[p + q] = f[q]
    <3>1. ASSUME NEW q \in 1..(v + k) PROVE t[p + q] = f[q]
      <4>1. CASE q =< v
        <5>1. q \in 1..v /\ p + q \in 1..N
          BY <4>1, <2>1, <1>1
        <5> QED
          BY <5>1, <2>2, <1>2
      <4>2. CASE q > v
        <5>1. q - v \in 1..k /\ N + (q - v) = p + q /\ v + (q - v) = q
          BY <4>2, <2>1, <1>1
        <5> QED
          BY <5>1, <1>3
      <4> QED
        BY <4>1, <4>2, <1>1
    <3> QED
      BY <3>1 DEF Begins
  <2>3. CASE NoStart(s, p, v, 0) /\ v > 0
    <3>1. Len(t) >= p + 2 /\ Len(t) # p + 1
      BY <2>1, <2>3, <1>1
    <3>2. ~StartsAt(t, p)
      <4>1. CASE v >= 2
        <5>1. N >= p + 2 /\ p + 1 \in 1..N /\ p + 2 \in 1..N
          BY <4>1, <2>1, <1>1
        <5> QED
          BY <5>1, <2>3, <1>2 DEF NoStart, StartsAt
      <4>2. CASE v = 1
        <5>1. N = p + 1 /\ p + 1 \in 1..N
          BY <4>2, <2>1, <1>1
        <5>2. s[p + 1] # 105
          BY <5>1, <4>2, <2>3 DEF NoStart
        <5> QED
          BY <5>1, <5>2, <1>2 DEF StartsAt
      <4> QED
        BY <4>1, <4>2, <2>3, <1>1
    <3> QED
      BY <3>1, <3>2 DEF Begins, NoStart
  <2>4. CASE v = 0
    <3>1. \A q \in 1..v : s[p + q] = f[q]
      BY <2>4
    <3> QED
      BY <3>1, <2>2
  <2> QED
    BY <2>1, <2>2, <2>3, <2>4, <1>1 DEF Begins
<1>8. v + k + z >= FrameLen /\ z > 0 => NoStart(t, p + FrameLen, IF v + k = FrameLen THEN 0 ELSE v + k, z)
  <2> SUFFICES ASSUME v + k + z >= FrameLen, z > 0
               PROVE  NoStart(t, p + FrameLen, IF v + k = FrameLen THEN 0 ELSE v + k, z)
    OBVIOUS
  <2> DEFINE P == p + FrameLen
             u == IF v + k = FrameLen THEN 0 ELSE v + k
  <2>1. /\ P \in Nat /\ P = p + FrameLen
        /\ v + k < FrameLen => u = v + k
        /\ v + k = FrameLen => u = 0
    BY <1>1
  <2> HIDE DEF P, u
  \* The first bytes of the new block, when they are bytes of f.
  <2>2. ASSUME v + z =< FrameLen PROVE NoStart(t, P, u, z)
    <3>1. N =< P /\ Len(t) >= P
      BY <2>1, <2>2, <1>1
    <3>2. ASSUME Len(t) >= P + 2 PROVE ~StartsAt(t, P)
      <4>1. /\ P + 2 - N \in 1..k /\ N + (P + 2 - N) = P + 2
            /\ v + (P + 2 - N) = FrameLen - z + 2
            /\ FrameLen - z + 2 # 2
        BY <3>1, <3>2, <2>1, <2>2, <1>1
      <4>2. t[P + 2] = f[FrameLen - z + 2]
        BY <4>1, <1>3
      <4>3. FrameLen - z + 2 \in 1..FrameLen
        BY <3>2, <4>1, <2>1, <1>1
      <4> QED
        BY <4>1, <4>2, <4>3, <1>4 DEF StartsAt
    <3>3. ASSUME Len(t) = P + 1, t[P + 1] = 105 PROVE u # 1 /\ z # 1
      <4>1. /\ P + 1 - N \in 1..k /\ N + (P + 1 - N) = P + 1
            /\ v + (P + 1 - N) = FrameLen - z + 1
            /\ FrameLen - z + 1 = v + k
        BY <3>1, <3>3, <2>1, <2>2, <1>1
      <4>2. f[FrameLen - z + 1] = 105
        BY <4>1, <3>3, <1>3
      <4>3. z # 1
        BY <4>2, <1>4, <1>1
      <4>4. u # 1
        BY <4>1, <2>1, <1>1
      <4> QED
        BY <4>3, <4>4
    <3> QED
      BY <3>2, <3>3 DEF NoStart
  <2>3. ASSUME v + z > FrameLen PROVE NoStart(t, P, u, z)
    <3>1. N > P /\ P + 1 \in 1..N /\ Len(t) >= P + 2 /\ Len(t) # P + 1
      BY <2>1, <2>3, <1>1
    <3>2. NoStart(s, P, v, z)
      BY <2>1, <2>3, <1>1 DEF Stream
    <3>3. ~StartsAt(t, P)
      <4>1. CASE N >= P + 2
        <5>1. P + 2 \in 1..N
          BY <4>1, <2>1, <1>1
        <5> QED
          BY <5>1, <4>1, <3>1, <3>2, <1>2 DEF NoStart, StartsAt
      <4>2. CASE N = P + 1
        <5>1. t[P + 2] = f[v + 1] /\ v + 1 \in 1..FrameLen
          <6>1. 1 \in 1..k /\ N + 1 = P + 2
            BY <4>2, <1>1, <2>1
          <6> QED
            BY <6>1, <1>3, <1>1
        <5>2. t[P + 1] = s[P + 1]
          BY <3>1, <1>2
        <5>3. CASE s[P + 1] = 105
          <6>1. v # 1
            BY <5>3, <4>2, <3>2 DEF NoStart
          <6>2. t[P + 2] # 150
            BY <6>1, <5>1, <1>4, <1>1
          <6> QED
            BY <6>2 DEF StartsAt
        <5> QED
          BY <5>2, <5>3 DEF StartsAt
      <4>3. N >= P + 2 \/ N = P + 1
        <5>1. N \in Nat /\ P \in Nat /\ N > P
          BY <3>1, <1>1, <2>1
        <5> QED
          BY <5>1
      <4> QED
        BY <4>1, <4>2, <4>3
    <3> QED
      BY <3>1, <3>3 DEF NoStart
  <2> QED
    BY <2>2, <2>3, <1>1 DEF P, u
<1>9. ASSUME NEW r \in BlockStarts, r + FrameLen =< Len(t)
      PROVE  Known(F, t, r)
  <2>1. p \in BlockStarts /\ r \in Nat
    BY StartsApart DEF Stream
  <2>2. CASE r + FrameLen =< N
    <3>1. Known(F, s, r)
      BY <2>2 DEF Stream
    <3>2. \A q \in 1..FrameLen : t[r + q] = s[r + q]
      <4> TAKE q \in 1..FrameLen
      <4>1. r + q \in 1..N
        BY <2>1, <2>2, <1>1
      <4> QED
        BY <4>1, <1>2
    <3>3. /\ t[r + 1] = s[r + 1] /\ t[r + 2] = s[r + 2]
          /\ t[r + FrameLen - 1] = s[r + FrameLen - 1] /\ t[r + FrameLen] = s[r + FrameLen]
      <4>1. 1 \in 1..FrameLen /\ 2 \in 1..FrameLen /\ FrameLen - 1 \in 1..FrameLen /\ FrameLen \in 1..FrameLen
        BY <1>1
      <4>2. r + FrameLen - 1 = r + (FrameLen - 1)
        BY <1>1, <2>1
      <4> QED
        BY <4>1, <4>2, <3>2
    <3> QED
      BY <3>1, <3>2, <3>3 DEF Known, StartsAt, EndsAt
  <2>3. CASE r + FrameLen > N
    \* Only the block at p gets full.
    <3>1. r = p \/ r = p + FrameLen
      <4>1. r < (p + FrameLen) + FrameLen
        BY <1>1, <2>1, <1>9
      <4>2. p < r + FrameLen
        BY <1>1, <2>1, <2>3
      <4>3. r =< p + FrameLen /\ p =< r
        BY <4>1, <4>2, <2>1, StartsApart
      <4>4. r < p + FrameLen => r =< p
        BY <2>1, StartsApart
      <4> QED
        BY <4>3, <4>4, <2>1, <1>1
    <3>2. r # p + FrameLen
      BY <1>1, <1>9, <2>1
    <3>3. r = p /\ v + z < FrameLen /\ v + k + z >= FrameLen
      BY <3>1, <3>2, <1>1, <1>9, <2>1, <2>3
    <3>4. CASE z = 0
      <4>1. v + k = FrameLen /\ Begins(t, p, f, FrameLen, 0)
        BY <3>3, <3>4, <1>1, <1>7
      <4>2. CASE \A q \in 1..FrameLen : t[p + q] = f[q]
        BY <4>2, <3>3 DEF Known
      <4>3. CASE NoStart(t, p, FrameLen, 0)
        <5>1. Len(t) >= p + 2
          BY <4>1, <3>4, <1>1
        <5> QED
          BY <5>1, <4>3, <3>3 DEF NoStart, Known
      <4> QED
        BY <4>1, <4>2, <4>3 DEF Begins
    <3>5. CASE z > 0
      <4> DEFINE j == FrameLen - v - z
      <4>1. /\ j \in 1..k /\ N + j = p + FrameLen /\ v + j = FrameLen - z
            /\ FrameLen - z \in 1..(FrameLen - 1)
        BY <3>3, <3>5, <1>1
      <4>2. t[p + FrameLen] = f[FrameLen - z]
        BY <4>1, <1>3
      <4>3. ASSUME EndsAt(t, p) PROVE FALSE
        <5>1. f[FrameLen - z] = 10 /\ t[p + FrameLen - 1] = 13
          BY <4>2, <4>3 DEF EndsAt
        <5>2. CASE j > 1
          <6>1. j - 1 \in 1..k /\ N + (j - 1) = p + FrameLen - 1 /\ v + (j - 1) = FrameLen - z - 1
            BY <5>2, <4>1, <1>1
          <6>2. f[FrameLen - z - 1] = 13
            BY <6>1, <5>1, <1>3
          <6>3. FrameLen - z - 1 \in 1..FrameLen /\ FrameLen - z - 1 # FrameLen - 1
            BY <5>2, <4>1, <3>5, <1>1
          <6> QED
            BY <6>2, <6>3, <1>4
        <5>3. CASE j = 1
          <6>1. N = p + FrameLen - 1 /\ N \in 1..N /\ N > 0 /\ v + 1 = FrameLen - z
            BY <5>3, <4>1, <1>1
          <6>2. s[N] = 13
            BY <6>1, <5>1, <1>2
          <6>3. (v > 0 /\ s[N] = f[v]) \/ (z > 0 /\ s[N] = g[z])
            BY <6>1, <6>2 DEF Stream
          <6>4. CASE v > 0 /\ s[N] = f[v]
            <7>1. v \in 1..FrameLen /\ v # FrameLen - 1
              BY <6>1, <6>4, <3>5, <1>1
            <7> QED
              BY <7>1, <6>2, <6>4, <1>4
          <6>5. CASE s[N] = g[z]
            <7>1. z \in 1..FrameLen
              BY <3>5, <1>1
            <7>2. z = FrameLen - 1
              BY <7>1, <6>2, <6>5, <1>5, <3>5
            <7>3. FrameLen - z = 1
              BY <7>2, <1>1
            <7> QED
              BY <7>3, <5>1, <1>4
          <6> QED
            BY <6>3, <6>4, <6>5
        <5> QED
          BY <5>2, <5>3, <4>1
      <4> QED
        BY <4>3, <3>3 DEF Known
    <3> QED
      BY <3>4, <3>5, <1>1
  <2> QED
    BY <2>2, <2>3, <2>1, <1>1
<1> QED
  BY <1>6, <1>7, <1>8, <1>9

\* A writer of f comes on by k bytes; f is incomplete or complete then.
LEMMA StreamStep ==
  ASSUME NEW F, NEW s, NEW p, NEW f, NEW v, NEW g, NEW z, Stream(F, s, p, f, v, g, z),
         f \in F, Clean(f), z > 0 => Clean(g),
         NEW k \in 1..(FrameLen - v),
         NEW t \in Seq(Byte), Len(t) = Len(s) + k,
         \A q \in 1..Len(s) : t[q] = s[q],
         \A q \in 1..k : t[Len(s) + q] = f[v + q]
  PROVE  /\ v + k < FrameLen => Stream(F, t, p, f, v + k, g, z)
         /\ v + k = FrameLen => Stream(F, t, p + FrameLen, f, 0, g, z)
<1> DEFINE N == Len(s)
<1>1. /\ FrameLen \in Nat /\ FrameLen > 10
      /\ v \in Nat /\ v < FrameLen /\ z \in Nat /\ z < FrameLen /\ p \in Nat
      /\ k \in Nat /\ k > 0 /\ v + k =< FrameLen
      /\ N = p + v + z /\ N \in Nat /\ Len(t) = p + v + z + k
      /\ p \in BlockStarts /\ p + FrameLen \in BlockStarts
  BY Lengths, StartsApart DEF Stream
<1>2. /\ \A r \in BlockStarts : r + FrameLen =< Len(t) => Known(F, t, r)
      /\ Len(t) > 0 /\ t[Len(t)] = f[v + k]
      /\ z = 0 => Begins(t, p, f, v + k, 0)
      /\ v + k + z >= FrameLen /\ z > 0
           => NoStart(t, p + FrameLen, IF v + k = FrameLen THEN 0 ELSE v + k, z)
  <2>1. Longer(s, t, f, v, k)
    BY DEF Longer
  <2>2. Grown(F, t, p, f, v, k, z)
    BY <2>1, StreamGrows
  <2> QED
    BY <2>2 DEF Grown
<1>3. ASSUME v + k < FrameLen PROVE Stream(F, t, p, f, v + k, g, z)
  <2>1. /\ v + k \in 0..(FrameLen - 1) /\ z \in 0..(FrameLen - 1)
        /\ Len(t) = p + (v + k) + z /\ v + k > 0 /\ v + k # 0 /\ v + k # FrameLen
        /\ v + k + z >= FrameLen => z > 0
    BY ONLY <1>1, <1>3
  <2>2. v + k + z >= FrameLen => NoStart(t, p + FrameLen, v + k, z)
    BY <2>1, <1>2
  <2>3. z = 0 => Begins(t, p, f, v + k, z)
    BY <1>2
  <2> QED
    BY <1>1, <1>2, <2>1, <2>2, <2>3 DEF Stream
<1>4. ASSUME v + k = FrameLen PROVE Stream(F, t, p + FrameLen, f, 0, g, z)
  <2>1. /\ 0 \in 0..(FrameLen - 1) /\ z \in 0..(FrameLen - 1)
        /\ Len(t) = (p + FrameLen) + 0 + z
        /\ v + k + z >= FrameLen /\ ~(0 + z >= FrameLen) /\ (z > 0 \/ z = 0)
    BY ONLY <1>1, <1>4
  <2>2. t[Len(t)] = 10
    BY <1>2, <1>4 DEF Clean, IsFrame
  <2>3. z = 0 => Begins(t, p + FrameLen, f, 0, z)
    BY DEF Begins
  <2>4. Begins(t, p + FrameLen, g, z, 0)
    <3>1. CASE z = 0
      BY <3>1 DEF Begins
    <3>2. CASE z > 0
      <4>1. NoStart(t, p + FrameLen, 0, z)
        BY <1>2, <1>4, <2>1, <3>2
      <4> QED
        BY <4>1 DEF Begins, NoStart
    <3> QED
      BY <3>1, <3>2, <2>1
  <2> QED
    BY <1>1, <1>2, <2>1, <2>2, <2>3, <2>4 DEF Stream
<1> QED
  BY <1>3, <1>4

\* What _write_bytes puts on the port.
LEMMA FrameShape ==
  ASSUME NEW m, m.cmd \in FILEINFO..RETRANS, Payload(m) \in Seq(Byte), FrameOf(m) # <<>>
  PROVE  /\ Len(Payload(m)) =< PayloadLen
         /\ IsFrame(FrameOf(m))
         /\ {START[2], END[1]} \cap ToSet(Payload(m)) = {} => Clean(FrameOf(m))
         /\ FrameOf(m)[3] = m.cmd
         /\ \A k \in 1..PayloadLen :
              FrameOf(m)[3 + k] = IF k =< Len(Payload(m)) THEN Payload(m)[k] ELSE NUL
<1> DEFINE p == Payload(m)
           n == Len(p)
           fill == [k \in 1..(PayloadLen - n) |-> NUL]
           f == FrameOf(m)
<1>1. /\ n \in Nat /\ p \in Seq(Byte) /\ DOMAIN p = 1..n
      /\ FrameLen \in Nat /\ FrameLen > 10 /\ PayloadLen = FrameLen - 5
      /\ m.cmd \in Byte /\ m.cmd < 6
  BY LenProperties, Lengths DEF Byte, FILEINFO, RETRANS
<1>2. n =< PayloadLen
  BY <1>1, Lengths DEF FrameOf
<1> HIDE DEF p, n
<1>3. f = START \o <<m.cmd>> \o p \o fill \o END
  BY <1>2, <1>1, Lengths DEF FrameOf, p, n
<1>4. fill \in Seq(Byte) /\ Len(fill) = PayloadLen - n /\ \A q \in 1..(PayloadLen - n) : fill[q] = 0
  <2>1. PayloadLen - n \in Nat
    BY <1>1, <1>2
  <2>2. \A q \in 1..(PayloadLen - n) : NUL \in Byte
    BY DEF NUL, Byte
  <2>3. fill \in Seq(Byte)
    BY <2>1, <2>2, IsASeq
  <2> QED
    BY <2>1, <2>3 DEF NUL
<1> HIDE DEF fill
<1> DEFINE a == START \o <<m.cmd>>
           b == a \o p
           c == b \o fill
<1>5. a \in Seq(Byte) /\ Len(a) = 3 /\ a[1] = 105 /\ a[2] = 150 /\ a[3] = m.cmd
  BY <1>1 DEF START, Byte
<1> HIDE DEF a
<1>6. /\ b \in Seq(Byte) /\ Len(b) = 3 + n
      /\ \A q \in 1..(3 + n) : b[q] = IF q =< 3 THEN a[q] ELSE p[q - 3]
  <2>1. /\ b \in Seq(Byte) /\ Len(b) = Len(a) + Len(p)
        /\ \A q \in 1..(Len(a) + Len(p)) : b[q] = IF q =< Len(a) THEN a[q] ELSE p[q - Len(a)]
    <3>1. a \in Seq(Byte) /\ p \in Seq(Byte)
      BY <1>1, <1>5
    <3> QED
      BY ONLY <3>1, ConcatProperties
  <2>2. Len(a) = 3 /\ Len(p) = n
    BY <1>5 DEF n
  <2> QED
    BY <2>1, <2>2
<1> HIDE DEF b
<1>7. /\ c \in Seq(Byte) /\ Len(c) = 3 + PayloadLen
      /\ \A q \in 1..(3 + PayloadLen) : c[q] = IF q =< 3 + n THEN b[q] ELSE fill[q - (3 + n)]
  <2>1. Len(b) + Len(fill) = 3 + PayloadLen
    BY <1>1, <1>4, <1>6
  <2>2. /\ c \in Seq(Byte) /\ Len(c) = Len(b) + Len(fill)
        /\ \A q \in 1..(Len(b) + Len(fill)) : c[q] = IF q =< Len(b) THEN b[q] ELSE fill[q - Len(b)]
    BY <1>4, <1>6, ConcatProperties
  <2>3. Len(b) = 3 + n
    BY <1>6
  <2> QED
    BY ONLY <2>1, <2>2, <2>3
<1> HIDE DEF c
<1>8. END \in Seq(Byte) /\ Len(END) = 2 /\ END[1] = 13 /\ END[2] = 10
  BY DEF END, Byte
<1>9. f = c \o END
  BY <1>3 DEF a, b, c
<1>10. /\ f \in Seq(Byte) /\ Len(f) = FrameLen
       /\ \A q \in 1..FrameLen : f[q] = IF q =< FrameLen - 2 THEN c[q] ELSE END[q - (FrameLen - 2)]
  <2>1. Len(c) + Len(END) = FrameLen /\ Len(c) = FrameLen - 2
    BY <1>1, <1>7, <1>8
  <2>2. /\ c \o END \in Seq(Byte) /\ Len(c \o END) = Len(c) + Len(END)
        /\ \A q \in 1..(Len(c) + Len(END)) :
             (c \o END)[q] = IF q =< Len(c) THEN c[q] ELSE END[q - Len(c)]
    BY <1>7, <1>8, ConcatProperties
  <2> QED
    BY ONLY <2>1, <2>2, <1>9
<1> HIDE DEF f
<1>11. ASSUME NEW q \in 1..FrameLen
       PROVE  \/ q =< 3 /\ f[q] = a[q]
              \/ q > 3 /\ q =< FrameLen - 2 /\ (f[q] = 0 \/ (q - 3 \in 1..n /\ f[q] = p[q - 3]))
              \/ q = FrameLen - 1 /\ f[q] = 13
              \/ q = FrameLen /\ f[q] = 10
  <2>1. CASE q =< 3
    <3>1. q \in 1..(3 + PayloadLen) /\ q \in 1..(3 + n) /\ q =< FrameLen - 2 /\ q =< 3 + n
      BY <2>1, <1>1
    <3> QED
      BY <2>1, <3>1, <1>10, <1>7, <1>6
  <2>2. CASE q > 3 /\ q =< FrameLen - 2
    <3>1. q \in 1..(3 + PayloadLen)
      BY <2>2, <1>1
    <3>2. CASE q =< 3 + n
      <4>1. q \in 1..(3 + n) /\ ~(q =< 3) /\ q - 3 \in 1..n
        BY <2>2, <3>2, <1>1
      <4> QED
        BY <2>2, <4>1, <3>1, <3>2, <1>10, <1>7, <1>6
    <3>3. CASE ~(q =< 3 + n)
      <4>1. q - (3 + n) \in 1..(PayloadLen - n)
        BY <2>2, <3>3, <1>1, <1>2
      <4> QED
        BY <2>2, <4>1, <3>1, <3>3, <1>10, <1>7, <1>4
    <3> QED
      BY <3>2, <3>3
  <2>3. CASE q > FrameLen - 2
    <3>1. q = FrameLen - 1 \/ q = FrameLen
      BY <2>3, <1>1
    <3>2. ~(q =< FrameLen - 2) /\ (FrameLen - 1) - (FrameLen - 2) = 1 /\ FrameLen - (FrameLen - 2) = 2
      BY <2>3, <1>1
    <3> QED
      BY <3>1, <3>2, <1>10, <1>8
  <2> QED
    BY <2>1, <2>2, <2>3, <1>1
<1>12. IsFrame(f)
  <2>1. 1 \in 1..FrameLen /\ 2 \in 1..FrameLen /\ FrameLen - 1 \in 1..FrameLen /\ FrameLen \in 1..FrameLen
    BY <1>1
  <2>2. f[1] = 105 /\ f[2] = 150
    BY <2>1, <1>11, <1>5, <1>1
  <2>3. f[FrameLen - 1] = 13 /\ f[FrameLen] = 10
    BY <2>1, <1>11, <1>1
  <2> QED
    BY <1>10, <2>2, <2>3 DEF IsFrame
<1>13. ASSUME {START[2], END[1]} \cap ToSet(p) = {} PROVE Clean(f)
  <2>1. \A i \in 1..n : p[i] # 150 /\ p[i] # 13
    <3>1. \A i \in 1..n : p[i] \in ToSet(p)
      BY <1>1 DEF ToSet
    <3>2. START[2] = 150 /\ END[1] = 13
      BY DEF START, END
    <3> QED
      BY <3>1, <3>2, <1>13
  <2>2. ASSUME NEW q \in 1..FrameLen
        PROVE  (f[q] = 150 => q = 2) /\ (f[q] = 13 => q = FrameLen - 1)
    <3>1. CASE q =< 3 /\ f[q] = a[q]
      <4>1. q = 1 \/ q = 2 \/ q = 3
        BY <3>1
      <4> QED
        BY <4>1, <3>1, <1>5, <1>1
    <3>2. CASE q > 3 /\ q =< FrameLen - 2 /\ (f[q] = 0 \/ (q - 3 \in 1..n /\ f[q] = p[q - 3]))
      BY <3>2, <2>1
    <3> QED
      BY <1>11, <3>1, <3>2
  <2> QED
    BY <2>2, <1>12 DEF Clean
<1>14. f[3] = m.cmd
  <2>1. 3 \in 1..FrameLen /\ 3 =< FrameLen - 2 /\ 3 \in 1..(3 + PayloadLen) /\ 3 =< 3 + n /\ 3 \in 1..(3 + n)
    BY <1>1
  <2> QED
    BY <2>1, <1>5, <1>6, <1>7, <1>10
<1>15. ASSUME NEW k \in 1..PayloadLen PROVE f[3 + k] = IF k =< n THEN p[k] ELSE NUL
  <2>1. 3 + k \in 1..FrameLen /\ 3 + k =< FrameLen - 2 /\ 3 + k \in 1..(3 + PayloadLen) /\ k \in Nat
    BY <1>1
  <2>2. f[3 + k] = IF 3 + k =< 3 + n THEN b[3 + k] ELSE fill[(3 + k) - (3 + n)]
    BY <2>1, <1>7, <1>10
  <2>3. CASE k =< n
    <3>1. 3 + k \in 1..(3 + n) /\ ~(3 + k =< 3) /\ (3 + k) - 3 = k /\ 3 + k =< 3 + n
      BY <2>1, <2>3, <1>1
    <3>2. b[3 + k] = p[k]
      BY <3>1, <1>6
    <3> QED
      BY <2>2, <2>3, <3>1, <3>2
  <2>4. CASE ~(k =< n)
    <3>1. (3 + k) - (3 + n) \in 1..(PayloadLen - n) /\ ~(3 + k =< 3 + n)
      BY <2>1, <2>4, <1>1, <1>2
    <3> QED
      BY <2>2, <2>4, <3>1, <1>4 DEF NUL
  <2> QED
    BY <2>3, <2>4
<1> QED
  BY <1>2, <1>12, <1>13, <1>14, <1>15 DEF p, n, f

-----------------------------------------------------------------------------
(* Payloads *)

\* f holds the concatenations of the beginnings of seqs.
Joins(seqs, f) ==
  f = [i \in 1..Len(seqs) |-> IF i = 1 THEN seqs[i] ELSE f[i - 1] \o seqs[i]]

Joined(seqs, n, f) ==
  /\ f \in [1..n -> Seq(Text)] /\ f[1] = seqs[1] /\ FlattenSeq(seqs) = f[n]
  /\ \A i \in 2..n : f[i] = f[i - 1] \o seqs[i]

LEMMA JoinsThere ==
  ASSUME NEW seqs \in Seq(Seq(Text)), seqs # <<>>
  PROVE  \E f : Joined(seqs, Len(seqs), f)
<1> DEFINE n == Len(seqs)
<1>1. n \in Nat /\ n > 0 /\ \A i \in 1..n : seqs[i] \in Seq(Text)
  BY EmptySeq, ElementOfSeq
<1> DEFINE step == [x \in Nat \X Seq(Text) |->
                      IF x[1] + 2 \in 1..n THEN x[2] \o seqs[x[1] + 2] ELSE x[2]]
<1>2. step \in [Nat \X Seq(Text) -> Seq(Text)]
  <2>1. ASSUME NEW x \in Nat \X Seq(Text)
        PROVE  (IF x[1] + 2 \in 1..n THEN x[2] \o seqs[x[1] + 2] ELSE x[2]) \in Seq(Text)
    <3>1. x[2] \in Seq(Text)
      OBVIOUS
    <3>2. x[1] + 2 \in 1..n => x[2] \o seqs[x[1] + 2] \in Seq(Text)
      BY <1>1, <3>1, ConcatProperties
    <3> QED
      BY <3>1, <3>2
  <2> QED
    BY <2>1
<1>3. ASSUME NEW k \in Nat, NEW e \in Seq(Text), k + 2 \in 1..n
      PROVE  step[<<k, e>>] = e \o seqs[k + 2]
  BY <1>3
<1> HIDE DEF step
<1>4. seqs[1] \in Seq(Text) /\ n - 1 \in Nat
  BY <1>1
<1>5. PICK g : Iterates(Seq(Text), seqs[1], step, n - 1, g)
  BY ONLY <1>2, <1>4, Recursion
<1>6. /\ g \in [0..(n - 1) -> Seq(Text)] /\ g[0] = seqs[1]
      /\ \A k \in 0..((n - 1) - 1) : g[k + 1] = step[<<k, g[k]>>]
  BY <1>5 DEF Iterates
<1> DEFINE h == [i \in 1..n |-> g[i - 1]]
<1>7. /\ h \in [1..n -> Seq(Text)] /\ \A i \in 1..n : h[i] = g[i - 1]
  <2>1. \A i \in 1..n : i - 1 \in 0..(n - 1)
    BY <1>1
  <2> QED
    BY <1>6, <2>1
<1> HIDE DEF h
<1>8. h[1] = seqs[1]
  <2>1. 1 \in 1..n /\ 1 - 1 = 0
    BY <1>1
  <2> QED
    BY ONLY <1>6, <1>7, <2>1
<1>9. ASSUME NEW i \in 2..n PROVE h[i] = h[i - 1] \o seqs[i]
  <2>1. /\ i \in 1..n /\ i - 1 \in 1..n /\ i - 2 \in 0..((n - 1) - 1) /\ i - 2 \in 0..(n - 1)
        /\ i - 2 \in Nat /\ (i - 2) + 1 = i - 1 /\ (i - 2) + 2 = i /\ (i - 1) - 1 = i - 2
    BY <1>1
  <2>2. h[i] = g[i - 1] /\ h[i - 1] = g[i - 2] /\ g[i - 2] \in Seq(Text)
    BY ONLY <1>6, <1>7, <2>1
  <2>3. g[(i - 2) + 1] = step[<<i - 2, g[i - 2]>>]
    BY ONLY <1>6, <2>1
  <2>4. step[<<i - 2, g[i - 2]>>] = g[i - 2] \o seqs[(i - 2) + 2]
    BY <1>3, <2>1, <2>2
  <2> QED
    BY ONLY <2>1, <2>2, <2>3, <2>4
<1>10. Joins(seqs, h)
  <2>1. h = [i \in 1..n |-> h[i]]
    BY <1>7
  <2>2. ASSUME NEW i \in 1..n PROVE h[i] = IF i = 1 THEN seqs[i] ELSE h[i - 1] \o seqs[i]
    <3>1. i = 1 \/ (i # 1 /\ i \in 2..n)
      BY <1>1
    <3> QED
      BY <1>8, <1>9, <3>1
  <2> QED
    BY <2>1, <2>2 DEF Joins
<1> DEFINE flatten[i \in 1..Len(seqs)] == IF i = 1 THEN seqs[i] ELSE flatten[i - 1] \o seqs[i]
<1>11. FlattenSeq(seqs) = flatten[n]
  BY <1>1 DEF FlattenSeq
<1>12. Joins(seqs, flatten)
  BY <1>10 DEF Joins
<1> HIDE DEF flatten
<1>13. flatten[n] = h[n]
  <2> DEFINE T == {k \in Nat : k + 1 =< n => flatten[k + 1] = h[k + 1]}
  <2>1. /\ \A i \in 1..n : flatten[i] = IF i = 1 THEN seqs[i] ELSE flatten[i - 1] \o seqs[i]
        /\ \A i \in 1..n : h[i] = IF i = 1 THEN seqs[i] ELSE h[i - 1] \o seqs[i]
    BY <1>10, <1>12 DEF Joins
  <2>2. 0 \in T
    <3>1. 1 \in 1..n /\ 0 + 1 = 1
      BY <1>1
    <3> QED
      BY <2>1, <3>1
  <2>3. ASSUME NEW k \in Nat, k \in T PROVE k + 1 \in T
    <3>1. SUFFICES ASSUME (k + 1) + 1 =< n PROVE flatten[(k + 1) + 1] = h[(k + 1) + 1]
      OBVIOUS
    <3>2. PICK j : j = (k + 1) + 1
      OBVIOUS
    <3>3. j \in 1..n /\ j # 1 /\ j - 1 = k + 1 /\ k + 1 =< n
      BY <1>1, <3>1, <3>2
    <3>4. flatten[j - 1] = h[j - 1]
      BY <2>3, <3>3
    <3>5. flatten[j] = flatten[j - 1] \o seqs[j] /\ h[j] = h[j - 1] \o seqs[j]
      BY ONLY <2>1, <3>3
    <3> QED
      BY ONLY <3>2, <3>4, <3>5
  <2> HIDE DEF T
  <2>4. \A k \in Nat : k \in T
    BY ONLY <2>2, <2>3, NatInd
  <2>5. n - 1 \in T /\ (n - 1) + 1 = n /\ n =< n
    BY <1>1, <2>4
  <2> QED
    BY <2>5 DEF T
<1>14. \A i \in 2..n : h[i] = h[i - 1] \o seqs[i]
  BY <1>9
<1>15. Joined(seqs, n, h)
  <2> HIDE DEF n
  <2> QED
    BY ONLY <1>7, <1>8, <1>14, <1>11, <1>13 DEF Joined
<1> QED
  BY <1>15

\* The payload of a request spells the id of the file and those of the chunks.
LEMMA RequestSpells ==
  ASSUME NEW id \in Nat, NEW tunks \in Seq(Nat)
  PROVE  \E b : /\ Spells(Format(id) \o FlattenSeq([k \in DOMAIN tunks |-> <<SEP>> \o Format(tunks[k])]), b)
                /\ DOMAIN b = 1..(Len(tunks) + 1) /\ Len(b) = Len(tunks) + 1
                /\ b[1] = Format(id) /\ \A k \in 1..Len(tunks) : b[k + 1] = Format(tunks[k])
<1> DEFINE n == Len(tunks)
           seqs == [k \in DOMAIN tunks |-> <<SEP>> \o Format(tunks[k])]
           F == Format(id)
           P(i) == [k \in 1..(i + 1) |-> IF k = 1 THEN F ELSE Format(tunks[k - 1])]
<1>1. /\ n \in Nat /\ DOMAIN tunks = 1..n /\ \A k \in 1..n : tunks[k] \in Nat
      /\ <<SEP>> \in Seq(Text)
  BY LenProperties DEF Text, SEP, NUL, Byte
<1>2. ASSUME NEW j \in Nat
      PROVE  Format(j) \in Seq(Text) /\ Format(j) \in Seq(Byte) /\ \A k \in 1..Len(Format(j)) : Format(j)[k] # SEP
  BY FormatIs, DigitText
<1>3. \A k \in 1..n : <<SEP>> \o Format(tunks[k]) \in Seq(Text)
  BY <1>1, <1>2, ConcatProperties
<1>4. seqs \in Seq(Seq(Text)) /\ Len(seqs) = n /\ \A k \in 1..n : seqs[k] = <<SEP>> \o Format(tunks[k])
  BY <1>1, <1>3
<1>5. Spells(F, <<F>>)
  BY <1>2, SpellsOne
<1>6. ASSUME NEW i \in 0..n PROVE P(i) \in Seq(Seq(Byte)) /\ Len(P(i)) = i + 1 /\ DOMAIN P(i) = 1..(i + 1)
  <2>1. \A k \in 1..(i + 1) : (IF k = 1 THEN F ELSE Format(tunks[k - 1])) \in Seq(Byte)
    <3>1. ASSUME NEW k \in 1..(i + 1), k # 1 PROVE tunks[k - 1] \in Nat
      <4>1. k - 1 \in 1..n
        BY <1>1, <3>1
      <4> QED
        BY <1>1, <4>1
    <3> QED
      BY <1>2, <3>1
  <2> QED
    BY <2>1
<1>7. ASSUME NEW i \in 0..n, i < n PROVE Append(P(i), Format(tunks[i + 1])) = P(i + 1)
  <2> DEFINE a == Append(P(i), Format(tunks[i + 1]))
             c == P(i + 1)
  <2>1. i + 1 \in 0..n /\ i + 1 \in 1..n
    BY <1>1, <1>7
  <2>2. c \in Seq(Seq(Byte)) /\ Len(c) = (i + 1) + 1
    BY <1>6, <2>1
  <2>3. Format(tunks[i + 1]) \in Seq(Byte)
    BY <1>1, <1>2, <2>1
  <2>4. P(i) \in Seq(Seq(Byte)) /\ Len(P(i)) = i + 1
    BY <1>6
  <2>5. /\ a \in Seq(Seq(Byte)) /\ Len(a) = (i + 1) + 1
        /\ \A k \in 1..(i + 1) : a[k] = P(i)[k]
        /\ a[(i + 1) + 1] = Format(tunks[i + 1])
    <3> HIDE DEF P
    <3> QED
      BY <2>3, <2>4, AppendProperties
  <2>6. ASSUME NEW k \in 1..((i + 1) + 1) PROVE a[k] = c[k]
    <3>1. c[k] = IF k = 1 THEN F ELSE Format(tunks[k - 1])
      OBVIOUS
    <3>2. CASE k = (i + 1) + 1
      <4>1. k # 1 /\ k - 1 = i + 1
        BY <3>2
      <4> HIDE DEF a, c
      <4> QED
        BY <2>5, <3>1, <3>2, <4>1
    <3>3. CASE k # (i + 1) + 1
      <4>1. k \in 1..(i + 1)
        BY <3>3
      <4>2. P(i)[k] = IF k = 1 THEN F ELSE Format(tunks[k - 1])
        BY <4>1
      <4> HIDE DEF a, c, P
      <4> QED
        BY <2>5, <3>1, <4>1, <4>2
    <3> QED
      BY <3>2, <3>3
  <2> HIDE DEF a, c, P
  <2>7. a = c
    BY ONLY <2>2, <2>5, <2>6, SeqEqual
  <2> QED
    BY <2>7 DEF a, c
<1>8. P(0) = <<F>>
  OBVIOUS
<1>9. Spells(F \o FlattenSeq(seqs), P(n))
  <2>1. CASE n = 0
    <3>1. FlattenSeq(seqs) = <<>>
      <4>1. seqs = <<>>
        BY <1>4, <2>1, EmptySeq
      <4> QED
        BY <1>4, <2>1, <4>1 DEF FlattenSeq
    <3>2. F \o <<>> = F
      BY <1>2, ConcatEmptySeq
    <3> QED
      BY <1>5, <1>8, <2>1, <3>1, <3>2
  <2>2. CASE n # 0
    <3> HIDE DEF P, seqs
    <3>1. PICK f : Joined(seqs, n, f)
      <4>1. seqs # <<>>
        BY <1>1, <1>4, <2>2, EmptySeq
      <4>2. PICK f : Joined(seqs, Len(seqs), f)
        BY ONLY <1>4, <4>1, JoinsThere
      <4> QED
        BY <1>4, <4>2
    <3>2. /\ FlattenSeq(seqs) = f[n]
          /\ f \in [1..n -> Seq(Text)] /\ f[1] = seqs[1]
          /\ \A i \in 2..n : f[i] = f[i - 1] \o seqs[i]
      BY <3>1 DEF Joined
    <3> DEFINE T == {i \in Nat : i + 1 =< n => Spells(F \o f[i + 1], P(i + 1))}
    \* The next id.
    <3>3. ASSUME NEW h \in Seq(Text), NEW i \in 0..n, i < n, Spells(h, P(i))
          PROVE  Spells(h \o (<<SEP>> \o Format(tunks[i + 1])), P(i + 1))
      <4>1. i + 1 \in 1..n /\ tunks[i + 1] \in Nat
        BY <1>1, <3>3
      <4>2. PICK x \in Seq(Text) : x = Format(tunks[i + 1]) /\ x \in Seq(Byte) /\ \A k \in 1..Len(x) : x[k] # SEP
        BY <1>2, <4>1
      <4>3. Spells(h \o <<SEP>> \o x, Append(P(i), x))
        BY ONLY <3>3, <4>2, SpellsField
      <4>4. (h \o <<SEP>>) \o x = h \o (<<SEP>> \o x)
        BY <1>1, <4>2, TextBytes, BytesAssociative
      <4> QED
        BY <1>7, <3>3, <4>2, <4>3, <4>4
    <3>4. 0 \in T
      <4>1. 0 \in 0..n /\ 0 < n /\ 1 \in 1..n /\ F \in Seq(Text) /\ 0 + 1 = 1
        <5>1. F \in Seq(Text)
          BY <1>2
        <5>2. n \in Nat
          BY <1>1
        <5>3. 0 \in 0..n /\ 0 < n /\ 1 \in 1..n /\ 0 + 1 = 1
          BY ONLY <2>2, <5>2
        <5> QED
          BY ONLY <5>1, <5>3
      <4>2. Spells(F, P(0))
        BY <1>5, <1>8
      <4>3. Spells(F \o (<<SEP>> \o Format(tunks[0 + 1])), P(0 + 1))
        BY ONLY <4>1, <4>2, <3>3
      <4>4. f[0 + 1] = <<SEP>> \o Format(tunks[0 + 1])
        BY <1>4, <3>2, <4>1
      <4>5. Spells(F \o f[0 + 1], P(0 + 1))
        BY ONLY <4>3, <4>4
      <4> QED
        BY <4>5
    <3>5. ASSUME NEW i \in Nat, i \in T PROVE i + 1 \in T
      <4>1. SUFFICES ASSUME (i + 1) + 1 =< n PROVE Spells(F \o f[(i + 1) + 1], P((i + 1) + 1))
        OBVIOUS
      <4>2. PICK j : j = i + 1
        OBVIOUS
      <4>3. /\ j \in 1..n /\ j \in 0..n /\ j < n /\ j + 1 \in 2..n /\ (j + 1) - 1 = j /\ j + 1 \in 1..n
            /\ Spells(F \o f[j], P(j))
        BY <1>1, <3>5, <4>1, <4>2
      <4>4. PICK x \in Seq(Text) : x = f[j]
        BY <3>2, <4>3
      <4>5. F \in Seq(Text) /\ F \o x \in Seq(Text)
        BY <1>2, ConcatProperties
      <4>6. PICK y \in Seq(Text) : y = <<SEP>> \o Format(tunks[j + 1])
        BY <1>3, <4>3
      <4>7. f[j + 1] = x \o y
        BY <1>4, <3>2, <4>3, <4>4, <4>6
      <4>8. Spells((F \o x) \o y, P(j + 1))
        BY <3>3, <4>3, <4>4, <4>5, <4>6
      <4>9. (F \o x) \o y = F \o (x \o y)
        BY <4>5, TextBytes, BytesAssociative
      <4> QED
        BY <4>2, <4>7, <4>8, <4>9
    <3>6. n - 1 \in T
      <4> HIDE DEF T
      <4>1. n - 1 \in Nat
        BY <1>1, <2>2
      <4> QED
        BY <3>4, <3>5, <4>1, NatInd
    <3>7. (n - 1) + 1 = n /\ n =< n
      BY <1>1
    <3> QED
      BY <3>2, <3>6, <3>7
  <2> QED
    BY <2>1, <2>2
<1>10. P(n)[1] = F /\ \A k \in 1..n : P(n)[k + 1] = Format(tunks[k])
  <2>1. 1 \in 1..(n + 1) /\ \A k \in 1..n : k + 1 \in 1..(n + 1) /\ k + 1 # 1 /\ (k + 1) - 1 = k
    BY <1>1
  <2> QED
    BY <2>1
<1>11. n \in 0..n
  BY <1>1
<1> QED
  BY <1>6, <1>9, <1>10, <1>11

\* Two elements of a sequence.
LEMMA PairAt ==
  ASSUME NEW S, NEW s \in Seq(S), NEW i \in Nat, i > 0, i + 1 =< Len(s)
  PROVE  SubSeq(s, i, i + 1) = <<s[i], s[i + 1]>>
<1>1. PICK t : t = SubSeq(s, i, i + 1)
  OBVIOUS
<1>2. PICK u : u = <<s[i], s[i + 1]>>
  OBVIOUS
<1>3. Len(s) \in Nat /\ \A k \in i..(i + 1) : s[k] \in S
  BY LenProperties
<1>4. i \in i..(i + 1) /\ i + 1 \in i..(i + 1)
  OBVIOUS
<1>5. /\ i \in Int /\ i + 1 \in Int /\ i =< i + 1 /\ (i + 1) - i + 1 = 2
      /\ i + 1 - 1 = i /\ i + 2 - 1 = i + 1
  OBVIOUS
<1>6. /\ t \in Seq(S) /\ Len(t) = (i + 1) - i + 1
      /\ \A k \in 1..((i + 1) - i + 1) : t[k] = s[i + k - 1]
  BY ONLY <1>1, <1>3, <1>5, SubSeqProperties
<1>7. Len(t) = 2 /\ t[1] = s[i] /\ t[2] = s[i + 1]
  <2>1. 1 \in 1..2 /\ 2 \in 1..2
    OBVIOUS
  <2>2. t[1] = s[i + 1 - 1] /\ t[2] = s[i + 2 - 1] /\ Len(t) = 2
    BY ONLY <1>5, <1>6, <2>1
  <2> QED
    BY ONLY <1>5, <2>2
<1>8. u \in Seq(S) /\ Len(u) = 2 /\ u[1] = s[i] /\ u[2] = s[i + 1]
  BY <1>2, <1>3, <1>4
<1>9. \A k \in 1..Len(t) : t[k] = u[k]
  BY ONLY <1>7, <1>8
<1>10. t = u
  BY ONLY <1>6, <1>7, <1>8, <1>9, SeqEqual
<1> QED
  BY <1>1, <1>2, <1>10

\* A payload that fits is framed, and the reader finds it in the frame.
Framed(m) ==
  /\ FrameOf(m) # <<>> /\ Checks(FrameOf(m)) /\ FrameOf(m)[3] = m.cmd
  /\ PayloadIn(FrameOf(m)) \in Seq(Byte) /\ Len(PayloadIn(FrameOf(m))) = PayloadLen
  /\ \A k \in 1..PayloadLen :
       PayloadIn(FrameOf(m))[k] = IF k =< Len(Payload(m)) THEN Payload(m)[k] ELSE NUL

LEMMA FrameThere ==
  ASSUME NEW m, m.cmd \in FILEINFO..RETRANS, Payload(m) \in Seq(Byte), Len(Payload(m)) =< PayloadLen
  PROVE  FrameOf(m) # <<>>
<1> DEFINE p == Payload(m)
           fill == [k \in 1..(PayloadLen - Len(p)) |-> NUL]
           c == START \o <<m.cmd>> \o p \o fill
<1>1. /\ START \in Seq(Byte) /\ END \in Seq(Byte) /\ Len(END) = 2 /\ <<m.cmd>> \in Seq(Byte)
      /\ p \in Seq(Byte) /\ Len(p) \in Nat /\ PayloadLen \in Nat
  BY LenProperties, Lengths DEF START, END, Byte, FILEINFO, RETRANS
<1>2. fill \in Seq(Byte)
  <2>1. \A q \in 1..(PayloadLen - Len(p)) : NUL \in Byte
    BY DEF NUL, Byte
  <2>2. PayloadLen - Len(p) \in Nat
    BY <1>1
  <2> HIDE DEF p
  <2> QED
    BY ONLY <2>1, <2>2, IsASeq
<1>3. FrameOf(m) = c \o END
  <2>1. ~(Len(Payload(m)) > PayloadLen)
    BY <1>1
  <2> QED
    BY ONLY <2>1, Zenon DEF FrameOf
<1> HIDE DEF fill, p
<1>4. START \o <<m.cmd>> \in Seq(Byte)
  BY <1>1, ConcatProperties
<1>5. START \o <<m.cmd>> \o p \in Seq(Byte)
  BY <1>1, <1>4, ConcatProperties
<1>6. c \in Seq(Byte)
  BY <1>2, <1>5, ConcatProperties
<1> HIDE DEF c
<1>7. Len(c \o END) = Len(c) + 2 /\ Len(c) \in Nat
  <2>1. Len(c \o END) = Len(c) + Len(END)
    BY ONLY <1>1, <1>6, ConcatProperties
  <2>2. Len(c) \in Nat
    BY ONLY <1>6, LenProperties
  <2> QED
    BY ONLY <1>1, <2>1, <2>2
<1>8. c \o END # <<>>
  BY ONLY <1>7, EmptySeq
<1> QED
  BY <1>3, <1>8

LEMMA FrameRead ==
  ASSUME NEW m, m.cmd \in FILEINFO..RETRANS, Payload(m) \in Seq(Byte), Len(Payload(m)) =< PayloadLen
  PROVE  Framed(m)
<1> DEFINE p == Payload(m)
<1>1. PICK f : f = FrameOf(m)
  OBVIOUS
<1>2. /\ f # <<>> /\ IsFrame(f) /\ f[3] = m.cmd
      /\ \A k \in 1..PayloadLen : f[3 + k] = IF k =< Len(p) THEN p[k] ELSE NUL
  BY <1>1, FrameThere, FrameShape
<1>3. /\ FrameLen \in Nat /\ FrameLen > 10 /\ PayloadLen = FrameLen - 5 /\ Len(p) \in Nat
      /\ f \in Seq(Byte) /\ Len(f) = FrameLen
      /\ \A q \in 1..FrameLen : f[q] \in Byte
  BY <1>2, Lengths, LenProperties DEF IsFrame
<1>4. SubSeq(f, 1, 2) = START
  <2>1. SubSeq(f, 1, 1 + 1) = <<f[1], f[1 + 1]>>
    <3>1. 1 \in Nat /\ 1 > 0 /\ 1 + 1 =< Len(f)
      BY <1>3
    <3> QED
      BY ONLY <1>3, <3>1, PairAt
  <2> QED
    BY <1>2, <2>1 DEF START, IsFrame
<1>5. SubSeq(f, FrameLen - 1, FrameLen) = END
  <2>1. PICK j \in Nat : j = FrameLen - 1
    BY <1>3
  <2>2. SubSeq(f, j, j + 1) = <<f[j], f[j + 1]>>
    <3>1. j > 0 /\ j + 1 =< Len(f)
      BY <1>3, <2>1
    <3> QED
      BY ONLY <1>3, <2>1, <3>1, PairAt
  <2>3. j + 1 = FrameLen
    BY <1>3, <2>1
  <2> QED
    BY <1>2, <2>1, <2>2, <2>3 DEF END, IsFrame
<1>6. Checks(f)
  BY <1>2, <1>4, <1>5 DEF Checks
<1>7. PICK t : t = SubSeq(f, 4, 3 + PayloadLen)
  OBVIOUS
<1>8. /\ t \in Seq(Byte) /\ Len(t) = PayloadLen
      /\ \A k \in 1..PayloadLen : t[k] = IF k =< Len(p) THEN p[k] ELSE NUL
  <2>1. \A k \in 4..(3 + PayloadLen) : f[k] \in Byte
    BY <1>3
  <2>2. 4 \in Int /\ 3 + PayloadLen \in Int /\ 4 =< 3 + PayloadLen /\ (3 + PayloadLen) - 4 + 1 = PayloadLen
    BY <1>3
  <2>3. /\ t \in Seq(Byte) /\ Len(t) = (3 + PayloadLen) - 4 + 1
        /\ \A k \in 1..((3 + PayloadLen) - 4 + 1) : t[k] = f[4 + k - 1]
    BY ONLY <1>7, <2>1, <2>2, SubSeqProperties
  <2>4. \A k \in 1..PayloadLen : 4 + k - 1 = 3 + k
    BY <1>3
  <2> HIDE DEF p
  <2> QED
    BY ONLY <1>2, <2>2, <2>3, <2>4
<1> QED
  BY <1>1, <1>2, <1>6, <1>7, <1>8 DEF Framed, PayloadIn

\* What the parser of command cmd makes of the parts arr.
Parsed(cmd, arr) ==
  CASE cmd = FILEINFO -> ParseFileInfo(arr)
    [] cmd = TUNKDATA -> ParseTunkData(arr)
    [] cmd = RETRANS  -> ParseRetrans(arr)
    [] OTHER          -> ParseReply(cmd, arr)

\* The parser gets what the payload spells up to its first zero byte.
LEMMA DecodeOf ==
  ASSUME NEW m, m.cmd \in FILEINFO..RETRANS, Payload(m) \in Seq(Byte), Len(Payload(m)) =< PayloadLen,
         NEW c, Cuts(Payload(m), c), NEW b, Spells(c, b)
  PROVE  Decode(FrameOf(m)) = Parsed(m.cmd, b)
<1>1. Framed(m)
  BY FrameRead
<1>2. PICK f : f = FrameOf(m)
  OBVIOUS
<1>3. PICK t : t = PayloadIn(f)
  OBVIOUS
<1>4. PICK p : p = Payload(m)
  OBVIOUS
<1>5. /\ Checks(f) /\ f[3] = m.cmd /\ t \in Seq(Byte) /\ Len(t) = PayloadLen
      /\ \A k \in 1..PayloadLen : t[k] = IF k =< Len(p) THEN p[k] ELSE NUL
  BY <1>1, <1>2, <1>3, <1>4 DEF Framed
<1>6. p \in Seq(Byte) /\ Len(p) =< Len(t) /\ Cuts(p, c)
      /\ \A k \in 1..Len(t) : t[k] = IF k =< Len(p) THEN p[k] ELSE NUL
  BY <1>4, <1>5
<1>7. Separate(t) = b
  BY ONLY <1>5, <1>6, Spells(c, b), Separated
<1>8. Decode(f) = Parsed(m.cmd, Separate(t))
  BY <1>3, <1>5 DEF Decode, Parsed
<1> QED
  BY <1>2, <1>7, <1>8

\* One element more.
LEMMA Added ==
  ASSUME NEW S, NEW s \in Seq(S), NEW n \in Nat, Len(s) = n, NEW x \in S, NEW t, t = Append(s, x)
  PROVE  /\ t \in Seq(S) /\ Len(t) = n + 1
         /\ \A k \in 1..n : t[k] = s[k]
         /\ t[n + 1] = x
<1>1. t \in Seq(S)
  BY AppendProperties
<1>2. Len(t) = n + 1
  BY AppendProperties
<1>3. \A k \in 1..n : t[k] = s[k]
  BY AppendProperties
<1>4. t[n + 1] = x
  BY AppendProperties
<1> QED
  BY ONLY <1>1, <1>2, <1>3, <1>4

LEMMA Pair ==
  ASSUME NEW S, NEW a \in S, NEW b \in S
  PROVE  /\ Append(<<a>>, b) \in Seq(S) /\ Len(Append(<<a>>, b)) = 2
         /\ Append(<<a>>, b)[1] = a /\ Append(<<a>>, b)[2] = b
<1>1. PICK s : s = <<a>>
  OBVIOUS
<1>2. s \in Seq(S) /\ Len(s) = 1 /\ s[1] = a
  BY <1>1
<1>3. PICK t : t = Append(s, b)
  OBVIOUS
<1>4. /\ t \in Seq(S) /\ Len(t) = 1 + 1
      /\ \A k \in 1..1 : t[k] = s[k]
      /\ t[1 + 1] = b
  BY ONLY <1>2, <1>3, b \in S, 1 \in Nat, Added
<1>5. t \in Seq(S) /\ Len(t) = 2 /\ t[1] = a /\ t[2] = b
  BY ONLY <1>2, <1>4
<1> QED
  BY ONLY <1>1, <1>3, <1>5

\* A text spells its parts and is read whole.
LEMMA SpellsCut ==
  ASSUME NEW p, NEW b, Spells(p, b)
  PROVE  p \in Seq(Byte) /\ Cuts(p, p) /\ b \in Parts /\ Len(b) \in Nat
<1>1. p \in Seq(Text) /\ ReadsTo(p, << <<>> >>, b)
  BY DEF Spells
<1>2. p \in Seq(Byte) /\ Cuts(p, p)
  BY <1>1, TextBytes
<1>3. << <<>> >> \in Parts
  <2>1. <<>> \in Seq(Byte)
    BY EmptySeq
  <2> QED
    BY <2>1 DEF Parts
<1>4. b \in Parts
  BY <1>1, <1>2, <1>3, ReadsType
<1> QED
  BY <1>2, <1>4, PartsLength

LEMMA Separators ==
  ASSUME NEW x \in Seq(Text)
  PROVE  SEP \in ToSet(x) <=> \E k \in 1..Len(x) : x[k] = SEP
<1>1. DOMAIN x = 1..Len(x)
  OBVIOUS
<1> QED
  BY <1>1 DEF ToSet

LEMMA FormatText ==
  ASSUME NEW id \in Nat
  PROVE  /\ Format(id) \in Seq(Text) /\ Format(id) \in Seq(Byte) /\ \A k \in 1..Len(Format(id)) : Format(id)[k] # SEP
         /\ Digits[id] \in Seq(Text) /\ Digits[id] \in Seq(Byte) /\ \A k \in 1..Len(Digits[id]) : Digits[id][k] # SEP
BY FormatIs, NumberOfDigits, DigitText

\* _parse_fileinfo_from_payload
LEMMA InfoRead ==
  ASSUME NEW id \in Nat, NEW name \in Seq(Text), NEW size \in Nat, NEW n \in Nat
  PROVE  \E b : /\ Spells(Format(id) \o <<SEP>> \o name \o <<SEP>> \o Digits[size] \o <<SEP>> \o Digits[n], b)
                /\ ParseFileInfo(b) =
                     IF SEP \in ToSet(name) THEN Refused
                     ELSE [cmd |-> FILEINFO, id |-> id, name |-> name, size |-> size, tunk_size |-> n]
<1>1. PICK F \in Seq(Text) :
        /\ F = Format(id) /\ \A k \in 1..Len(F) : F[k] # SEP
        /\ HasNumber(F) /\ Number(F) = id
  BY FormatText, NumberOfFormat
<1>2. PICK D \in Seq(Text) :
        /\ D = Digits[size] /\ \A k \in 1..Len(D) : D[k] # SEP
        /\ HasNumber(D) /\ Number(D) = size
  BY FormatText, NumberOfDigits
<1>3. PICK E \in Seq(Text) :
        /\ E = Digits[n] /\ \A k \in 1..Len(E) : E[k] # SEP
        /\ HasNumber(E) /\ Number(E) = n
  BY FormatText, NumberOfDigits
<1>4. Spells(F, <<F>>)
  BY ONLY <1>1, SpellsOne
<1>5. ASSUME NEW h, NEW b, Spells(h, b)
      PROVE  Spells(h \o <<SEP>> \o D \o <<SEP>> \o E, Append(Append(b, D), E))
  <2>1. Spells(h \o <<SEP>> \o D, Append(b, D))
    BY ONLY <1>2, <1>5, SpellsField
  <2> QED
    BY ONLY <1>3, <2>1, SpellsField
<1>6. CASE ~(SEP \in ToSet(name))
  <2>1. \A k \in 1..Len(name) : name[k] # SEP
    BY <1>6, Separators
  <2>2. Spells(F \o <<SEP>> \o name, Append(<<F>>, name))
    BY ONLY <1>4, <2>1, name \in Seq(Text), SpellsField
  <2>3. Spells(F \o <<SEP>> \o name \o <<SEP>> \o D \o <<SEP>> \o E, Append(Append(Append(<<F>>, name), D), E))
    BY <1>5, <2>2
  <2>4. PICK U : F \in U /\ name \in U /\ D \in U /\ E \in U
    OBVIOUS
  <2>5. PICK a : a = Append(<<F>>, name)
    OBVIOUS
  <2>6. PICK c : c = Append(a, D)
    OBVIOUS
  <2>7. PICK b : b = Append(c, E)
    OBVIOUS
  <2>8. a \in Seq(U) /\ Len(a) = 2 /\ a[1] = F /\ a[2] = name
    BY ONLY <2>4, <2>5, Pair
  <2>9. c \in Seq(U) /\ Len(c) = 3 /\ c[1] = F /\ c[2] = name /\ c[3] = D
    <3>1. PICK n2 \in Nat : n2 = 2
      OBVIOUS
    <3>2. a \in Seq(U) /\ Len(a) = n2
      BY ONLY <2>8, <3>1
    <3>3. /\ c \in Seq(U) /\ Len(c) = n2 + 1
          /\ \A k \in 1..n2 : c[k] = a[k]
          /\ c[n2 + 1] = D
      BY ONLY <2>4, <2>6, <3>2, n2 \in Nat, Added
    <3>4. /\ c \in Seq(U) /\ Len(c) = 2 + 1
          /\ \A k \in 1..2 : c[k] = a[k]
          /\ c[2 + 1] = D
      BY ONLY <3>1, <3>3
    <3> QED
      BY ONLY <2>8, <3>4
  <2>10. Len(b) = 4 /\ b[1] = F /\ b[2] = name /\ b[3] = D /\ b[4] = E
    <3>1. PICK n3 \in Nat : n3 = 3
      OBVIOUS
    <3>2. c \in Seq(U) /\ Len(c) = n3
      BY ONLY <2>9, <3>1
    <3>3. /\ b \in Seq(U) /\ Len(b) = n3 + 1
          /\ \A k \in 1..n3 : b[k] = c[k]
          /\ b[n3 + 1] = E
      BY ONLY <2>4, <2>7, <3>2, n3 \in Nat, Added
    <3>4. /\ Len(b) = 3 + 1
          /\ \A k \in 1..3 : b[k] = c[k]
          /\ b[3 + 1] = E
      BY ONLY <3>1, <3>3
    <3> QED
      BY ONLY <2>9, <3>4
  <2>11. ParseFileInfo(b) = [cmd |-> FILEINFO, id |-> id, name |-> name, size |-> size, tunk_size |-> n]
    BY ONLY <1>1, <1>2, <1>3, <2>10 DEF ParseFileInfo
  <2> QED
    BY <1>1, <1>2, <1>3, <1>6, <2>3, <2>5, <2>6, <2>7, <2>11
<1>7. CASE SEP \in ToSet(name)
  <2>1. \E k \in 1..Len(name) : name[k] = SEP
    BY <1>7, Separators
  <2>2. PICK d : Spells(F \o <<SEP>> \o name, d) /\ Len(<<F>>) \in Nat /\ Len(d) \in Nat /\ Len(d) >= Len(<<F>>) + 2
    BY ONLY <1>4, <2>1, name \in Seq(Text), SpellsMore
  <2>3. Spells(F \o <<SEP>> \o name \o <<SEP>> \o D \o <<SEP>> \o E, Append(Append(d, D), E))
    BY <1>5, <2>2
  <2>4. Len(Append(Append(d, D), E)) = Len(d) + 2 /\ Len(<<F>>) = 1
    <3>1. D \in Seq(Byte) /\ E \in Seq(Byte)
      BY TextBytes
    <3>2. d \in Parts
      BY ONLY <2>2, SpellsCut
    <3>3. Append(d, D) \in Parts /\ Len(Append(d, D)) = Len(d) + 1
      BY <3>1, <3>2, PartAdded
    <3>4. Len(Append(Append(d, D), E)) = Len(Append(d, D)) + 1
      BY <3>1, <3>3, PartAdded
    <3> QED
      BY <2>2, <3>3, <3>4
  <2>5. ParseFileInfo(Append(Append(d, D), E)) = Refused
    BY <2>2, <2>4 DEF ParseFileInfo
  <2> QED
    BY <1>1, <1>2, <1>3, <1>7, <2>3, <2>5
<1> QED
  BY <1>6, <1>7

\* _parse_fileid_from_payload, _parse_ack_from_payload
LEMMA ReplyRead ==
  ASSUME NEW id \in Nat, id =< 99, NEW cmd
  PROVE  \E b : Spells(Format(id), b) /\ ParseReply(cmd, b) = [cmd |-> cmd, id |-> id]
<1>1. PICK F \in Seq(Text) :
        /\ F = Format(id) /\ \A k \in 1..Len(F) : F[k] # SEP
        /\ HasNumber(F) /\ Number(F) = id /\ Len(F) = 2
  BY FormatText, NumberOfFormat, FormatIs
<1>2. Spells(F, <<F>>)
  BY ONLY <1>1, SpellsOne
<1>3. ParseReply(cmd, <<F>>) = [cmd |-> cmd, id |-> id]
  BY <1>1 DEF ParseReply, IsId
<1> QED
  BY <1>1, <1>2, <1>3

\* Two texts one after the other are found at their places.
LEMMA Halves ==
  ASSUME NEW F \in Seq(Text), NEW G \in Seq(Text), Len(F) = 2
  PROVE  /\ Len(F \o G) = 2 + Len(G) /\ SubSeq(F \o G, 1, 2) = F
         /\ Len(G) = 2 => SubSeq(F \o G, 3, 4) = G
<1>1. PICK h : h = F \o G
  OBVIOUS
<1>2. Len(F) \in Nat /\ Len(G) \in Nat
  BY LenProperties
<1>3. /\ h \in Seq(Text) /\ Len(h) = 2 + Len(G)
      /\ \A k \in 1..(2 + Len(G)) : h[k] = IF k =< 2 THEN F[k] ELSE G[k - 2]
  <2>1. /\ h \in Seq(Text) /\ Len(h) = Len(F) + Len(G)
        /\ \A k \in 1..(Len(F) + Len(G)) : h[k] = IF k =< Len(F) THEN F[k] ELSE G[k - Len(F)]
    BY ONLY <1>1, F \in Seq(Text), G \in Seq(Text), ConcatProperties
  <2> QED
    BY <2>1
<1>4. F = <<F[1], F[2]>>
  OBVIOUS
<1>5. SubSeq(h, 1, 2) = <<h[1], h[2]>>
  <2>1. 1 \in Nat /\ 1 > 0 /\ 1 + 1 =< Len(h) /\ 1 + 1 = 2
    BY <1>2, <1>3
  <2>2. SubSeq(h, 1, 1 + 1) = <<h[1], h[1 + 1]>>
    BY ONLY <1>3, <2>1, PairAt
  <2> QED
    BY ONLY <2>1, <2>2
<1>6. SubSeq(h, 1, 2) = F
  <2>1. 1 \in 1..(2 + Len(G)) /\ 2 \in 1..(2 + Len(G))
    BY <1>2
  <2>2. h[1] = F[1] /\ h[2] = F[2]
    BY <1>3, <2>1
  <2> QED
    BY ONLY <1>4, <1>5, <2>2
<1>7. ASSUME Len(G) = 2 PROVE SubSeq(h, 3, 4) = G
  <2>1. 3 \in 1..(2 + Len(G)) /\ 4 \in 1..(2 + Len(G)) /\ ~(3 =< 2) /\ ~(4 =< 2) /\ 3 - 2 = 1 /\ 4 - 2 = 2
    BY <1>7
  <2>2. h[3] = G[1] /\ h[4] = G[2]
    BY ONLY <1>3, <2>1
  <2>3. SubSeq(h, 3, 4) = <<h[3], h[4]>>
    <3>1. 3 \in Nat /\ 3 > 0 /\ 3 + 1 =< Len(h) /\ 3 + 1 = 4
      BY <1>3, <1>7
    <3>2. SubSeq(h, 3, 3 + 1) = <<h[3], h[3 + 1]>>
      BY ONLY <1>3, <3>1, PairAt
    <3> QED
      BY ONLY <3>1, <3>2
  <2>4. G = <<G[1], G[2]>>
    BY <1>7
  <2> QED
    BY ONLY <2>2, <2>3, <2>4
<1> QED
  BY <1>1, <1>3, <1>6, <1>7

\* _parse_tunkdata_from_payload
ChunkReads(p, id, tunk, data) ==
  \E c, b : /\ Cuts(p, c) /\ Spells(c, b)
            /\ ParseTunkData(b) =
                 IF tunk > 99 \/ SEP \in ToSet(UpToNul(data)) THEN Refused
                 ELSE [cmd |-> TUNKDATA, id |-> id, tunk |-> tunk, data |-> UpToNul(data)]

LEMMA ChunkRead ==
  ASSUME NEW id \in Nat, id =< 99, NEW tunk \in Nat, NEW data \in Seq(Byte),
         NEW p, p = Format(id) \o Format(tunk) \o <<SEP>> \o data
  PROVE  p \in Seq(Byte) /\ ChunkReads(p, id, tunk, data)
<1>1. PICK F \in Seq(Text) :
        /\ F = Format(id) /\ \A k \in 1..Len(F) : F[k] # SEP
        /\ HasNumber(F) /\ Number(F) = id /\ Len(F) = 2
  BY FormatText, NumberOfFormat, FormatIs
<1>2. PICK G \in Seq(Text) :
        /\ G = Format(tunk) /\ \A k \in 1..Len(G) : G[k] # SEP
        /\ HasNumber(G) /\ Number(G) = tunk
        /\ Len(G) \in Nat /\ (tunk =< 99 => Len(G) = 2) /\ (tunk > 99 => Len(G) > 2)
  BY FormatText, NumberOfFormat, FormatIs
<1>3. PICK x : x = UpToNul(data) /\ Cuts(data, x)
  BY CutIs
<1>4. x \in Seq(Text)
  BY <1>3, CutText
<1>5. PICK h \in Seq(Text) : h = F \o G /\ \A k \in 1..Len(h) : h[k] # SEP
  <2>1. /\ F \o G \in Seq(Text) /\ Len(F \o G) = Len(F) + Len(G)
        /\ \A k \in 1..(Len(F) + Len(G)) : (F \o G)[k] = IF k =< Len(F) THEN F[k] ELSE G[k - Len(F)]
    BY ConcatProperties
  <2>2. ASSUME NEW k \in 1..Len(F \o G) PROVE (F \o G)[k] # SEP
    <3>1. k \in 1..(Len(F) + Len(G)) /\ k \in Nat
      BY <2>1
    <3>2. CASE k =< Len(F)
      <4>1. k \in 1..Len(F)
        BY <1>1, <3>1, <3>2
      <4> QED
        BY ONLY <1>1, <2>1, <3>1, <3>2, <4>1
    <3>3. CASE ~(k =< Len(F))
      <4>1. k - Len(F) \in 1..Len(G)
        BY <1>1, <1>2, <3>1, <3>3
      <4> QED
        BY ONLY <1>2, <2>1, <3>1, <3>3, <4>1
    <3> QED
      BY <3>2, <3>3
  <2> QED
    BY <2>1, <2>2
<1>6. PICK g \in Seq(Text) : g = h \o <<SEP>> /\ g \in Seq(Byte)
  <2>1. <<SEP>> \in Seq(Text)
    BY DEF Text, SEP, NUL, Byte
  <2>2. h \o <<SEP>> \in Seq(Text)
    BY <2>1, ConcatProperties
  <2> QED
    BY <2>2, TextBytes
<1>7. Cuts(g \o data, g \o x)
  BY ONLY <1>3, <1>6, data \in Seq(Byte), CutConcat
<1>8. g \o data \in Seq(Byte)
  BY <1>6, ConcatProperties
<1>9. p = g \o data
  BY <1>1, <1>2, <1>5, <1>6
<1>10. Spells(h, <<h>>)
  BY ONLY <1>5, SpellsOne
<1>11. CASE ~(SEP \in ToSet(x))
  <2>1. \A k \in 1..Len(x) : x[k] # SEP
    BY <1>4, <1>11, Separators
  <2>2. Spells(h \o <<SEP>> \o x, Append(<<h>>, x))
    BY ONLY <1>4, <1>10, <2>1, SpellsField
  <2>3. PICK b : b = Append(<<h>>, x)
    OBVIOUS
  <2>4. Append(<<h>>, x) = b /\ Len(b) = 2 /\ b[1] = h /\ b[2] = x
    BY ONLY <2>3, <1>4, h \in Seq(Text), Pair
  <2>5. Len(h) = 2 + Len(G) /\ SubSeq(h, 1, 2) = F /\ (Len(G) = 2 => SubSeq(h, 3, 4) = G)
    BY ONLY <1>1, <1>2, <1>5, Halves
  <2>6. CASE tunk > 99
    <3>1. Len(b[1]) # 4
      BY ONLY <1>2, <2>4, <2>5, <2>6
    <3>2. ParseTunkData(b) = Refused
      BY ONLY <3>1 DEF ParseTunkData
    <3> QED
      BY <1>9, <1>3, <1>6, <1>7, <1>8, <2>2, <2>4, <2>6, <3>2 DEF ChunkReads
  <2>7. CASE ~(tunk > 99)
    <3>1. Len(b[1]) = 4 /\ SubSeq(b[1], 1, 2) = F /\ SubSeq(b[1], 3, 4) = G
      <4>1. Len(G) = 2
        BY ONLY <1>2, <2>7, tunk \in Nat
      <4> QED
        BY ONLY <2>4, <2>5, <4>1
    <3>2. ParseTunkData(b) = [cmd |-> TUNKDATA, id |-> id, tunk |-> tunk, data |-> x]
      BY <1>1, <1>2, <2>4, <3>1 DEF ParseTunkData
    <3> QED
      BY <1>9, <1>3, <1>6, <1>7, <1>8, <1>11, <2>2, <2>4, <2>7, <3>2 DEF ChunkReads
  <2> QED
    BY <2>6, <2>7
<1>12. CASE SEP \in ToSet(x)
  <2>1. \E k \in 1..Len(x) : x[k] = SEP
    BY <1>4, <1>12, Separators
  <2>2. PICK d : Spells(h \o <<SEP>> \o x, d) /\ Len(<<h>>) \in Nat /\ Len(d) \in Nat /\ Len(d) >= Len(<<h>>) + 2
    BY ONLY <1>4, <1>10, <2>1, SpellsMore
  <2>3. Len(<<h>>) = 1
    OBVIOUS
  <2>4. Len(d) # 2
    <3>1. PICK n \in Nat : n = Len(d)
      BY <2>2
    <3>2. n >= 1 + 2
      BY <2>2, <2>3, <3>1
    <3>3. n # 2
      BY <3>2
    <3> QED
      BY <3>1, <3>3
  <2>5. ParseTunkData(d) = Refused
    BY ONLY <2>4 DEF ParseTunkData
  <2> QED
    BY <1>9, <1>3, <1>6, <1>7, <1>8, <1>12, <2>2, <2>5 DEF ChunkReads
<1> QED
  BY <1>11, <1>12

\* _parse_retrans_from_payload
LEMMA RequestRead ==
  ASSUME NEW id \in Nat, id =< 99, NEW tunks \in Seq(Nat)
  PROVE  \E b : /\ Spells(Format(id) \o FlattenSeq([k \in DOMAIN tunks |-> <<SEP>> \o Format(tunks[k])]), b)
                /\ ParseRetrans(b) =
                     IF \E k \in DOMAIN tunks : tunks[k] > 99 THEN Refused
                     ELSE [cmd |-> RETRANS, id |-> id, tunks |-> tunks]
<1>1. PICK b : /\ Spells(Format(id) \o FlattenSeq([k \in DOMAIN tunks |-> <<SEP>> \o Format(tunks[k])]), b)
               /\ DOMAIN b = 1..(Len(tunks) + 1) /\ Len(b) = Len(tunks) + 1
               /\ b[1] = Format(id) /\ \A k \in 1..Len(tunks) : b[k + 1] = Format(tunks[k])
  BY ONLY id \in Nat, tunks \in Seq(Nat), RequestSpells
<1>2. PICK n \in Nat : n = Len(tunks) /\ DOMAIN tunks = 1..n /\ \A k \in 1..n : tunks[k] \in Nat
  BY LenProperties
<1>3. ASSUME NEW j \in Nat
      PROVE  (IsId(Format(j)) <=> j =< 99) /\ Number(Format(j)) = j
  <2>1. HasNumber(Format(j)) /\ Number(Format(j)) = j
    BY NumberOfFormat
  <2>2. Len(Format(j)) \in Nat /\ (j =< 99 => Len(Format(j)) = 2) /\ (j > 99 => Len(Format(j)) > 2)
    BY FormatIs
  <2>3. Len(Format(j)) = 2 <=> j =< 99
    <3>1. PICK k \in Nat : k = Len(Format(j))
      BY <2>2
    <3>2. (j =< 99 => k = 2) /\ (j > 99 => k > 2)
      BY <2>2, <3>1
    <3>3. ~(j =< 99) => j > 99
      OBVIOUS
    <3>4. k > 2 => k # 2
      BY ONLY k \in Nat
    <3>5. k = 2 <=> j =< 99
      BY ONLY <3>2, <3>3, <3>4
    <3> QED
      BY <3>1, <3>5
  <2> QED
    BY ONLY <2>1, <2>3 DEF IsId
<1>4. \A i \in 1..(n + 1) : i = 1 \/ (i - 1 \in 1..n /\ (i - 1) + 1 = i)
  BY <1>2
<1>5. ParseRetrans(b) =
        IF \A i \in 1..(n + 1) : IsId(b[i])
        THEN [cmd |-> RETRANS, id |-> Number(b[1]), tunks |-> [k \in 1..n |-> Number(b[k + 1])]]
        ELSE Refused
  <2>1. Len(b) - 1 = n /\ DOMAIN b = 1..(n + 1)
    BY <1>1, <1>2
  <2> QED
    BY <2>1 DEF ParseRetrans
<1>6. CASE \E k \in DOMAIN tunks : tunks[k] > 99
  <2>1. PICK k \in 1..n : tunks[k] > 99
    BY <1>2, <1>6
  <2>2. k + 1 \in 1..(n + 1) /\ b[k + 1] = Format(tunks[k]) /\ ~(tunks[k] =< 99)
    BY <1>1, <1>2, <2>1
  <2>3. ~IsId(b[k + 1])
    BY <1>2, <1>3, <2>2
  <2>4. ParseRetrans(b) = Refused
    BY <1>5, <2>2, <2>3
  <2> QED
    BY <1>1, <1>6, <2>4
<1>7. CASE ~(\E k \in DOMAIN tunks : tunks[k] > 99)
  <2>1. \A k \in 1..n : tunks[k] \in Nat /\ tunks[k] =< 99
    BY <1>2, <1>7
  <2>2. \A i \in 1..(n + 1) : IsId(b[i])
    <3> TAKE i \in 1..(n + 1)
    <3>1. CASE i = 1
      BY <1>1, <1>3, <3>1
    <3>2. CASE i - 1 \in 1..n /\ (i - 1) + 1 = i
      <4>1. b[i] = Format(tunks[i - 1]) /\ tunks[i - 1] \in Nat /\ tunks[i - 1] =< 99
        BY <1>1, <1>2, <2>1, <3>2
      <4> QED
        BY <1>3, <4>1
    <3> QED
      BY <1>4, <3>1, <3>2
  <2>3. [k \in 1..n |-> Number(b[k + 1])] = tunks
    <3>1. \A k \in 1..n : Number(b[k + 1]) = tunks[k]
      BY <1>1, <1>2, <1>3
    <3>2. tunks = [k \in 1..n |-> tunks[k]]
      BY <1>2
    <3> QED
      BY <3>1, <3>2
  <2>4. Number(b[1]) = id
    BY <1>1, <1>3
  <2> QED
    BY <1>1, <1>5, <1>7, <2>2, <2>3, <2>4
<1> QED
  BY <1>6, <1>7

\* What a message of each command is, and its payload.
LEMMA Commands ==
  /\ FILEINFO = 1 /\ FILEID = 2 /\ TUNKDATA = 3 /\ ACK = 4 /\ RETRANS = 5
  /\ \A m \in Messages : m.cmd \in FILEINFO..RETRANS /\ m.id \in Nat
<1>1. \A m \in Messages : m.id \in Nat /\ m.cmd \in {FILEINFO, FILEID, ACK, TUNKDATA, RETRANS}
  BY DEF Messages
<1> QED
  BY <1>1 DEF FILEINFO, FILEID, TUNKDATA, ACK, RETRANS

LEMMA InfoFields ==
  ASSUME NEW m \in Messages, m.cmd = FILEINFO
  PROVE  /\ m.name \in Seq(Byte) /\ m.size \in Nat /\ m.tunk_size \in Nat
         /\ m = [cmd |-> FILEINFO, id |-> m.id, name |-> m.name, size |-> m.size, tunk_size |-> m.tunk_size]
         /\ Payload(m) =
              Format(m.id) \o <<SEP>> \o m.name \o <<SEP>> \o Digits[m.size] \o <<SEP>> \o Digits[m.tunk_size]
<1>1. m \in [cmd : {FILEINFO}, id : Nat, name : Seq(0..255), size : Nat, tunk_size : Nat]
  BY DEF Messages, FILEINFO, FILEID, TUNKDATA, ACK, RETRANS
<1>2. Payload(m) =
        Format(m.id) \o <<SEP>> \o m.name \o <<SEP>> \o Digits[m.size] \o <<SEP>> \o Digits[m.tunk_size]
  <2>1. FILEINFO # TUNKDATA /\ FILEINFO # RETRANS
    BY DEF FILEINFO, TUNKDATA, RETRANS
  <2> QED
    BY ONLY <2>1, m.cmd = FILEINFO, Zenon DEF Payload
<1> QED
  BY <1>1, <1>2 DEF Byte

LEMMA ChunkFields ==
  ASSUME NEW m \in Messages, m.cmd = TUNKDATA
  PROVE  /\ m.tunk \in Nat /\ m.data \in Seq(Byte)
         /\ \A x : [m EXCEPT !.data = x] = [cmd |-> TUNKDATA, id |-> m.id, tunk |-> m.tunk, data |-> x]
         /\ Payload(m) = Format(m.id) \o Format(m.tunk) \o <<SEP>> \o m.data
<1>1. m \in [cmd : {TUNKDATA}, id : Nat, tunk : Nat, data : Seq(0..255)]
  BY DEF Messages, FILEINFO, FILEID, TUNKDATA, ACK, RETRANS
<1>2. Payload(m) = Format(m.id) \o Format(m.tunk) \o <<SEP>> \o m.data
  <2>1. TUNKDATA # FILEINFO /\ TUNKDATA # RETRANS
    BY DEF FILEINFO, TUNKDATA, RETRANS
  <2> QED
    BY ONLY <2>1, m.cmd = TUNKDATA, Zenon DEF Payload
<1> QED
  BY <1>1, <1>2 DEF Byte

LEMMA RequestFields ==
  ASSUME NEW m \in Messages, m.cmd = RETRANS
  PROVE  /\ m.tunks \in Seq(Nat)
         /\ m = [cmd |-> RETRANS, id |-> m.id, tunks |-> m.tunks]
         /\ Payload(m) = Format(m.id) \o FlattenSeq([k \in DOMAIN m.tunks |-> <<SEP>> \o Format(m.tunks[k])])
<1>1. m \in [cmd : {RETRANS}, id : Nat, tunks : Seq(Nat)]
  BY DEF Messages, FILEINFO, FILEID, TUNKDATA, ACK, RETRANS
<1>2. Payload(m) = Format(m.id) \o FlattenSeq([k \in DOMAIN m.tunks |-> <<SEP>> \o Format(m.tunks[k])])
  BY DEF Payload, FILEINFO, TUNKDATA, RETRANS
<1> QED
  BY <1>1, <1>2

LEMMA ReplyFields ==
  ASSUME NEW m \in Messages, m.cmd \notin {FILEINFO, TUNKDATA, RETRANS}
  PROVE  m = [cmd |-> m.cmd, id |-> m.id] /\ Payload(m) = Format(m.id)
<1>1. m \in [cmd : {FILEID, ACK}, id : Nat]
  BY DEF Messages
<1> QED
  BY <1>1 DEF Payload

\* What a payload is read as, whatever its command.
ReadsAs(m) ==
  /\ Payload(m) \in Seq(Byte)
  /\ \E c, b : Cuts(Payload(m), c) /\ Spells(c, b) /\ Parsed(m.cmd, b) = Expected(m)

LEMMA PayloadReads ==
  ASSUME NEW m \in Messages, m.id =< 99, m.cmd = FILEINFO => NUL \notin ToSet(m.name)
  PROVE  ReadsAs(m)
<1>1. m.id \in Nat
  BY Commands
<1>2. CASE m.cmd = FILEINFO
  <2>1. PICK name \in Seq(Byte) : name = m.name /\ NUL \notin ToSet(name)
    BY <1>2, InfoFields
  <2>2. PICK size \in Nat : size = m.size
    BY <1>2, InfoFields
  <2>3. PICK n \in Nat : n = m.tunk_size
    BY <1>2, InfoFields
  <2>4. name \in Seq(Text)
    <3>1. Len(name) \in Nat /\ \A k \in 1..Len(name) : name[k] \in Byte /\ name[k] # NUL
      <4>1. \A k \in 1..Len(name) : name[k] \in ToSet(name)
        BY DEF ToSet
      <4> QED
        BY <2>1, <4>1, LenProperties
    <3>2. name \in [1..Len(name) -> Text]
      BY <3>1, LenProperties DEF Text
    <3> QED
      BY <3>1, <3>2
  <2>5. PICK p : p = Format(m.id) \o <<SEP>> \o name \o <<SEP>> \o Digits[size] \o <<SEP>> \o Digits[n]
    OBVIOUS
  <2>6. Payload(m) = p
    BY <1>2, <2>1, <2>2, <2>3, <2>5, InfoFields
  <2>7. PICK b : /\ Spells(p, b)
                 /\ ParseFileInfo(b) =
                      IF SEP \in ToSet(name) THEN Refused
                      ELSE [cmd |-> FILEINFO, id |-> m.id, name |-> name, size |-> size, tunk_size |-> n]
    BY ONLY <1>1, <2>2, <2>3, <2>4, <2>5, InfoRead
  <2>8. Expected(m) = IF SEP \in ToSet(name) THEN Refused ELSE m
    BY <1>2, <2>1 DEF Expected, FILEINFO, TUNKDATA, RETRANS
  <2>9. Parsed(m.cmd, b) = ParseFileInfo(b)
    BY <1>2 DEF Parsed, FILEINFO, TUNKDATA, RETRANS
  <2>10. m = [cmd |-> FILEINFO, id |-> m.id, name |-> name, size |-> size, tunk_size |-> n]
    BY <1>2, <2>1, <2>2, <2>3, InfoFields
  <2>11. p \in Seq(Byte) /\ Cuts(p, p)
    BY ONLY <2>7, SpellsCut
  <2>12. Parsed(m.cmd, b) = Expected(m)
    BY ONLY <2>7, <2>8, <2>9, <2>10
  <2> QED
    BY ONLY <2>6, <2>7, <2>11, <2>12 DEF ReadsAs
<1>3. CASE m.cmd = TUNKDATA
  <2>1. PICK tunk \in Nat : tunk = m.tunk
    BY <1>3, ChunkFields
  <2>2. PICK data \in Seq(Byte) : data = m.data
    BY <1>3, ChunkFields
  <2>3. PICK p : p = Format(m.id) \o Format(tunk) \o <<SEP>> \o data
    OBVIOUS
  <2>4. Payload(m) = p
    BY <1>3, <2>1, <2>2, <2>3, ChunkFields
  <2>5. p \in Seq(Byte) /\ \E c, b :
          /\ Cuts(p, c) /\ Spells(c, b)
          /\ ParseTunkData(b) =
               IF tunk > 99 \/ SEP \in ToSet(UpToNul(data)) THEN Refused
               ELSE [cmd |-> TUNKDATA, id |-> m.id, tunk |-> tunk, data |-> UpToNul(data)]
    <3>1. p \in Seq(Byte) /\ ChunkReads(p, m.id, tunk, data)
      BY ONLY <1>1, m.id =< 99, <2>1, <2>2, <2>3, ChunkRead
    <3> QED
      BY ONLY <3>1 DEF ChunkReads
  <2>6. Expected(m) = IF tunk > 99 \/ SEP \in ToSet(UpToNul(data)) THEN Refused
                      ELSE [m EXCEPT !.data = UpToNul(data)]
    BY <1>3, <2>1, <2>2 DEF Expected, FILEINFO, TUNKDATA, RETRANS
  <2>7. [m EXCEPT !.data = UpToNul(data)] =
          [cmd |-> TUNKDATA, id |-> m.id, tunk |-> tunk, data |-> UpToNul(data)]
    BY <1>3, <2>1, ChunkFields
  <2>8. \A b : Parsed(m.cmd, b) = ParseTunkData(b)
    BY <1>3 DEF Parsed, FILEINFO, TUNKDATA, RETRANS
  <2>9. PICK c, b : Cuts(p, c) /\ Spells(c, b) /\ ParseTunkData(b) = Expected(m)
    BY ONLY <2>5, <2>6, <2>7
  <2>10. Parsed(m.cmd, b) = Expected(m)
    BY ONLY <2>8, <2>9
  <2> QED
    BY ONLY <2>4, <2>5, <2>9, <2>10 DEF ReadsAs
<1>4. CASE m.cmd = RETRANS
  <2>1. PICK tunks \in Seq(Nat) : tunks = m.tunks
    BY <1>4, RequestFields
  <2>2. PICK p : p = Format(m.id) \o FlattenSeq([k \in DOMAIN tunks |-> <<SEP>> \o Format(tunks[k])])
    OBVIOUS
  <2>3. Payload(m) = p
    BY <1>4, <2>1, <2>2, RequestFields
  <2>4. PICK b : /\ Spells(p, b)
                 /\ ParseRetrans(b) =
                      IF \E k \in DOMAIN tunks : tunks[k] > 99 THEN Refused
                      ELSE [cmd |-> RETRANS, id |-> m.id, tunks |-> tunks]
    BY ONLY <1>1, m.id =< 99, <2>1, <2>2, RequestRead
  <2>5. Expected(m) = IF \E k \in DOMAIN tunks : tunks[k] > 99 THEN Refused ELSE m
    BY <1>4, <2>1 DEF Expected, FILEINFO, TUNKDATA, RETRANS
  <2>6. Parsed(m.cmd, b) = ParseRetrans(b)
    BY <1>4 DEF Parsed, FILEINFO, TUNKDATA, RETRANS
  <2>7. m = [cmd |-> RETRANS, id |-> m.id, tunks |-> tunks]
    BY <1>4, <2>1, RequestFields
  <2>8. p \in Seq(Byte) /\ Cuts(p, p)
    BY ONLY <2>4, SpellsCut
  <2>9. Parsed(m.cmd, b) = Expected(m)
    BY ONLY <2>4, <2>5, <2>6, <2>7
  <2> QED
    BY ONLY <2>3, <2>4, <2>8, <2>9 DEF ReadsAs
<1>5. CASE m.cmd \notin {FILEINFO, TUNKDATA, RETRANS}
  <2>1. PICK b : Spells(Format(m.id), b) /\ ParseReply(m.cmd, b) = [cmd |-> m.cmd, id |-> m.id]
    BY ONLY <1>1, m.id =< 99, ReplyRead
  <2>2. Payload(m) = Format(m.id) /\ m = [cmd |-> m.cmd, id |-> m.id]
    BY <1>5, ReplyFields
  <2>3. Expected(m) = m /\ Parsed(m.cmd, b) = ParseReply(m.cmd, b)
    BY <1>5 DEF Expected, Parsed
  <2>4. Format(m.id) \in Seq(Byte) /\ Cuts(Format(m.id), Format(m.id))
    BY ONLY <2>1, SpellsCut
  <2>5. Parsed(m.cmd, b) = Expected(m)
    BY ONLY <2>1, <2>2, <2>3
  <2> QED
    BY ONLY <2>1, <2>2, <2>4, <2>5 DEF ReadsAs
<1> QED
  BY <1>2, <1>3, <1>4, <1>5

LEMMA SentReads ==
  ASSUME NEW s \in Scenarios, NEW m \in Sent(s)
  PROVE  m.cmd \in FILEINFO..RETRANS /\ Payload(m) \in Seq(Byte) /\ ReadsAs(m)
<1>1. m \in Messages /\ m.id =< 99 /\ (m.cmd = FILEINFO => NUL \notin ToSet(m.name))
  BY ScenariosAssumption
<1>2. ReadsAs(m)
  BY ONLY <1>1, PayloadReads
<1> QED
  BY <1>1, <1>2, Commands DEF ReadsAs

\* Every message that is sent and fits a frame is read back as the format lets it:
\* whole, or as a chunk that ends at its first zero byte, or refused for a
\* separator or an id of three digits (SerialFileTransfer, the parsers and the
\* formatters of all five commands).
THEOREM CodecRoundTrip == RoundTrip
<1>1. SUFFICES ASSUME NEW s \in Scenarios, NEW m \in Sent(s), Len(Payload(m)) =< PayloadLen
               PROVE  Decode(FrameOf(m)) = Expected(m)
  BY DEF RoundTrip
<1>2. m.cmd \in FILEINFO..RETRANS /\ Payload(m) \in Seq(Byte) /\ ReadsAs(m)
  BY SentReads
<1>3. PICK c, b : Cuts(Payload(m), c) /\ Spells(c, b) /\ Parsed(m.cmd, b) = Expected(m)
  BY <1>2 DEF ReadsAs
<1>4. Decode(FrameOf(m)) = Parsed(m.cmd, b)
  BY ONLY <1>1, <1>2, <1>3, DecodeOf
<1> QED
  BY <1>3, <1>4

-----------------------------------------------------------------------------
(* Types, and the frames that are being written *)

\* What the reader may make of a block.
Readings == {Decode(b) : b \in Seq(Byte)}

LineType ==
  /\ scenario \in Scenarios
  /\ todo \in [Writers -> Seq(Sent(scenario))]
  /\ rest \in [Writers -> Seq(Byte)]
  /\ line \in Seq(Byte)
  /\ received \in Seq(Readings)
  /\ lost \in Nat /\ together \in Nat
  /\ begun \in Seq([by : Writers, msg : Sent(scenario)])
  /\ mixed \subseteq 1..Len(begun)
  /\ \A i \in 1..Len(begun) : FrameOf(Message(i)) # <<>>

\* How much of its frame a writer has written.
Written(w) == FrameLen - Len(rest[w])

\* A writer in the middle of a frame has the rest of the latest it began.
OpenFrames ==
  \A w \in Midway :
    /\ Open(w) \in 1..Len(begun) /\ begun[Open(w)].by = w
    /\ Len(rest[w]) \in 1..(FrameLen - 1)
    /\ \A q \in 1..Len(rest[w]) : rest[w][q] = FrameOf(Message(Open(w)))[Written(w) + q]

\* A message of the scenario and its frame.
LEMMA SentFrames ==
  ASSUME NEW s \in Scenarios, NEW m \in Sent(s)
  PROVE  /\ m.cmd \in FILEINFO..RETRANS /\ Payload(m) \in Seq(Byte)
         /\ FrameOf(m) # <<>> => IsFrame(FrameOf(m))
BY SentReads, FrameShape

LEMMA BegunFrames ==
  ASSUME LineType, NEW i \in 1..Len(begun)
  PROVE  /\ Message(i) \in Sent(scenario)
         /\ IsFrame(FrameOf(Message(i)))
         /\ Unmarked => Clean(FrameOf(Message(i)))
<1>1. Message(i) \in Sent(scenario) /\ FrameOf(Message(i)) # <<>>
  <2>1. begun[i] \in [by : Writers, msg : Sent(scenario)]
    BY ElementOfSeq DEF LineType
  <2> QED
    BY <2>1 DEF LineType, Message
<1>2. Message(i).cmd \in FILEINFO..RETRANS /\ Payload(Message(i)) \in Seq(Byte)
  BY <1>1, SentFrames DEF LineType
<1>3. i \in DOMAIN begun
  BY LenProperties DEF LineType
<1> QED
  BY <1>1, <1>2, <1>3, FrameShape DEF Unmarked

\* The latest frame of each writer, after one more is begun.
LEMMA OpenNew ==
  ASSUME NEW R, begun \in Seq(R), NEW b \in R, begun' = Append(begun, b)
  PROVE  \A v : Open(v)' = IF b.by = v THEN Len(begun) + 1 ELSE Open(v)
<1> TAKE v
<1> DEFINE n == Len(begun)
           I == {i \in 1..n : begun[i].by = v}
           J == {i \in 1..Len(begun') : begun'[i].by = v}
<1>1. /\ n \in Nat /\ Len(begun') = n + 1 /\ begun'[n + 1] = b
      /\ \A i \in 1..n : begun'[i] = begun[i]
  BY LenProperties, AppendProperties
<1>2. /\ Open(v) = IF I # {} THEN Max(I) ELSE 0
      /\ Open(v)' = IF J # {} THEN Max(J) ELSE 0
  BY DEF Open, SelectLastInSeq
<1>3. CASE b.by = v
  <2>1. n + 1 \in J /\ \A i \in J : i \in Int /\ i =< n + 1
    BY <1>1, <1>3
  <2> HIDE DEF J
  <2>2. Max(J) = n + 1
    <3>1. \A x \in J : (\A y \in J : x >= y) <=> x = n + 1
      BY <2>1, <1>1
    <3> QED
      BY <2>1, <3>1 DEF Max
  <2> QED
    BY <1>2, <1>3, <2>1, <2>2
<1>4. CASE b.by # v
  <2>1. J = I
    BY <1>1, <1>4
  <2> HIDE DEF I, J
  <2> QED
    BY <1>2, <1>4, <2>1
<1> QED
  BY <1>3, <1>4

\* Writer w, which has written v bytes of the frame f, writes k more, x.
Writes(w, f, v, k, x) ==
  /\ IsFrame(f) /\ v \in 0..(FrameLen - 1) /\ k \in 1..(FrameLen - v)
  /\ x \in Seq(Byte) /\ Len(x) = k /\ line' = line \o x
  /\ \A q \in 1..k : x[q] = f[v + q]
  /\ \E r \in Seq(Byte) :
       /\ rest' = [rest EXCEPT ![w] = r]
       /\ Len(r) = FrameLen - (v + k)
       /\ \A q \in 1..Len(r) : r[q] = f[(v + k) + q]

\* The driver takes some of the bytes v + 1, v + 2, ... of a frame.
LEMMA TakenBytes ==
  ASSUME LineType, NEW w \in Writers, NEW f, IsFrame(f), NEW v \in 0..(FrameLen - 1),
         NEW bytes \in Seq(Byte), Len(bytes) = FrameLen - v,
         \A q \in 1..Len(bytes) : bytes[q] = f[v + q],
         Offer(w, bytes)
  PROVE  \E k, x : Writes(w, f, v, k, x)
<1>1. FrameLen \in Nat /\ v \in Nat /\ v < FrameLen /\ Len(bytes) \in Nat
  BY Lengths
<1>2. PICK k \in 1..Len(bytes) :
        /\ line' = line \o SubSeq(bytes, 1, k)
        /\ rest' = [rest EXCEPT ![w] = SubSeq(bytes, k + 1, Len(bytes))]
  BY DEF Offer, Taken
<1> DEFINE x == SubSeq(bytes, 1, k)
           r == SubSeq(bytes, k + 1, Len(bytes))
<1>3. k \in 1..(FrameLen - v) /\ k \in Nat
  BY <1>1
<1>4. \A q \in 1..Len(bytes) : bytes[q] \in Byte
  BY ElementOfSeq
<1>5. x \in Seq(Byte) /\ Len(x) = k /\ \A q \in 1..k : x[q] = bytes[q]
  <2>1. \A q \in 1..k : bytes[q] \in Byte
    BY <1>1, <1>4
  <2>2. /\ x \in Seq(Byte) /\ Len(x) = IF 1 =< k THEN k - 1 + 1 ELSE 0
        /\ \A q \in 1..(k - 1 + 1) : x[q] = bytes[1 + q - 1]
    BY <2>1, <1>3, SubSeqProperties
  <2> QED
    BY <2>2, <1>3
<1>6. /\ r \in Seq(Byte) /\ Len(r) = Len(bytes) - k
      /\ \A q \in 1..(Len(bytes) - k) : r[q] = bytes[k + q]
  <2>1. \A q \in (k + 1)..Len(bytes) : bytes[q] \in Byte
    BY <1>3, <1>4
  <2>2. /\ r \in Seq(Byte) /\ Len(r) = IF k + 1 =< Len(bytes) THEN Len(bytes) - (k + 1) + 1 ELSE 0
        /\ \A q \in 1..(Len(bytes) - (k + 1) + 1) : r[q] = bytes[k + 1 + q - 1]
    BY <2>1, <1>1, <1>3, SubSeqProperties
  <2>3. Len(r) = Len(bytes) - k
    BY ONLY <2>2, <1>1, <1>3, k \in 1..Len(bytes)
  <2> QED
    BY <2>2, <2>3, <1>3, <1>1
<1> HIDE DEF x, r
<1>7. \A q \in 1..k : x[q] = f[v + q]
  <2> TAKE q \in 1..k
  <2>1. q \in 1..Len(bytes)
    BY <1>1, <1>3
  <2> QED
    BY <2>1, <1>5
<1>8. Len(r) = FrameLen - (v + k)
  BY <1>1, <1>3, <1>6
<1>9. \A q \in 1..Len(r) : r[q] = f[(v + k) + q]
  <2> TAKE q \in 1..Len(r)
  <2>1. q \in 1..(Len(bytes) - k) /\ k + q \in 1..Len(bytes) /\ v + (k + q) = (v + k) + q
    BY <1>1, <1>3, <1>6
  <2> QED
    BY <2>1, <1>6
<1>10. line' = line \o x /\ rest' = [rest EXCEPT ![w] = r]
  BY <1>2 DEF x, r
<1>11. Writes(w, f, v, k, x)
  BY ONLY <1>3, <1>5, <1>6, <1>7, <1>8, <1>9, <1>10, IsFrame(f), v \in 0..(FrameLen - 1) DEF Writes
<1> QED
  BY <1>11

LEMMA BeginWrites ==
  ASSUME LineType, NEW w \in Writers, BeginFrame(w)
  PROVE  /\ rest[w] = <<>>
         /\ todo' \in [Writers -> Seq(Sent(scenario))]
         /\ UNCHANGED <<scenario, received, lost>>
         /\ \/ UNCHANGED <<rest, line, history>>
            \/ \E m \in Sent(scenario) :
                 /\ FrameOf(m) # <<>>
                 /\ \E k, x : Writes(w, FrameOf(m), 0, k, x)
                 /\ begun' = Append(begun, [by |-> w, msg |-> m])
                 /\ mixed' = IF Midway = {} THEN mixed
                             ELSE mixed \union {Open(v) : v \in Midway} \union {Len(begun) + 1}
                 /\ together' = IF Cardinality(Midway) + 1 > together
                                THEN Cardinality(Midway) + 1 ELSE together
<1> DEFINE m == Head(todo[w])
           bytes == FrameOf(m)
<1>1. /\ rest[w] = <<>> /\ todo[w] # <<>> /\ todo[w] \in Seq(Sent(scenario))
      /\ todo' = [todo EXCEPT ![w] = Tail(todo[w])]
      /\ UNCHANGED <<scenario, received, lost>>
  BY DEF BeginFrame, LineType
<1>2. m \in Sent(scenario) /\ Tail(todo[w]) \in Seq(Sent(scenario))
  BY <1>1, HeadTailProperties
<1>3. todo' \in [Writers -> Seq(Sent(scenario))]
  BY <1>1, <1>2 DEF LineType
<1>4. CASE bytes = <<>>
  BY <1>1, <1>3, <1>4 DEF BeginFrame
<1>5. CASE bytes # <<>>
  <2>1. /\ Offer(w, bytes)
        /\ begun' = Append(begun, [by |-> w, msg |-> m])
        /\ mixed' = IF Midway = {} THEN mixed
                    ELSE mixed \union {Open(v) : v \in Midway} \union {Len(begun) + 1}
        /\ together' = IF Cardinality(Midway) + 1 > together
                       THEN Cardinality(Midway) + 1 ELSE together
    BY <1>5 DEF BeginFrame
  <2>2. IsFrame(bytes)
    BY <1>2, <1>5, SentFrames DEF LineType
  <2>3. \E k, x : Writes(w, bytes, 0, k, x)
    <3>1. /\ 0 \in 0..(FrameLen - 1) /\ bytes \in Seq(Byte) /\ Len(bytes) = FrameLen - 0
          /\ \A q \in 1..Len(bytes) : bytes[q] = bytes[0 + q]
      BY <2>2, Lengths DEF IsFrame
    <3> HIDE DEF bytes
    <3> QED
      BY ONLY LineType, w \in Writers, <3>1, <2>1, <2>2, TakenBytes
  <2> QED
    BY <1>1, <1>2, <1>3, <1>5, <2>1, <2>3
<1> QED
  BY <1>4, <1>5

LEMMA ContinueWrites ==
  ASSUME LineType, OpenFrames, NEW w \in Writers, ContinueFrame(w)
  PROVE  /\ w \in Midway
         /\ UNCHANGED <<scenario, todo, received, lost, history>>
         /\ \E k, x : Writes(w, FrameOf(Message(Open(w))), Written(w), k, x)
<1> DEFINE f == FrameOf(Message(Open(w)))
           v == Written(w)
<1>1. w \in Midway /\ Offer(w, rest[w]) /\ UNCHANGED <<scenario, todo, received, lost, history>>
  BY DEF ContinueFrame, Midway
<1>2. /\ Open(w) \in 1..Len(begun) /\ Len(rest[w]) \in 1..(FrameLen - 1)
      /\ \A q \in 1..Len(rest[w]) : rest[w][q] = f[v + q]
  BY <1>1 DEF OpenFrames
<1>3. IsFrame(f)
  BY <1>2, BegunFrames
<1>4. v \in 0..(FrameLen - 1) /\ Len(rest[w]) = FrameLen - v /\ rest[w] \in Seq(Byte)
  BY <1>2, Lengths DEF Written, LineType
<1> HIDE DEF f, v
<1>5. \E k, x : Writes(w, f, v, k, x)
  BY ONLY LineType, w \in Writers, <1>1, <1>2, <1>3, <1>4, TakenBytes
<1> QED
  BY <1>1, <1>5 DEF f, v

LEMMA RestAfter ==
  ASSUME LineType, NEW w \in Writers, NEW f, NEW v, NEW k, NEW x, Writes(w, f, v, k, x)
  PROVE  /\ rest' \in [Writers -> Seq(Byte)] /\ line' \in Seq(Byte)
         /\ Len(rest'[w]) = FrameLen - (v + k)
         /\ \A q \in 1..Len(rest'[w]) : rest'[w][q] = f[(v + k) + q]
         /\ \A u \in Writers : u # w => rest'[u] = rest[u]
         /\ v + k < FrameLen => Midway' = Midway \union {w} /\ Written(w)' = v + k
         /\ v + k = FrameLen => Midway' = Midway \ {w}
         /\ \A u \in Writers : u # w => Written(u)' = Written(u)
<1>1. PICK r \in Seq(Byte) :
       /\ rest' = [rest EXCEPT ![w] = r]
       /\ Len(r) = FrameLen - (v + k)
       /\ \A q \in 1..Len(r) : r[q] = f[(v + k) + q]
  BY DEF Writes
<1>2. /\ rest \in [Writers -> Seq(Byte)]
      /\ rest' \in [Writers -> Seq(Byte)] /\ rest'[w] = r
      /\ \A u \in Writers : u # w => rest'[u] = rest[u]
  BY <1>1 DEF LineType
<1>3. line' \in Seq(Byte)
  BY ConcatProperties DEF LineType, Writes
<1>4. /\ FrameLen \in Nat /\ v \in Nat /\ k \in Nat /\ v + k =< FrameLen
      /\ Len(r) \in Nat /\ Len(<<>>) = 0
  BY Lengths, LenProperties DEF Writes
<1>5. v + k < FrameLen <=> r # <<>>
  <2>1. r # <<>> => Len(r) > 0
    BY EmptySeq
  <2>2. v + k < FrameLen => r # <<>>
    BY <1>1, <1>4
  <2> QED
    BY <1>1, <1>4, <2>1, <2>2
<1>6. v + k < FrameLen => Midway' = Midway \union {w}
  BY <1>2, <1>5 DEF Midway
<1>7. v + k = FrameLen => Midway' = Midway \ {w}
  <2>1. v + k = FrameLen => r = <<>>
    BY <1>4, <1>5
  <2> QED
    BY <1>2, <2>1 DEF Midway
<1>8. Written(w)' = v + k
  <2>1. Written(w)' = FrameLen - Len(r)
    BY <1>2 DEF Written
  <2> QED
    BY <2>1, <1>1, <1>4
<1>9. \A u \in Writers : u # w => Written(u)' = Written(u)
  BY <1>2 DEF Written
<1> QED
  BY <1>1, <1>2, <1>3, <1>6, <1>7, <1>8, <1>9

LEMMA BegunAfter ==
  ASSUME LineType, NEW w \in Writers, NEW m \in Sent(scenario),
         begun' = Append(begun, [by |-> w, msg |-> m])
  PROVE  /\ Len(begun) \in Nat /\ Len(begun') = Len(begun) + 1
         /\ begun' \in Seq([by : Writers, msg : Sent(scenario)])
         /\ \A i \in 1..Len(begun) : begun'[i] = begun[i] /\ Message(i)' = Message(i)
         /\ begun'[Len(begun) + 1].by = w /\ begun'[Len(begun) + 1].msg = m
         /\ \A i \in 1..Len(begun) : FrameOf(Message(i))' = FrameOf(Message(i))
         /\ \A i : i = Len(begun) + 1 => FrameOf(Message(i))' = FrameOf(m)
         /\ \A v : Open(v)' = IF w = v THEN Len(begun) + 1 ELSE Open(v)
<1> DEFINE R == [by : Writers, msg : Sent(scenario)]
           b == [by |-> w, msg |-> m]
<1>1. begun \in Seq(R) /\ b \in R /\ b.by = w /\ b.msg = m
  BY DEF LineType
<1> HIDE DEF b, R
<1>2. begun' = Append(begun, b)
  BY DEF b
<1>3. /\ Len(begun) \in Nat /\ Len(begun') = Len(begun) + 1 /\ begun' \in Seq(R)
      /\ begun'[Len(begun) + 1] = b
      /\ \A i \in 1..Len(begun) : begun'[i] = begun[i]
  BY <1>1, <1>2, LenProperties, AppendProperties
<1>4. \A v : Open(v)' = IF w = v THEN Len(begun) + 1 ELSE Open(v)
  BY <1>1, <1>2, OpenNew
<1>5. \A i \in 1..Len(begun) : Message(i)' = Message(i)
  BY <1>3 DEF Message
<1>6. begun'[Len(begun) + 1].by = w /\ begun'[Len(begun) + 1].msg = m
  BY <1>1, <1>3
<1>7. \A i \in 1..Len(begun) : FrameOf(Message(i))' = FrameOf(Message(i))
  BY <1>3 DEF Message
<1>8. \A i : i = Len(begun) + 1 => FrameOf(Message(i))' = FrameOf(m)
  BY <1>6 DEF Message
<1> QED
  BY <1>3, <1>4, <1>5, <1>6, <1>7, <1>8 DEF R

\* No frame is begun.
LEMMA MessagesSame ==
  ASSUME begun' = begun
  PROVE  \A u : /\ Open(u)' = Open(u)
                /\ Message(u)' = Message(u)
                /\ FrameOf(Message(u))' = FrameOf(Message(u))
                /\ FrameOf(Message(Open(u)))' = FrameOf(Message(Open(u)))
<1>1. \A u : Open(u)' = Open(u)
  BY DEF Open, SelectLastInSeq
<1>2. \A u : Message(u)' = Message(u) /\ FrameOf(Message(u))' = FrameOf(Message(u))
  BY DEF Message
<1>3. \A u : FrameOf(Message(Open(u)))' = FrameOf(Message(Open(u)))
  BY <1>1 DEF Message
<1> QED
  BY <1>1, <1>2, <1>3

\* Nothing is written.
LEMMA FramesSame ==
  ASSUME begun' = begun, rest' = rest
  PROVE  /\ \A u : Written(u)' = Written(u)
         /\ Midway' = Midway
         /\ OpenFrames => OpenFrames'
<1>1. \A u : Written(u)' = Written(u)
  BY DEF Written
<1>2. Midway' = Midway
  BY DEF Midway
<1> QED
  BY <1>1, <1>2, MessagesSame DEF OpenFrames

LEMMA LineTypeInit == Init => LineType
<1> SUFFICES ASSUME Init PROVE LineType
  OBVIOUS
<1>1. scenario \in Scenarios /\ todo \in [Writers -> Seq(Sent(scenario))]
  BY ScenariosAssumption DEF Init
<1>2. rest \in [Writers -> Seq(Byte)] /\ line \in Seq(Byte) /\ received \in Seq(Readings)
  BY EmptySeq DEF Init
<1>3. begun = <<>> /\ begun \in Seq([by : Writers, msg : Sent(scenario)]) /\ Len(begun) = 0
  BY EmptySeq DEF Init
<1>4. mixed = {} /\ lost \in Nat /\ together \in Nat
  BY DEF Init
<1>5. 1..Len(begun) = {}
  BY <1>3
<1> QED
  BY <1>1, <1>2, <1>3, <1>4, <1>5 DEF LineType

\* A new frame: the types, and what every writer has left.
LEMMA BeginKeeps ==
  ASSUME LineType, OpenFrames, NEW w \in Writers, BeginFrame(w)
  PROVE  LineType' /\ OpenFrames'
<1>1. /\ rest[w] = <<>>
      /\ todo' \in [Writers -> Seq(Sent(scenario))]
      /\ UNCHANGED <<scenario, received, lost>>
  BY BeginWrites
<1>2. CASE UNCHANGED <<rest, line, history>>
  <2>1. LineType'
    BY <1>1, <1>2 DEF LineType, history, Message
  <2>2. OpenFrames'
    <3>1. begun' = begun /\ rest' = rest
      BY <1>2 DEF history
    <3> QED
      BY <3>1, FramesSame DEF OpenFrames
  <2> QED
    BY <2>1, <2>2
<1>3. CASE \E m \in Sent(scenario) :
             /\ FrameOf(m) # <<>>
             /\ \E k, x : Writes(w, FrameOf(m), 0, k, x)
             /\ begun' = Append(begun, [by |-> w, msg |-> m])
             /\ mixed' = IF Midway = {} THEN mixed
                         ELSE mixed \union {Open(v) : v \in Midway} \union {Len(begun) + 1}
             /\ together' = IF Cardinality(Midway) + 1 > together
                            THEN Cardinality(Midway) + 1 ELSE together
  <2>0. PICK m \in Sent(scenario) :
             /\ FrameOf(m) # <<>>
             /\ \E k, x : Writes(w, FrameOf(m), 0, k, x)
             /\ begun' = Append(begun, [by |-> w, msg |-> m])
             /\ mixed' = IF Midway = {} THEN mixed
                         ELSE mixed \union {Open(v) : v \in Midway} \union {Len(begun) + 1}
             /\ together' = IF Cardinality(Midway) + 1 > together
                            THEN Cardinality(Midway) + 1 ELSE together
    BY <1>3
  <2>1. PICK k, x : Writes(w, FrameOf(m), 0, k, x)
    BY <2>0
  <2> DEFINE n == Len(begun)
             f == FrameOf(m)
  <2>2. /\ n \in Nat /\ Len(begun') = n + 1
        /\ begun' \in Seq([by : Writers, msg : Sent(scenario)])
        /\ \A i \in 1..n : begun'[i] = begun[i] /\ Message(i)' = Message(i)
        /\ begun'[n + 1].by = w /\ begun'[n + 1].msg = m
        /\ \A v : Open(v)' = IF w = v THEN n + 1 ELSE Open(v)
    BY <2>0, <2>1, BegunAfter
  <2>3. /\ rest' \in [Writers -> Seq(Byte)] /\ line' \in Seq(Byte)
        /\ Len(rest'[w]) = FrameLen - (0 + k)
        /\ \A q \in 1..Len(rest'[w]) : rest'[w][q] = f[(0 + k) + q]
        /\ \A u \in Writers : u # w => rest'[u] = rest[u]
        /\ 0 + k < FrameLen => Midway' = Midway \union {w} /\ Written(w)' = 0 + k
        /\ 0 + k = FrameLen => Midway' = Midway \ {w}
        /\ \A u \in Writers : u # w => Written(u)' = Written(u)
    BY <2>0, <2>1, RestAfter
  <2>4. k \in 1..FrameLen /\ FrameLen \in Nat /\ 0 + k = k
    BY <2>0, <2>1, Lengths DEF Writes
  <2>5. \A u \in Midway : u \in Writers /\ Open(u) \in 1..n
    BY DEF OpenFrames, Midway
  <2> HIDE DEF n, f
  <2>6. 1..Len(begun') = (1..n) \union {n + 1}
    BY <2>2
  <2>7. mixed' \subseteq 1..Len(begun')
    <3>1. mixed \subseteq 1..n
      BY DEF LineType, n
    <3>2. mixed' \subseteq mixed \union {Open(v) : v \in Midway} \union {n + 1}
      BY <2>0 DEF n
    <3> QED
      BY ONLY <3>1, <3>2, <2>5, <2>6
  <2>8. together' \in Nat
    <3>1. IsFiniteSet(Midway)
      BY SerialLineAssumption, FS_Subset DEF Midway
    <3>2. Cardinality(Midway) \in Nat /\ together \in Nat
      BY <3>1, FS_CardinalityType DEF LineType
    <3> QED
      BY <3>2, <2>0, <2>1
  <2>9. \A i \in 1..Len(begun') : (FrameOf(Message(i)) # <<>>)'
    <3> TAKE i \in 1..Len(begun')
    <3>1. CASE i \in 1..n
      BY <2>2, <3>1 DEF LineType, n, Message
    <3>2. CASE i = n + 1
      BY <2>0, <2>1, <2>2, <3>2 DEF Message
    <3> QED
      BY <2>6, <3>1, <3>2
  <2>10. LineType'
    BY <1>1, <2>2, <2>3, <2>7, <2>8, <2>9 DEF LineType
  <2>11. ASSUME NEW u \in Midway'
         PROVE  /\ Open(u)' \in 1..Len(begun') /\ begun'[Open(u)'].by = u
                /\ Len(rest'[u]) \in 1..(FrameLen - 1)
                /\ \A q \in 1..Len(rest'[u]) :
                     rest'[u][q] = FrameOf(Message(Open(u)))'[Written(u)' + q]
    <3>1. CASE u = w
      <4>1. k < FrameLen
        BY <2>3, <2>4, <3>1
      <4>2. Open(u)' = n + 1 /\ Written(u)' = k
        BY <2>2, <2>3, <2>4, <3>1, <4>1
      <4>3. FrameOf(Message(Open(u)))' = f
        BY <2>2, <4>2 DEF f, Message
      <4>4. Len(rest'[u]) \in 1..(FrameLen - 1)
        BY ONLY <2>3, <2>4, <3>1, <4>1
      <4>5. \A q \in 1..Len(rest'[u]) : rest'[u][q] = f[k + q]
        BY <2>3, <2>4, <3>1
      <4> QED
        BY <2>2, <2>6, <3>1, <4>2, <4>3, <4>4, <4>5
    <3>2. CASE u # w
      <4>1. u \in Midway /\ u \in Writers /\ rest'[u] = rest[u] /\ Written(u)' = Written(u)
        BY <2>3, <2>4, <3>2 DEF Midway
      <4>2. Open(u)' = Open(u) /\ Open(u) \in 1..n
        BY <2>2, <2>5, <3>2, <4>1
      <4>3. begun'[Open(u)'] = begun[Open(u)] /\ FrameOf(Message(Open(u)))' = FrameOf(Message(Open(u)))
        BY <2>2, <4>2 DEF Message
      <4> QED
        BY <4>1, <4>2, <4>3, <2>6 DEF OpenFrames
    <3> QED
      BY <3>1, <3>2
  <2>12. OpenFrames'
    BY <2>11 DEF OpenFrames, Message
  <2> QED
    BY <2>10, <2>12
<1> QED
  BY <1>2, <1>3, BeginWrites

\* More of a frame: the types, and what every writer has left.
LEMMA ContinueKeeps ==
  ASSUME LineType, OpenFrames, NEW w \in Writers, ContinueFrame(w)
  PROVE  LineType' /\ OpenFrames'
<1> DEFINE f == FrameOf(Message(Open(w)))
           v == Written(w)
<1>1. /\ w \in Midway /\ UNCHANGED <<scenario, todo, received, lost>>
      /\ begun' = begun /\ mixed' = mixed /\ together' = together
      /\ \E k, x : Writes(w, f, v, k, x)
  BY ContinueWrites DEF history
<1>2. PICK k, x : Writes(w, f, v, k, x)
  BY <1>1
<1>3. /\ \A u : Open(u)' = Open(u)
      /\ \A u : FrameOf(Message(u))' = FrameOf(Message(u))
      /\ \A u : FrameOf(Message(Open(u)))' = FrameOf(Message(Open(u)))
  BY <1>1, MessagesSame
<1> HIDE DEF f, v
<1>4. /\ rest' \in [Writers -> Seq(Byte)] /\ line' \in Seq(Byte)
      /\ Len(rest'[w]) = FrameLen - (v + k)
      /\ \A q \in 1..Len(rest'[w]) : rest'[w][q] = f[(v + k) + q]
      /\ \A u \in Writers : u # w => rest'[u] = rest[u]
      /\ v + k < FrameLen => Midway' = Midway \union {w} /\ Written(w)' = v + k
      /\ v + k = FrameLen => Midway' = Midway \ {w}
      /\ \A u \in Writers : u # w => Written(u)' = Written(u)
  BY <1>2, RestAfter
<1>5. LineType'
  BY <1>1, <1>3, <1>4 DEF LineType
<1>6. /\ FrameLen \in Nat /\ v \in Nat /\ v < FrameLen /\ k \in Nat /\ k > 0
      /\ v + k =< FrameLen
  BY <1>2, Lengths DEF Writes
<1>7. ASSUME NEW u \in Midway'
      PROVE  /\ Open(u)' \in 1..Len(begun') /\ begun'[Open(u)'].by = u
             /\ Len(rest'[u]) \in 1..(FrameLen - 1)
             /\ \A q \in 1..Len(rest'[u]) :
                  rest'[u][q] = FrameOf(Message(Open(u)))'[Written(u)' + q]
  <2>1. u \in Midway /\ u \in Writers
    BY <1>1, <1>4, <1>6 DEF Midway
  <2>2. Open(u)' \in 1..Len(begun') /\ begun'[Open(u)'].by = u
    BY <1>1, <1>3, <2>1 DEF OpenFrames
  <2>3. CASE u = w
    <3>1. v + k < FrameLen
      <4>1. v + k # FrameLen
        BY <1>4, <1>7, <2>3
      <4> QED
        BY ONLY <4>1, <1>6
    <3>2. Len(rest'[u]) \in 1..(FrameLen - 1)
      BY ONLY <1>4, <1>6, <2>3, <3>1
    <3>3. FrameOf(Message(Open(u)))' = f /\ Written(u)' = v + k
      BY <1>3, <1>4, <2>3, <3>1 DEF f
    <3> QED
      BY <1>4, <2>2, <2>3, <3>2, <3>3
  <2>4. CASE u # w
    <3>1. rest'[u] = rest[u] /\ Written(u)' = Written(u)
      BY <1>4, <2>1, <2>4
    <3> QED
      BY <1>3, <2>1, <2>2, <3>1 DEF OpenFrames
  <2> QED
    BY <2>3, <2>4
<1>8. OpenFrames'
  BY <1>7 DEF OpenFrames
<1> QED
  BY <1>5, <1>8

\* LoseByte
LEMMA LoseKeeps ==
  ASSUME LineType, OpenFrames, LoseByte
  PROVE  LineType' /\ OpenFrames'
<1>1. /\ UNCHANGED <<scenario, todo, rest, received>>
      /\ begun' = begun /\ mixed' = mixed /\ together' = together
      /\ lost' = lost + 1
  BY DEF LoseByte, history
<1>2. line' \in Seq(Byte)
  <2>1. PICK i \in DOMAIN line : line' = RemoveAt(line, i)
    BY DEF LoseByte
  <2>2. line \in Seq(Byte) /\ DOMAIN line = 1..Len(line) /\ Len(line) \in Nat
    BY LenProperties DEF LineType
  <2>3. \A j \in 1..Len(line) : line[j] \in Byte
    BY <2>2, ElementOfSeq
  <2>4. SubSeq(line, 1, i - 1) \in Seq(Byte)
    BY <2>1, <2>2, <2>3, SubSeqProperties
  <2>5. SubSeq(line, i + 1, Len(line)) \in Seq(Byte)
    BY <2>1, <2>2, <2>3, SubSeqProperties
  <2> QED
    BY <2>1, <2>4, <2>5, ConcatProperties DEF RemoveAt
<1>3. LineType'
  <2>1. lost' \in Nat
    BY <1>1 DEF LineType
  <2>2. \A u : FrameOf(Message(u))' = FrameOf(Message(u))
    BY <1>1, MessagesSame
  <2> QED
    BY <1>1, <1>2, <2>1, <2>2 DEF LineType
<1> QED
  BY <1>1, <1>3, FramesSame

\* ReadFrame
LEMMA ReadKeeps ==
  ASSUME LineType, OpenFrames, ReadFrame
  PROVE  LineType' /\ OpenFrames'
<1>1. /\ UNCHANGED <<scenario, todo, rest, lost>>
      /\ begun' = begun /\ mixed' = mixed /\ together' = together
      /\ Len(line) >= FrameLen
      /\ received' = Append(received, Decode(SubSeq(line, 1, FrameLen)))
      /\ line' = SubSeq(line, FrameLen + 1, Len(line))
  BY DEF ReadFrame, history
<1>2. line \in Seq(Byte) /\ Len(line) \in Nat /\ FrameLen \in Nat
  BY Lengths, LenProperties DEF LineType
<1>3. \A j \in 1..Len(line) : line[j] \in Byte
  BY <1>2, ElementOfSeq
<1>4. SubSeq(line, 1, FrameLen) \in Seq(Byte)
  BY <1>1, <1>2, <1>3, SubSeqProperties
<1>5. line' \in Seq(Byte)
  BY <1>1, <1>2, <1>3, SubSeqProperties
<1>6. received' \in Seq(Readings)
  BY <1>1, <1>4, AppendProperties DEF LineType, Readings
<1>7. LineType'
  BY <1>1, <1>5, <1>6, MessagesSame DEF LineType
<1> QED
  BY <1>1, <1>7, FramesSame

-----------------------------------------------------------------------------
(* How many bytes were written *)

\* The bytes that writers with the rests r have still to write, by number.
Remaining(r) == {x \in Writers \X (1..FrameLen) : x[2] =< Len(r[x[1]])}

LEMMA UpTo == ASSUME NEW n \in Nat PROVE IsFiniteSet(1..n) /\ Cardinality(1..n) = n
<1>1. 1 \in Int /\ n \in Int /\ (1 > n => n = 0)
  OBVIOUS
<1>2. IsFiniteSet(1..n) /\ Cardinality(1..n) = IF 1 > n THEN 0 ELSE n - 1 + 1
  BY <1>1, FS_Interval
<1>3. (IF 1 > n THEN 0 ELSE n - 1 + 1) = n
  BY <1>1
<1> QED
  BY <1>2, <1>3

LEMMA RemainingFinite == \A r : IsFiniteSet(Remaining(r)) /\ Cardinality(Remaining(r)) \in Nat
<1>1. IsFiniteSet(1..FrameLen) /\ IsFiniteSet(Writers)
  BY Lengths, SerialLineAssumption, UpTo
<1>2. IsFiniteSet(Writers \X (1..FrameLen))
  BY <1>1, FS_Product
<1> QED
  BY <1>2, FS_Subset, FS_CardinalityType DEF Remaining

LEMMA RemainingOf ==
  ASSUME NEW r \in [Writers -> Seq(Byte)], NEW w \in Writers, Len(r[w]) =< FrameLen
  PROVE  LET O == {x \in Remaining(r) : x[1] # w}
         IN  /\ Cardinality(O) \in Nat
             /\ Cardinality(Remaining(r)) = Cardinality(O) + Len(r[w])
<1> DEFINE O == {x \in Remaining(r) : x[1] # w}
           P == {w} \X (1..Len(r[w]))
<1>1. FrameLen \in Nat /\ Len(r[w]) \in Nat
  BY Lengths, LenProperties
<1>2. IsFiniteSet(Remaining(r))
  BY RemainingFinite
<1>3. IsFiniteSet(O) /\ Cardinality(O) \in Nat
  BY <1>2, FS_Subset, FS_CardinalityType
<1>4. IsFiniteSet(P) /\ Cardinality(P) = Len(r[w])
  <2>1. IsFiniteSet(1..Len(r[w])) /\ Cardinality(1..Len(r[w])) = Len(r[w])
    BY <1>1, UpTo
  <2>2. IsFiniteSet({w}) /\ Cardinality({w}) = 1
    BY FS_Singleton
  <2>3. IsFiniteSet(P) /\ Cardinality(P) = Cardinality({w}) * Cardinality(1..Len(r[w]))
    BY <2>1, <2>2, FS_Product
  <2> QED
    BY <2>1, <2>2, <2>3, <1>1
<1>5. Remaining(r) = O \union P
  <2>1. ASSUME NEW j \in 1..Len(r[w]) PROVE <<w, j>> \in Remaining(r)
    <3>1. j \in 1..FrameLen
      BY <1>1
    <3> QED
      BY <3>1 DEF Remaining
  <2>2. ASSUME NEW x \in Remaining(r), x[1] = w PROVE x \in P
    <3>1. x \in Writers \X (1..FrameLen) /\ x[2] =< Len(r[w])
      BY <2>2 DEF Remaining
    <3>2. x = <<w, x[2]>> /\ x[2] \in 1..Len(r[w])
      BY <2>2, <3>1, <1>1
    <3> QED
      BY <3>2
  <2> QED
    BY <2>1, <2>2
<1>6. O \cap P = {}
  OBVIOUS
<1> HIDE DEF O, P
<1>7. Cardinality(Remaining(r)) = Cardinality(O) + Cardinality(P) - Cardinality({})
  BY <1>3, <1>4, <1>5, <1>6, FS_Union
<1>8. Cardinality(Remaining(r)) = Cardinality(O) + Len(r[w])
  BY <1>3, <1>4, <1>7, <1>1, FS_EmptySet
<1> QED
  BY <1>3, <1>8 DEF O

LEMMA RemainingAfter ==
  ASSUME NEW r \in [Writers -> Seq(Byte)], NEW s \in [Writers -> Seq(Byte)],
         NEW w \in Writers, Len(r[w]) =< FrameLen, Len(s[w]) =< FrameLen,
         \A u \in Writers : u # w => s[u] = r[u]
  PROVE  /\ Cardinality(Remaining(r)) \in Nat
         /\ Cardinality(Remaining(s)) + Len(r[w]) = Cardinality(Remaining(r)) + Len(s[w])
<1> DEFINE O == {x \in Remaining(r) : x[1] # w}
           Q == {x \in Remaining(s) : x[1] # w}
<1>1. O = Q
  BY DEF Remaining
<1>2. Cardinality(O) \in Nat /\ Cardinality(Remaining(r)) = Cardinality(O) + Len(r[w])
  BY RemainingOf
<1>3. Cardinality(Q) \in Nat /\ Cardinality(Remaining(s)) = Cardinality(Q) + Len(s[w])
  BY RemainingOf
<1>4. Len(r[w]) \in Nat /\ Len(s[w]) \in Nat
  BY LenProperties
<1> HIDE DEF O, Q
<1> QED
  BY ONLY <1>1, <1>2, <1>3, <1>4

\* What is left when at most one writer is in the middle of a frame.
LEMMA RemainingAlone ==
  ASSUME LineType
  PROVE  /\ Cardinality(Remaining(rest)) \in Nat
         /\ Midway = {} => Cardinality(Remaining(rest)) = 0
         /\ \A w \in Writers : Midway = {w} /\ Len(rest[w]) =< FrameLen
                                 => Cardinality(Remaining(rest)) = Len(rest[w])
<1>1. \A u \in Writers : u \notin Midway => rest[u] = <<>> /\ Len(rest[u]) = 0
  BY EmptySeq DEF Midway
<1>2. ASSUME Midway = {} PROVE Cardinality(Remaining(rest)) = 0
  <2>1. Remaining(rest) = {}
    BY <1>1, <1>2, Lengths DEF Remaining
  <2> QED
    BY <2>1, FS_EmptySet
<1>3. ASSUME NEW w \in Writers, Midway = {w}, Len(rest[w]) =< FrameLen
      PROVE  Cardinality(Remaining(rest)) = Len(rest[w])
  <2> DEFINE O == {x \in Remaining(rest) : x[1] # w}
  <2>1. Cardinality(Remaining(rest)) = Cardinality(O) + Len(rest[w])
    BY <1>3, RemainingOf DEF LineType
  <2>2. O = {}
    BY <1>1, <1>3, Lengths DEF Remaining
  <2>3. Cardinality(O) = 0
    BY <2>2, FS_EmptySet
  <2>4. Len(rest[w]) \in Nat
    BY LenProperties DEF LineType
  <2> HIDE DEF O
  <2> QED
    BY <2>1, <2>3, <2>4
<1>4. Cardinality(Remaining(rest)) \in Nat
  BY RemainingFinite
<1> QED
  BY <1>2, <1>3, <1>4

\* All that was written and all that is left is whole frames.
Counted(str) ==
  /\ str \in Seq(Byte)
  /\ Len(str) + Cardinality(Remaining(rest)) = FrameLen * Len(begun)

\* t is s and k bytes of f that follow the first v of it.
Extends(s, t, f, v, k) ==
  /\ t \in Seq(Byte) /\ Len(s) \in Nat /\ Len(t) = Len(s) + k
  /\ \A q \in 1..Len(s) : t[q] = s[q]
  /\ \A q \in 1..k : t[Len(s) + q] = f[v + q]

\* A writer's step, for the sequence of all the bytes written.
LEMMA StreamAfter ==
  ASSUME NEW w, NEW f, NEW v, NEW k, NEW x, Writes(w, f, v, k, x), NEW str \in Seq(Byte)
  PROVE  Extends(str, str \o x, f, v, k)
<1> DEFINE t == str \o x
<1>1. /\ x \in Seq(Byte) /\ Len(x) = k /\ k \in Nat /\ Len(str) \in Nat
      /\ \A q \in 1..k : x[q] = f[v + q]
  BY LenProperties, Lengths DEF Writes
<1>2. /\ t \in Seq(Byte) /\ Len(t) = Len(str) + Len(x)
      /\ \A i \in 1..(Len(str) + Len(x)) : t[i] = IF i =< Len(str) THEN str[i] ELSE x[i - Len(str)]
  BY <1>1, ConcatProperties
<1> HIDE DEF t
<1>3. ASSUME NEW q \in 1..Len(str) PROVE t[q] = str[q]
  <2>1. q \in 1..(Len(str) + Len(x)) /\ q =< Len(str)
    BY <1>1
  <2> QED
    BY <2>1, <1>2
<1>4. ASSUME NEW q \in 1..k PROVE t[Len(str) + q] = f[v + q]
  <2>1. /\ Len(str) + q \in 1..(Len(str) + Len(x)) /\ ~(Len(str) + q =< Len(str))
        /\ (Len(str) + q) - Len(str) = q
    BY <1>1
  <2> QED
    BY <2>1, <1>1, <1>2
<1>5. Extends(str, t, f, v, k)
  BY <1>1, <1>2, <1>3, <1>4 DEF Extends
<1> QED
  BY <1>5 DEF t

LEMMA BeginCounts ==
  ASSUME LineType, NEW str, Counted(str), NEW w \in Writers, rest[w] = <<>>,
         NEW m \in Sent(scenario), NEW k, NEW x, Writes(w, FrameOf(m), 0, k, x),
         begun' = Append(begun, [by |-> w, msg |-> m])
  PROVE  Counted(str \o x)'
<1> DEFINE f == FrameOf(m)
<1>1. /\ Len(begun) \in Nat /\ Len(begun') = Len(begun) + 1
  BY BegunAfter
<1>2. /\ rest' \in [Writers -> Seq(Byte)] /\ rest \in [Writers -> Seq(Byte)]
      /\ Len(rest'[w]) = FrameLen - (0 + k)
      /\ \A u \in Writers : u # w => rest'[u] = rest[u]
  <2>1. rest \in [Writers -> Seq(Byte)]
    BY DEF LineType
  <2>2. /\ rest' \in [Writers -> Seq(Byte)]
        /\ Len(rest'[w]) = FrameLen - (0 + k)
        /\ \A u \in Writers : u # w => rest'[u] = rest[u]
    BY RestAfter
  <2> QED
    BY ONLY <2>1, <2>2
<1>3. str \o x \in Seq(Byte) /\ Len(str \o x) = Len(str) + k
  BY StreamAfter DEF Counted, Extends
<1>4. FrameLen \in Nat /\ k \in Nat /\ k =< FrameLen /\ Len(rest[w]) = 0 /\ Len(str) \in Nat
  BY Lengths, LenProperties, EmptySeq DEF Writes, Counted
<1>5. /\ Cardinality(Remaining(rest)) \in Nat
      /\ Cardinality(Remaining(rest')) + Len(rest[w]) = Cardinality(Remaining(rest)) + Len(rest'[w])
  <2>1. Len(rest[w]) =< FrameLen
    BY ONLY <1>4
  <2>2. Len(rest'[w]) =< FrameLen
    <3>1. Len(rest'[w]) = FrameLen - (0 + k)
      BY <1>2
    <3> QED
      BY ONLY <3>1, <1>4
  <2> QED
    BY ONLY <2>1, <2>2, <1>2, w \in Writers, RemainingAfter, RemainingFinite
<1>6. FrameLen * (Len(begun) + 1) = FrameLen * Len(begun) + FrameLen /\ FrameLen * Len(begun) \in Nat
  BY ONLY <1>1, Lengths, Multiples
<1>7. Len(str) + Cardinality(Remaining(rest)) = FrameLen * Len(begun)
  BY DEF Counted
<1>8. Cardinality(Remaining(rest')) = Cardinality(Remaining(rest)) + FrameLen - k
  <2>1. Len(rest'[w]) = FrameLen - (0 + k)
    BY <1>2
  <2>2. Cardinality(Remaining(rest')) \in Nat
    BY RemainingFinite
  <2> QED
    BY ONLY <2>1, <2>2, <1>4, <1>5
<1>9. Len(str \o x) + Cardinality(Remaining(rest')) = FrameLen * Len(begun')
  <2>1. FrameLen * Len(begun') = FrameLen * Len(begun) + FrameLen
    BY <1>1, <1>6
  <2>2. Cardinality(Remaining(rest)) \in Nat
    BY <1>5
  <2> QED
    BY ONLY <2>1, <2>2, <1>3, <1>4, <1>6, <1>7, <1>8
<1> QED
  BY <1>3, <1>9 DEF Counted, Remaining

LEMMA ContinueCounts ==
  ASSUME LineType, NEW str, Counted(str), NEW w \in Writers, NEW f, NEW v, NEW k, NEW x,
         Writes(w, f, v, k, x), Len(rest[w]) = FrameLen - v, begun' = begun
  PROVE  Counted(str \o x)'
<1>2. /\ rest' \in [Writers -> Seq(Byte)] /\ rest \in [Writers -> Seq(Byte)]
      /\ Len(rest'[w]) = FrameLen - (v + k)
      /\ \A u \in Writers : u # w => rest'[u] = rest[u]
  BY RestAfter DEF LineType
<1>3. str \o x \in Seq(Byte) /\ Len(str \o x) = Len(str) + k
  BY StreamAfter DEF Counted, Extends
<1>4. FrameLen \in Nat /\ k \in Nat /\ v \in Nat /\ v + k =< FrameLen /\ Len(str) \in Nat
  BY Lengths, LenProperties DEF Writes, Counted
<1>5. /\ Cardinality(Remaining(rest)) \in Nat
      /\ Cardinality(Remaining(rest')) + Len(rest[w]) = Cardinality(Remaining(rest)) + Len(rest'[w])
  <2>1. Len(rest[w]) =< FrameLen /\ Len(rest'[w]) =< FrameLen
    BY ONLY <1>2, <1>4, Len(rest[w]) = FrameLen - v
  <2> QED
    BY <1>2, <2>1, RemainingAfter
<1>7. Len(str) + Cardinality(Remaining(rest)) = FrameLen * Len(begun)
  BY DEF Counted
<1>8. Len(str) + Cardinality(Remaining(rest)) = Len(str \o x) + Cardinality(Remaining(rest'))
  <2>1. Cardinality(Remaining(rest')) = Cardinality(Remaining(rest)) - k
    <3>1. Len(rest'[w]) = FrameLen - (v + k)
      BY <1>2
    <3>2. Cardinality(Remaining(rest')) \in Nat
      BY RemainingFinite
    <3> QED
      BY ONLY <3>1, <3>2, <1>4, <1>5, Len(rest[w]) = FrameLen - v
  <2> QED
    BY ONLY <2>1, <1>3, <1>4, <1>5
<1>9. Len(str \o x) + Cardinality(Remaining(rest')) = FrameLen * Len(begun')
  BY <1>7, <1>8
<1> QED
  BY <1>3, <1>9 DEF Counted, Remaining

-----------------------------------------------------------------------------
(* Frames that are written while no other is *)

\* As far as block i is written it has the bytes of f.
Placed(s, i, f) ==
  \A q \in 1..FrameLen : FrameLen * (i - 1) + q =< Len(s) => s[FrameLen * (i - 1) + q] = f[q]

AlonePlaced(str) ==
  /\ \A i \in (1..Len(begun)) \ mixed :
       /\ Placed(str, i, FrameOf(Message(i)))
       /\ (\A u \in Midway : Open(u) # i) => FrameLen * i =< Len(str)
  /\ \A w \in Midway : Open(w) \notin mixed => Open(w) = Len(begun) /\ Midway = {w}

\* A full block stays as it is.
LEMMA PlacedKept ==
  ASSUME NEW s \in Seq(Byte), NEW t \in Seq(Byte), NEW k \in Nat, Len(t) = Len(s) + k,
         \A q \in 1..Len(s) : t[q] = s[q],
         NEW i \in Nat, i > 0, FrameLen * i =< Len(s), NEW f, Placed(s, i, f)
  PROVE  Placed(t, i, f) /\ FrameLen * i =< Len(t)
<1>1. /\ FrameLen * (i - 1) \in Nat /\ FrameLen * i = FrameLen * (i - 1) + FrameLen
      /\ FrameLen \in Nat /\ Len(s) \in Nat
  <2>1. i - 1 \in Nat /\ (i - 1) + 1 = i
    OBVIOUS
  <2> QED
    BY <2>1, Lengths, LenProperties, Multiples
<1> DEFINE p == FrameLen * (i - 1)
<1>2. p \in Nat /\ p + FrameLen =< Len(s)
  BY <1>1
<1>3. Placed(s, i, f) <=> \A q \in 1..FrameLen : p + q =< Len(s) => s[p + q] = f[q]
  BY DEF Placed
<1>4. Placed(t, i, f) <=> \A q \in 1..FrameLen : p + q =< Len(t) => t[p + q] = f[q]
  BY DEF Placed
<1> HIDE DEF p
<1>5. ASSUME NEW q \in 1..FrameLen PROVE t[p + q] = f[q]
  <2>1. p + q \in 1..Len(s) /\ p + q =< Len(s)
    BY <1>1, <1>2
  <2> QED
    BY <2>1, <1>3
<1>6. FrameLen * i =< Len(t)
  BY ONLY <1>1, FrameLen * i =< Len(s), Len(t) = Len(s) + k, k \in Nat
<1> QED
  BY <1>4, <1>5, <1>6

\* A block of which v bytes are written grows by k bytes.
LEMMA PlacedGrows ==
  ASSUME NEW s \in Seq(Byte), NEW t \in Seq(Byte), NEW k \in Nat, Len(t) = Len(s) + k,
         \A q \in 1..Len(s) : t[q] = s[q],
         NEW i \in Nat, i > 0, NEW f, Placed(s, i, f), NEW v \in Nat,
         Len(s) = FrameLen * (i - 1) + v,
         \A q \in 1..k : t[Len(s) + q] = f[v + q]
  PROVE  Placed(t, i, f)
<1> DEFINE p == FrameLen * (i - 1)
<1>1. p \in Nat /\ FrameLen \in Nat
  BY Lengths, Multiples
<1>2. Len(s) = p + v
  OBVIOUS
<1>3. Placed(s, i, f) <=> \A q \in 1..FrameLen : p + q =< Len(s) => s[p + q] = f[q]
  BY DEF Placed
<1>4. Placed(t, i, f) <=> \A q \in 1..FrameLen : p + q =< Len(t) => t[p + q] = f[q]
  BY DEF Placed
<1> HIDE DEF p
<1>5. ASSUME NEW q \in 1..FrameLen, p + q =< Len(t) PROVE t[p + q] = f[q]
  <2>1. CASE q =< v
    <3>1. p + q \in 1..Len(s) /\ p + q =< Len(s)
      BY <2>1, <1>1, <1>2
    <3> QED
      BY <3>1, <1>3
  <2>2. CASE q > v
    <3>1. q - v \in 1..k /\ Len(s) + (q - v) = p + q /\ v + (q - v) = q
      BY <2>2, <1>1, <1>2, <1>5
    <3> QED
      BY <3>1
  <2> QED
    BY <2>1, <2>2
<1> QED
  BY <1>4, <1>5

LEMMA BeginPlaced ==
  ASSUME LineType, OpenFrames, NEW str, Counted(str), AlonePlaced(str),
         NEW w \in Writers, rest[w] = <<>>,
         NEW m \in Sent(scenario), NEW k, NEW x, Writes(w, FrameOf(m), 0, k, x),
         begun' = Append(begun, [by |-> w, msg |-> m]),
         mixed' = IF Midway = {} THEN mixed
                  ELSE mixed \union {Open(v) : v \in Midway} \union {Len(begun) + 1}
  PROVE  AlonePlaced(str \o x)'
<1> DEFINE n == Len(begun)
           f == FrameOf(m)
           t == str \o x
<1>1. /\ n \in Nat /\ Len(begun') = n + 1
      /\ \A i \in 1..n : FrameOf(Message(i))' = FrameOf(Message(i))
      /\ \A i : i = n + 1 => FrameOf(Message(i))' = f
      /\ \A v : Open(v)' = IF w = v THEN n + 1 ELSE Open(v)
  BY BegunAfter
<1>2. /\ 0 + k < FrameLen => Midway' = Midway \union {w}
      /\ 0 + k = FrameLen => Midway' = Midway \ {w}
  BY RestAfter
<1>3. /\ str \in Seq(Byte) /\ t \in Seq(Byte) /\ Len(t) = Len(str) + k
      /\ \A q \in 1..Len(str) : t[q] = str[q]
      /\ \A q \in 1..k : t[Len(str) + q] = f[0 + q]
      /\ Len(str) \in Nat
  <2>1. str \in Seq(Byte) /\ Extends(str, t, f, 0, k)
    BY StreamAfter DEF Counted
  <2> HIDE DEF t, f
  <2> QED
    BY <2>1 DEF Extends
<1>4. FrameLen \in Nat /\ FrameLen > 10 /\ k \in Nat /\ k =< FrameLen /\ k > 0
  BY Lengths DEF Writes
<1>5. w \notin Midway /\ \A u \in Midway : Open(u) \in 1..n
  BY DEF Midway, OpenFrames
<1> HIDE DEF n, f, t
<1>6. 1..Len(begun') = (1..n) \union {n + 1} /\ n + 1 \notin 1..n
  BY <1>1
<1>7. Midway' \subseteq Midway \union {w}
  BY <1>2, <1>4
\* Frames that are not mixed and not open are full blocks, and stay so.
<1>8. ASSUME NEW i \in 1..n, i \notin mixed, \A u \in Midway : Open(u) # i
      PROVE  Placed(t, i, FrameOf(Message(i))') /\ FrameLen * i =< Len(t)
  <2>1. Placed(str, i, FrameOf(Message(i))) /\ FrameLen * i =< Len(str)
    BY <1>8 DEF AlonePlaced, n
  <2>2. i \in Nat /\ i > 0 /\ FrameOf(Message(i))' = FrameOf(Message(i))
    BY <1>1
  <2> QED
    BY <2>1, <2>2, <1>3, <1>4, PlacedKept
<1>9. CASE Midway = {}
  <2>1. mixed' = mixed
    BY <1>9
  <2>2. Len(str) = FrameLen * n
    <3>1. Cardinality(Remaining(rest)) = 0
      BY <1>9, RemainingAlone
    <3>2. Len(str) + 0 = FrameLen * n
      BY <3>1 DEF Counted, n
    <3> QED
      BY ONLY <3>2, <1>3
  <2>3. FrameLen * ((n + 1) - 1) = FrameLen * n /\ FrameLen * (n + 1) = FrameLen * n + FrameLen
        /\ FrameLen * n \in Nat
    BY <1>1, <1>4, Multiples
  <2>4. Placed(t, n + 1, f)
    <3>1. Placed(str, n + 1, f)
      <4>1. \A q \in 1..FrameLen : ~(FrameLen * n + q =< Len(str))
        BY ONLY <2>2, <2>3, <1>4
      <4> QED
        BY <4>1, <2>3 DEF Placed
    <3>2. Len(str) = FrameLen * ((n + 1) - 1) + 0 /\ n + 1 \in Nat /\ n + 1 > 0
      BY <1>1, <2>2, <2>3
    <3> QED
      BY ONLY <3>1, <3>2, <1>3, <1>4, PlacedGrows, 0 \in Nat
  <2>5. ASSUME NEW i \in (1..Len(begun')) \ mixed'
        PROVE  /\ Placed(t, i, FrameOf(Message(i))')
               /\ (\A u \in Midway' : Open(u)' # i) => FrameLen * i =< Len(t)
    <3>1. CASE i \in 1..n
      BY <3>1, <2>1, <2>5, <1>8, <1>9
    <3>2. CASE i = n + 1
      <4>0. FrameOf(Message(i))' = f
        BY <1>1, <3>2
      <4>1. (\A u \in Midway' : Open(u)' # n + 1) => FrameLen * (n + 1) =< Len(t)
        <5>1. CASE k < FrameLen
          <6>1. w \in Midway' /\ Open(w)' = n + 1
            BY <5>1, <1>1, <1>2, <1>4
          <6> QED
            BY <6>1
        <5>2. CASE k = FrameLen
          <6>1. Len(t) = FrameLen * (n + 1)
            BY ONLY <5>2, <1>3, <1>4, <2>2, <2>3
          <6> QED
            BY <6>1, <2>3, <1>3, <1>4
        <5> QED
          BY <5>1, <5>2, <1>4
      <4> QED
        BY <4>1, <3>2, <2>4, <4>0
    <3> QED
      BY <3>1, <3>2, <1>6
  <2>6. ASSUME NEW u \in Midway' PROVE Open(u)' = Len(begun') /\ Midway' = {u}
    BY <1>1, <1>2, <1>4, <1>9
  <2> QED
    BY <2>5, <2>6 DEF AlonePlaced, t
<1>10. CASE Midway # {}
  <2>1. mixed' = mixed \union {Open(v) : v \in Midway} \union {n + 1}
    BY <1>10 DEF n
  <2>2. ASSUME NEW i \in (1..Len(begun')) \ mixed'
        PROVE  /\ Placed(t, i, FrameOf(Message(i))')
               /\ (\A u \in Midway' : Open(u)' # i) => FrameLen * i =< Len(t)
    <3>1. i \in 1..n /\ i \notin mixed /\ \A u \in Midway : Open(u) # i
      BY <2>1, <2>2, <1>6
    <3> QED
      BY <3>1, <1>8
  <2>3. \A u \in Midway' : Open(u)' \in mixed'
    BY <2>1, <1>1, <1>5, <1>7
  <2> QED
    BY <2>2, <2>3 DEF AlonePlaced, t
<1> QED
  BY <1>9, <1>10

LEMMA ContinuePlaced ==
  ASSUME LineType, OpenFrames, NEW str, Counted(str), AlonePlaced(str),
         NEW w \in Writers, w \in Midway, NEW k, NEW x,
         Writes(w, FrameOf(Message(Open(w))), Written(w), k, x),
         begun' = begun, mixed' = mixed
  PROVE  AlonePlaced(str \o x)'
<1> DEFINE n == Len(begun)
           o == Open(w)
           f == FrameOf(Message(o))
           v == Written(w)
           t == str \o x
<1>1. /\ \A u : Open(u)' = Open(u)
      /\ \A i : FrameOf(Message(i))' = FrameOf(Message(i))
  BY MessagesSame
<1>2. /\ v + k < FrameLen => Midway' = Midway \union {w}
      /\ v + k = FrameLen => Midway' = Midway \ {w}
  BY RestAfter
<1>3. /\ str \in Seq(Byte) /\ t \in Seq(Byte) /\ Len(t) = Len(str) + k
      /\ \A q \in 1..Len(str) : t[q] = str[q]
      /\ \A q \in 1..k : t[Len(str) + q] = f[v + q]
      /\ Len(str) \in Nat
  <2>1. str \in Seq(Byte) /\ Extends(str, t, f, v, k)
    BY StreamAfter DEF Counted
  <2> HIDE DEF t, f, v
  <2> QED
    BY <2>1 DEF Extends
<1>4. /\ FrameLen \in Nat /\ FrameLen > 10 /\ k \in Nat /\ k > 0 /\ v \in Nat /\ v + k =< FrameLen
      /\ n \in Nat
  BY Lengths, LenProperties DEF Writes, LineType
<1>5. /\ o \in 1..n /\ Len(rest[w]) \in 1..(FrameLen - 1) /\ Len(rest[w]) = FrameLen - v
  <2>1. o \in 1..n /\ Len(rest[w]) \in 1..(FrameLen - 1)
    BY DEF OpenFrames
  <2>2. v = FrameLen - Len(rest[w])
    BY DEF Written
  <2> HIDE DEF v
  <2> QED
    BY <2>1, <2>2, <1>4
<1> HIDE DEF n, f, t, v
<1>6. Midway' \subseteq Midway
  BY <1>2, <1>4
\* Frames that are not mixed and not open are full blocks, and stay so.
<1>7. ASSUME NEW i \in 1..n, i \notin mixed, \A u \in Midway : Open(u) # i
      PROVE  Placed(t, i, FrameOf(Message(i))') /\ FrameLen * i =< Len(t)
  <2>1. Placed(str, i, FrameOf(Message(i))) /\ FrameLen * i =< Len(str)
    BY <1>7 DEF AlonePlaced, n
  <2>2. i \in Nat /\ i > 0 /\ FrameOf(Message(i))' = FrameOf(Message(i))
    BY <1>1
  <2> QED
    BY <2>1, <2>2, <1>3, <1>4, PlacedKept
<1>8. CASE o \notin mixed
  <2>1. o = n /\ Midway = {w}
    BY <1>8 DEF AlonePlaced, n
  <2>2. n \in 1..n /\ n - 1 \in Nat /\ (n - 1) + 1 = n /\ n > 0
    BY <1>4, <1>5, <2>1
  <2>3. /\ FrameLen * n = FrameLen * (n - 1) + FrameLen /\ FrameLen * n \in Nat
        /\ FrameLen * (n - 1) \in Nat
    BY ONLY <1>4, <2>2, Multiples
  <2>4. Len(str) = FrameLen * (n - 1) + v
    <3>1. Cardinality(Remaining(rest)) = Len(rest[w])
      <4>1. Len(rest[w]) =< FrameLen
        BY <1>4, <1>5
      <4> QED
        BY <4>1, <2>1, RemainingAlone
    <3>2. Len(str) + Len(rest[w]) = FrameLen * n
      BY <3>1 DEF Counted, n
    <3> QED
      BY ONLY <3>2, <1>3, <1>4, <1>5, <2>3
  <2>5. Placed(t, n, f)
    <3>1. Placed(str, n, f)
      BY <1>8, <2>1, <2>2 DEF AlonePlaced, n, f
    <3> QED
      BY ONLY <3>1, <2>2, <2>4, <1>3, <1>4, PlacedGrows
  <2>6. ASSUME NEW i \in (1..Len(begun')) \ mixed'
        PROVE  /\ Placed(t, i, FrameOf(Message(i))')
               /\ (\A u \in Midway' : Open(u)' # i) => FrameLen * i =< Len(t)
    <3>1. i \in 1..n /\ i \notin mixed
      BY <2>6 DEF n
    <3>2. CASE i # n
      <4>1. \A u \in Midway : Open(u) # i
        BY <3>2, <2>1
      <4> QED
        BY <3>1, <4>1, <1>7
    <3>3. CASE i = n
      <4>1. FrameOf(Message(i))' = f
        BY <1>1, <2>1, <3>3 DEF f
      <4>2. CASE v + k < FrameLen
        <5>1. w \in Midway' /\ Open(w)' = i
          BY <4>2, <1>1, <1>2, <2>1, <3>3
        <5> QED
          BY <5>1, <4>1, <2>5, <3>3
      <4>3. CASE v + k = FrameLen
        <5>1. FrameLen * n =< Len(t)
          BY ONLY <4>3, <2>3, <2>4, <1>3, <1>4
        <5> QED
          BY <5>1, <4>1, <2>5, <3>3
      <4> QED
        BY <4>2, <4>3, <1>4
    <3> QED
      BY <3>2, <3>3
  <2>7. ASSUME NEW u \in Midway' PROVE Open(u)' = Len(begun') /\ Midway' = {u}
    <3>1. u = w /\ Midway' = {w}
      BY <2>1, <2>7, <1>6
    <3> QED
      BY <3>1, <2>1, <1>1 DEF n
  <2> QED
    BY <2>6, <2>7 DEF AlonePlaced, t
<1>9. CASE o \in mixed
  <2>1. ASSUME NEW i \in (1..Len(begun')) \ mixed'
        PROVE  /\ Placed(t, i, FrameOf(Message(i))')
               /\ (\A u \in Midway' : Open(u)' # i) => FrameLen * i =< Len(t)
    <3>1. i \in 1..n /\ i \notin mixed
      BY <2>1 DEF n
    <3>2. ASSUME NEW u \in Midway, Open(u) = i PROVE FALSE
      <4>1. Midway = {u}
        BY <3>1, <3>2 DEF AlonePlaced
      <4> QED
        BY <4>1, <3>1, <3>2, <1>9
    <3> QED
      BY <3>1, <3>2, <1>7
  <2>2. ASSUME NEW u \in Midway', Open(u)' \notin mixed' PROVE FALSE
    <3>1. u \in Midway /\ Open(u) \notin mixed
      BY <2>2, <1>1, <1>6
    <3>2. Midway = {u}
      BY <3>1 DEF AlonePlaced
    <3> QED
      BY <3>1, <3>2, <1>9
  <2> QED
    BY <2>1, <2>2 DEF AlonePlaced, t
<1> QED
  BY <1>8, <1>9

-----------------------------------------------------------------------------
(* Frames that tear each other *)

FramesOut == {FrameOf(Message(i)) : i \in 1..Len(begun)}

\* Writer w has written the first v bytes of the frame f.
Holds(w, f, v) == f = FrameOf(Message(Open(w))) /\ v = Written(w)

\* Who writes the v bytes of f and the z bytes of g.
Shares(f, v, g, z) ==
  \/ Midway = {} /\ v = 0 /\ z = 0
  \/ z = 0 /\ \E w \in Writers : Midway = {w} /\ Holds(w, f, v)
  \/ \E w, u \in Writers : w # u /\ Midway = {w, u} /\ Holds(w, f, v) /\ Holds(u, g, z)

\* While at most two frames are being written, what was written consists of whole
\* frames and two begun ones.
Torn(str) ==
  Unmarked /\ together < 3 =>
    \E p, f, v, g, z : Stream(FramesOut, str, p, f, v, g, z) /\ Shares(f, v, g, z)

\* A new frame, when one other is being written at most.
LEMMA BeginTorn ==
  ASSUME LineType, OpenFrames, NEW str, Torn(str), NEW w \in Writers, rest[w] = <<>>,
         NEW m \in Sent(scenario), FrameOf(m) # <<>>, NEW k, NEW x, Writes(w, FrameOf(m), 0, k, x),
         begun' = Append(begun, [by |-> w, msg |-> m]), LineType',
         together' = IF Cardinality(Midway) + 1 > together
                     THEN Cardinality(Midway) + 1 ELSE together
  PROVE  Torn(str \o x)'
<1> SUFFICES ASSUME Unmarked', together' < 3
             PROVE  \E p, f, v, g, z :
                      Stream(FramesOut', str \o x, p, f, v, g, z) /\ Shares(f, v, g, z)'
  BY DEF Torn
<1> DEFINE n == Len(begun)
           h == FrameOf(m)
           t == str \o x
           F == FramesOut
           G == FramesOut'
<1>1. /\ n \in Nat /\ Len(begun') = n + 1
      /\ \A i \in 1..n : Message(i)' = Message(i) /\ FrameOf(Message(i))' = FrameOf(Message(i))
      /\ \A i : i = n + 1 => FrameOf(Message(i))' = h
      /\ begun'[n + 1].msg = m
      /\ \A u : Open(u)' = IF w = u THEN n + 1 ELSE Open(u)
  BY BegunAfter
<1>2. /\ 0 + k < FrameLen => Midway' = Midway \union {w} /\ Written(w)' = 0 + k
      /\ 0 + k = FrameLen => Midway' = Midway \ {w}
      /\ \A u \in Writers : u # w => Written(u)' = Written(u)
  BY RestAfter
<1>3. w \notin Midway /\ \A u \in Midway : u \in Writers /\ Open(u) \in 1..n
  BY DEF Midway, OpenFrames
<1>4. FrameLen \in Nat /\ FrameLen > 10 /\ k \in Nat /\ k > 0 /\ k =< FrameLen /\ k \in 1..(FrameLen - 0)
  BY Lengths DEF Writes
<1>5. IsFiniteSet(Midway) /\ Cardinality(Midway) \in Nat /\ together \in Nat
  <2>1. Midway \subseteq Writers
    BY DEF Midway
  <2> QED
    BY <2>1, SerialLineAssumption, FS_Subset, FS_CardinalityType DEF LineType
<1>6. Cardinality(Midway) < 2 /\ together < 3
  BY <1>5
<1>7. Unmarked /\ Clean(h)
  <2>1. DOMAIN begun = 1..n /\ DOMAIN begun' = 1..(n + 1)
    BY <1>1, LenProperties DEF LineType
  <2>2. \A i \in 1..(n + 1) : ({START[2], END[1]} \cap ToSet(Payload(Message(i))) = {})'
    BY <2>1 DEF Unmarked
  <2>3. Unmarked
    BY <1>1, <2>1, <2>2 DEF Unmarked
  <2>4. \A i : i = n + 1 => Message(i)' = m
    BY <1>1 DEF Message
  <2>5. {START[2], END[1]} \cap ToSet(Payload(m)) = {}
    <3>1. n + 1 \in 1..(n + 1)
      BY <1>1
    <3>2. PICK i \in 1..(n + 1) : i = n + 1
      BY <3>1
    <3>3. Message(i)' = m
      BY <2>4, <3>2
    <3>4. ({START[2], END[1]} \cap ToSet(Payload(Message(i))) = {})'
      BY <2>2
    <3> QED
      BY <3>3, <3>4
  <2>6. m.cmd \in FILEINFO..RETRANS /\ Payload(m) \in Seq(Byte)
    BY SentFrames DEF LineType
  <2> QED
    BY <2>3, <2>5, <2>6, FrameShape
<1>8. PICK p, f, v, g, z : Stream(F, str, p, f, v, g, z) /\ Shares(f, v, g, z)
  BY <1>6, <1>7 DEF Torn
<1>9. F \subseteq G /\ h \in G
  <2>1. \A i \in 1..n : i \in 1..Len(begun') /\ FrameOf(Message(i)) = FrameOf(Message(i))'
    BY <1>1
  <2>2. ASSUME NEW e \in F PROVE e \in G
    <3>1. PICK i \in 1..n : e = FrameOf(Message(i))
      BY DEF FramesOut
    <3> QED
      BY <2>1, <3>1 DEF FramesOut
  <2>3. h \in G
    <3>1. n + 1 \in 1..Len(begun')
      BY <1>1
    <3>2. PICK i \in 1..Len(begun') : i = n + 1
      BY <3>1
    <3>3. FrameOf(Message(i))' = h
      BY <1>1, <3>2
    <3> QED
      BY <3>3 DEF FramesOut
  <2> HIDE DEF F, G
  <2> QED
    BY <2>2, <2>3
<1>10. Extends(str, t, h, 0, k)
  <2>1. str \in Seq(Byte)
    BY <1>8 DEF Stream
  <2> QED
    BY <2>1, StreamAfter
<1> HIDE DEF n, h, t, F, G
<1>11. t \in Seq(Byte) /\ Len(t) = Len(str) + k
       /\ (\A q \in 1..Len(str) : t[q] = str[q])
       /\ (\A q \in 1..k : t[Len(str) + q] = h[0 + q])
  BY <1>10 DEF Extends
<1>12. ASSUME NEW e, NEW y, Stream(F, str, p, e, 0, e, y) \/ \E c : Stream(F, str, p, c, 0, e, y),
              y > 0 => Clean(e)
       PROVE  /\ 0 + k < FrameLen => Stream(G, t, p, h, 0 + k, e, y)
              /\ 0 + k = FrameLen => Stream(G, t, p + FrameLen, h, 0, e, y)
  <2>1. PICK c : Stream(F, str, p, c, 0, e, y)
    BY <1>12
  <2>2. Stream(G, str, p, h, 0, e, y)
    BY ONLY <2>1, <1>9, StreamFree
  <2> QED
    BY ONLY <2>2, <1>4, <1>7, <1>9, <1>11, <1>12, StreamStep
<1>13. CASE Midway = {} /\ v = 0 /\ z = 0
  <2>1. Stream(F, str, p, f, 0, g, 0)
    BY <1>8, <1>13
  <2>2. /\ 0 + k < FrameLen => Stream(G, t, p, h, 0 + k, g, 0)
        /\ 0 + k = FrameLen => Stream(G, t, p + FrameLen, h, 0, g, 0)
    BY <2>1, <1>12
  <2>3. CASE 0 + k < FrameLen
    <3>1. Shares(h, 0 + k, g, 0)'
      <4>1. Midway' = {w} /\ Holds(w, h, 0 + k)'
        BY <1>1, <1>2, <1>13, <2>3 DEF Holds
      <4> QED
        BY <4>1 DEF Shares
    <3> QED
      BY <2>2, <2>3, <3>1 DEF t, G
  <2>4. CASE 0 + k = FrameLen
    <3>1. Shares(h, 0, g, 0)'
      <4>1. Midway' = {}
        BY <1>2, <1>13, <2>4
      <4> QED
        BY <4>1 DEF Shares
    <3> QED
      BY <2>2, <2>4, <3>1 DEF t, G
  <2> QED
    BY <2>3, <2>4, <1>4
<1>14. ASSUME z = 0, NEW u \in Writers, Midway = {u}, Holds(u, f, v)
       PROVE  \E p1, f1, v1, g1, z1 :
                Stream(G, t, p1, f1, v1, g1, z1) /\ Shares(f1, v1, g1, z1)'
  <2>1. Stream(F, str, p, g, 0, f, v)
    BY ONLY <1>8, <1>14, StreamSwap
  <2>2. Clean(f)
    <3>1. Open(u) \in 1..n
      BY <1>3, <1>14
    <3> QED
      BY <3>1, <1>7, <1>14, BegunFrames DEF Holds, n
  <2>3. /\ 0 + k < FrameLen => Stream(G, t, p, h, 0 + k, f, v)
        /\ 0 + k = FrameLen => Stream(G, t, p + FrameLen, h, 0, f, v)
    BY <2>1, <2>2, <1>12
  <2>4. u # w /\ Holds(u, f, v)'
    <3>1. u # w /\ Open(u) \in 1..n
      BY <1>3, <1>14
    <3>2. Open(u)' = Open(u) /\ Written(u)' = Written(u)
      BY <3>1, <1>1, <1>2
    <3>3. FrameOf(Message(Open(u)))' = FrameOf(Message(Open(u)))
      BY <3>1, <3>2, <1>1 DEF Message
    <3> QED
      BY <3>1, <3>2, <3>3, <1>14 DEF Holds
  <2>5. CASE 0 + k < FrameLen
    <3>1. Shares(h, 0 + k, f, v)'
      <4>1. Midway' = {w, u} /\ Holds(w, h, 0 + k)'
        BY <1>1, <1>2, <1>14, <2>5 DEF Holds
      <4> QED
        BY <4>1, <2>4 DEF Shares
    <3> QED
      BY <2>3, <2>5, <3>1
  <2>6. CASE 0 + k = FrameLen
    <3>1. Shares(f, v, h, 0)'
      <4>1. Midway' = {u}
        BY <1>2, <1>14, <2>4, <2>6
      <4> QED
        BY <4>1, <2>4 DEF Shares
    <3>2. Stream(G, t, p + FrameLen, f, v, h, 0)
      BY ONLY <2>3, <2>6, StreamSwap
    <3> QED
      BY <3>1, <3>2
  <2> QED
    BY <2>5, <2>6, <1>4
<1>15. ASSUME NEW a \in Writers, NEW u \in Writers, a # u, Midway = {a, u}
       PROVE  FALSE
  <2>1. PICK A : A = {a}
    OBVIOUS
  <2>2. IsFiniteSet(A) /\ Cardinality(A) = 1 /\ u \notin A /\ Midway = A \union {u}
    BY <1>15, <2>1, FS_Singleton
  <2>3. Cardinality(Midway) = Cardinality(A) + 1
    BY ONLY <2>2, FS_AddElement
  <2> QED
    BY ONLY <2>2, <2>3, <1>5, <1>6
<1> QED
  BY <1>8, <1>13, <1>14, <1>15 DEF Shares, t, G

\* More of a frame, when at most two are being written.
LEMMA ContinueTorn ==
  ASSUME LineType, OpenFrames, NEW str, Torn(str), NEW w \in Writers, w \in Midway, NEW k, NEW x,
         Writes(w, FrameOf(Message(Open(w))), Written(w), k, x),
         begun' = begun, together' = together
  PROVE  Torn(str \o x)'
<1> SUFFICES ASSUME Unmarked, together < 3
             PROVE  \E p, f, v, g, z :
                      Stream(FramesOut', str \o x, p, f, v, g, z) /\ Shares(f, v, g, z)'
  <2>1. Unmarked' <=> Unmarked
    BY DEF Unmarked, Message
  <2> QED
    BY <2>1 DEF Torn
<1> DEFINE t == str \o x
           F == FramesOut
<1>1. /\ \A u : Open(u)' = Open(u)
      /\ \A i : FrameOf(Message(i))' = FrameOf(Message(i))
      /\ \A u : FrameOf(Message(Open(u)))' = FrameOf(Message(Open(u)))
  BY MessagesSame
<1>2. FramesOut' = F
  BY <1>1 DEF FramesOut
\* The frame of w in the first place.
<1>3. PICK p, f, v, g, z :
        /\ Stream(F, str, p, f, v, g, z) /\ Holds(w, f, v)
        /\ \/ Midway = {w} /\ z = 0
           \/ \E u \in Writers : u # w /\ Midway = {w, u} /\ Holds(u, g, z)
  <2>1. PICK p, f, v, g, z : Stream(F, str, p, f, v, g, z) /\ Shares(f, v, g, z)
    BY DEF Torn
  <2>2. Stream(F, str, p, g, z, f, v)
    BY ONLY <2>1, StreamSwap
  <2> HIDE DEF F
  <2>3. CASE z = 0 /\ \E a \in Writers : Midway = {a} /\ Holds(a, f, v)
    <3>1. Midway = {w} /\ Holds(w, f, v)
      BY <2>3
    <3> QED
      BY <2>1, <2>3, <3>1
  <2>4. CASE \E a, u \in Writers : a # u /\ Midway = {a, u} /\ Holds(a, f, v) /\ Holds(u, g, z)
    <3>1. PICK a \in Writers, u \in Writers : a # u /\ Midway = {a, u} /\ Holds(a, f, v) /\ Holds(u, g, z)
      BY <2>4
    <3>2. CASE w = a
      BY <2>1, <3>1, <3>2
    <3>3. CASE w = u
      <4>1. Midway = {w, a} /\ a # w /\ Holds(w, g, z) /\ Holds(a, f, v)
        BY <3>1, <3>3
      <4> QED
        BY <2>2, <4>1
    <3> QED
      BY <3>1, <3>2, <3>3
  <2> QED
    BY <2>1, <2>3, <2>4 DEF Shares
<1>4. Writes(w, f, v, k, x)
  BY <1>3 DEF Holds
<1>5. /\ v + k < FrameLen => Midway' = Midway \union {w} /\ Written(w)' = v + k
      /\ v + k = FrameLen => Midway' = Midway \ {w}
      /\ \A u \in Writers : u # w => Written(u)' = Written(u)
  BY <1>4, RestAfter
<1>6. v + k =< FrameLen /\ k \in 1..(FrameLen - v) /\ v + k \in Nat /\ FrameLen \in Nat
  <2>1. v \in 0..(FrameLen - 1) /\ k \in 1..(FrameLen - v)
    BY <1>4 DEF Writes
  <2> QED
    BY ONLY <2>1, Lengths
<1>7. \A u \in Midway : Open(u) \in 1..Len(begun)
  BY DEF OpenFrames
<1>8. f \in F /\ Clean(f)
  <2>1. Open(w) \in 1..Len(begun) /\ f = FrameOf(Message(Open(w)))
    BY <1>3, <1>7 DEF Holds
  <2> QED
    BY <2>1, BegunFrames DEF FramesOut
<1>9. z > 0 => Clean(g)
  <2> SUFFICES ASSUME z > 0 PROVE Clean(g)
    OBVIOUS
  <2>1. PICK u \in Writers : u # w /\ Midway = {w, u} /\ Holds(u, g, z)
    BY <1>3
  <2>2. Open(u) \in 1..Len(begun) /\ g = FrameOf(Message(Open(u)))
    BY <2>1, <1>7 DEF Holds
  <2> QED
    BY <2>2, BegunFrames
<1>10. Extends(str, t, f, v, k)
  <2>1. str \in Seq(Byte)
    BY <1>3 DEF Stream
  <2> QED
    BY <1>4, <2>1, StreamAfter
<1> HIDE DEF F, t
<1>11. /\ t \in Seq(Byte) /\ Len(t) = Len(str) + k
       /\ \A q \in 1..Len(str) : t[q] = str[q]
       /\ \A q \in 1..k : t[Len(str) + q] = f[v + q]
  BY <1>10 DEF Extends
<1>12. /\ v + k < FrameLen => Stream(F, t, p, f, v + k, g, z)
       /\ v + k = FrameLen => Stream(F, t, p + FrameLen, f, 0, g, z)
  <2>1. Stream(F, str, p, f, v, g, z)
    BY <1>3
  <2> QED
    BY ONLY <2>1, <1>6, <1>8, <1>9, <1>11, StreamStep
<1>13. \A u \in Writers : u # w /\ Holds(u, g, z) => Holds(u, g, z)'
  BY <1>1, <1>5 DEF Holds
<1>14. CASE v + k < FrameLen
  <2>1. Midway' = Midway
    BY <1>5, <1>14
  <2>2. Holds(w, f, v + k)'
    BY <1>1, <1>3, <1>5, <1>14 DEF Holds
  <2>3. Shares(f, v + k, g, z)'
    <3>1. CASE Midway = {w} /\ z = 0
      BY <2>1, <2>2, <3>1 DEF Shares
    <3>2. CASE \E u \in Writers : u # w /\ Midway = {w, u} /\ Holds(u, g, z)
      <4>1. PICK u \in Writers : u # w /\ Midway = {w, u} /\ Holds(u, g, z)
        BY <3>2
      <4>2. Holds(u, g, z)'
        BY <4>1, <1>13
      <4> QED
        BY <2>1, <2>2, <4>1, <4>2 DEF Shares
    <3> QED
      BY <1>3, <3>1, <3>2
  <2> QED
    BY <1>2, <1>12, <1>14, <2>3 DEF t
<1>15. CASE v + k = FrameLen
  <2>1. Midway' = Midway \ {w}
    BY <1>5, <1>15
  <2>2. Stream(F, t, p + FrameLen, g, z, f, 0)
    BY ONLY <1>12, <1>15, StreamSwap
  <2>3. Shares(g, z, f, 0)'
    <3>1. CASE Midway = {w} /\ z = 0
      BY <2>1, <3>1 DEF Shares
    <3>2. CASE \E u \in Writers : u # w /\ Midway = {w, u} /\ Holds(u, g, z)
      <4>1. PICK u \in Writers : u # w /\ Midway = {w, u} /\ Holds(u, g, z)
        BY <3>2
      <4>2. Holds(u, g, z)' /\ Midway' = {u}
        BY <2>1, <4>1, <1>13
      <4> QED
        BY <4>2 DEF Shares
    <3> QED
      BY <1>3, <3>1, <3>2
  <2> QED
    BY <1>2, <2>2, <2>3 DEF t
<1> QED
  BY <1>6, <1>14, <1>15

-----------------------------------------------------------------------------
(* What the reader takes *)

\* b is the block of s after p bytes.
BlockAt(s, p, b) ==
  b \in Seq(Byte) /\ Len(b) = FrameLen /\ \A q \in 1..FrameLen : b[q] = s[p + q]

\* The bytes that were not lost are those of the blocks read and those on the line.
Reading(seen) ==
  /\ seen \in Seq(Byte) /\ Len(seen) = FrameLen * Len(received) + Len(line)
  /\ \A q \in 1..Len(line) : line[q] = seen[FrameLen * Len(received) + q]
  /\ \A i \in 1..Len(received) :
       \E b : BlockAt(seen, FrameLen * (i - 1), b) /\ received[i] = Decode(b)

\* t is s without its byte d.
Without(t, s, d) ==
  /\ d \in 1..Len(s) /\ Len(t) = Len(s) - 1
  /\ \A q \in 1..Len(t) : t[q] = IF q < d THEN s[q] ELSE s[q + 1]

\* What was written, and what of it was not lost.
Loss(str, seen) ==
  /\ lost = 0 => seen = str
  /\ lost = 1 => \E d : Without(seen, str, d)

LEMMA BlockBounds ==
  ASSUME NEW n \in Nat
  PROVE  /\ FrameLen * n \in Nat
         /\ \A i \in 1..n : \A q \in 1..FrameLen :
              FrameLen * (i - 1) \in Nat /\ FrameLen * (i - 1) + q \in 1..(FrameLen * n)
<1>1. FrameLen * n \in Nat
  BY Lengths, Multiples
<1>2. ASSUME NEW i \in 1..n, NEW q \in 1..FrameLen
      PROVE  FrameLen * (i - 1) \in Nat /\ FrameLen * (i - 1) + q \in 1..(FrameLen * n)
  <2>1. i - 1 \in Nat /\ i - 1 < n
    OBVIOUS
  <2>2. FrameLen * (i - 1) \in Nat /\ FrameLen * (i - 1) + FrameLen =< FrameLen * n
    BY ONLY <2>1, n \in Nat, Lengths, Multiples
  <2> QED
    BY <1>1, <2>2, Lengths
<1> QED
  BY <1>1, <1>2

\* Blocks that were read stay what they are.
LEMMA BlocksKept ==
  ASSUME LineType, NEW s, Reading(s), NEW t \in Seq(Byte), received' = received,
         \A q \in 1..(FrameLen * Len(received)) : t[q] = s[q]
  PROVE  \A i \in 1..Len(received') :
           \E b : BlockAt(t, FrameLen * (i - 1), b) /\ received'[i] = Decode(b)
<1> TAKE i \in 1..Len(received')
<1>1. PICK b : BlockAt(s, FrameLen * (i - 1), b) /\ received[i] = Decode(b)
  BY DEF Reading
<1>2. Len(received) \in Nat /\ i \in 1..Len(received)
  BY LenProperties DEF LineType
<1>3. \A q \in 1..FrameLen : FrameLen * (i - 1) + q \in 1..(FrameLen * Len(received))
  BY <1>2, BlockBounds
<1>4. BlockAt(t, FrameLen * (i - 1), b)
  BY <1>1, <1>3 DEF BlockAt
<1> QED
  BY <1>1, <1>4

LEMMA WriteReads ==
  ASSUME LineType, NEW str \in Seq(Byte), NEW seen, Reading(seen), Loss(str, seen),
         NEW w, NEW f, NEW v, NEW k, NEW x, Writes(w, f, v, k, x),
         received' = received, lost' = lost
  PROVE  Reading(seen \o x)' /\ Loss(str \o x, seen \o x)'
<1> DEFINE R == FrameLen * Len(received)
<1>1. /\ seen \in Seq(Byte) /\ x \in Seq(Byte) /\ line \in Seq(Byte) /\ line' = line \o x
      /\ Len(seen) = R + Len(line) /\ Len(received) \in Nat
  BY LenProperties DEF Reading, Writes, LineType
<1>2. Len(seen) \in Nat /\ Len(x) \in Nat /\ Len(line) \in Nat /\ Len(str) \in Nat /\ R \in Nat
  BY <1>1, LenProperties, BlockBounds
<1>3. /\ seen \o x \in Seq(Byte) /\ Len(seen \o x) = Len(seen) + Len(x)
      /\ \A q \in 1..(Len(seen) + Len(x)) :
           (seen \o x)[q] = IF q =< Len(seen) THEN seen[q] ELSE x[q - Len(seen)]
  BY <1>1, ConcatProperties
<1>4. /\ line \o x \in Seq(Byte) /\ Len(line \o x) = Len(line) + Len(x)
      /\ \A q \in 1..(Len(line) + Len(x)) :
           (line \o x)[q] = IF q =< Len(line) THEN line[q] ELSE x[q - Len(line)]
  BY <1>1, ConcatProperties
<1>5. /\ str \o x \in Seq(Byte) /\ Len(str \o x) = Len(str) + Len(x)
      /\ \A q \in 1..(Len(str) + Len(x)) :
           (str \o x)[q] = IF q =< Len(str) THEN str[q] ELSE x[q - Len(str)]
  BY <1>1, ConcatProperties
<1> DEFINE sx == seen \o x
           lx == line \o x
           tx == str \o x
<1>6. \A q \in 1..Len(line) : line[q] = seen[R + q]
  BY DEF Reading
<1>7. \A i \in 1..Len(received') :
        \E b : BlockAt(sx, FrameLen * (i - 1), b) /\ received'[i] = Decode(b)
  <2>1. ASSUME NEW q \in 1..R PROVE sx[q] = seen[q]
    <3>1. q \in 1..(Len(seen) + Len(x)) /\ q =< Len(seen)
      BY <1>1, <1>2
    <3> QED
      BY <3>1, <1>3
  <2>2. sx \in Seq(Byte)
    BY <1>3
  <2> HIDE DEF sx
  <2> QED
    BY <2>1, <2>2, BlocksKept
<1> HIDE DEF sx, lx, tx, R
<1>8. ASSUME NEW q \in 1..Len(lx) PROVE lx[q] = sx[R + q]
  <2>1. q \in 1..(Len(line) + Len(x)) /\ R + q \in 1..(Len(seen) + Len(x))
    BY <1>1, <1>2, <1>4 DEF lx
  <2>2. CASE q =< Len(line)
    <3>1. lx[q] = line[q] /\ q \in 1..Len(line) /\ R + q =< Len(seen)
      BY <2>1, <2>2, <1>1, <1>2, <1>4 DEF lx
    <3>2. sx[R + q] = seen[R + q]
      BY <2>1, <3>1, <1>3 DEF sx
    <3> QED
      BY <3>1, <3>2, <1>6
  <2>3. CASE q > Len(line)
    <3>1. ~(q =< Len(line)) /\ ~(R + q =< Len(seen)) /\ R + q - Len(seen) = q - Len(line)
      BY <2>1, <2>3, <1>1, <1>2
    <3>2. lx[q] = x[q - Len(line)]
      BY <2>1, <3>1, <1>4 DEF lx
    <3>3. sx[R + q] = x[q - Len(line)]
      <4>1. PICK j : j = R + q
        OBVIOUS
      <4>2. j \in 1..(Len(seen) + Len(x)) /\ ~(j =< Len(seen))
        BY <2>1, <3>1, <4>1
      <4>3. sx[j] = x[j - Len(seen)]
        BY <4>2, <1>3 DEF sx
      <4>4. j - Len(seen) = q - Len(line)
        BY <4>1, <1>1, <1>2
      <4> QED
        BY ONLY <4>1, <4>3, <4>4
    <3> QED
      BY <3>1, <3>2, <3>3
  <2> QED
    BY <2>1, <2>2, <2>3, <1>2
<1>9. Reading(sx)'
  <2>1. Len(sx) = R + Len(lx)
    BY <1>1, <1>2, <1>3, <1>4 DEF sx, lx
  <2>2. line' = lx /\ sx \in Seq(Byte) /\ R = FrameLen * Len(received')
    BY <1>1, <1>3 DEF sx, lx, R
  <2> QED
    BY <2>1, <2>2, <1>7, <1>8 DEF Reading
<1>10. ASSUME lost = 1 PROVE \E d : Without(sx, tx, d)
  <2>1. PICK d : Without(seen, str, d)
    BY <1>10 DEF Loss
  <2>2. /\ d \in 1..Len(str) /\ Len(seen) = Len(str) - 1
        /\ \A q \in 1..Len(seen) : seen[q] = IF q < d THEN str[q] ELSE str[q + 1]
    BY <2>1 DEF Without
  <2>3. d \in 1..Len(tx) /\ Len(tx) = Len(str) + Len(x) /\ Len(sx) = Len(seen) + Len(x)
        /\ Len(sx) = Len(tx) - 1
    BY <2>2, <1>2, <1>3, <1>5 DEF sx, tx
  <2>4. ASSUME NEW q \in 1..Len(sx) PROVE sx[q] = IF q < d THEN tx[q] ELSE tx[q + 1]
    <3>1. q \in 1..(Len(seen) + Len(x)) /\ q \in 1..(Len(str) + Len(x)) /\ q + 1 \in 1..(Len(str) + Len(x))
      BY <2>2, <2>3, <1>2
    <3>2. CASE q =< Len(seen)
      <4>1. q \in 1..Len(seen) /\ q =< Len(str) /\ q + 1 =< Len(str) /\ sx[q] = seen[q]
        BY <2>2, <3>1, <3>2, <1>2, <1>3 DEF sx
      <4>2. tx[q] = str[q] /\ tx[q + 1] = str[q + 1]
        BY <3>1, <4>1, <1>5 DEF tx
      <4> QED
        BY <2>2, <4>1, <4>2
    <3>3. CASE q > Len(seen)
      <4>1. /\ ~(q < d) /\ ~(q =< Len(seen)) /\ ~(q + 1 =< Len(str))
            /\ (q + 1) - Len(str) = q - Len(seen)
        BY <2>2, <3>1, <3>3, <1>2
      <4>2. sx[q] = x[q - Len(seen)]
        BY <3>1, <4>1, <1>3 DEF sx
      <4>3. tx[q + 1] = x[(q + 1) - Len(str)]
        BY <3>1, <4>1, <1>5 DEF tx
      <4> QED
        BY <4>1, <4>2, <4>3
    <3> QED
      BY <3>1, <3>2, <3>3, <1>2
  <2> QED
    BY <2>3, <2>4 DEF Without
<1>11. Loss(tx, sx)'
  <2>1. lost = 0 => sx = tx
    BY DEF Loss, sx, tx
  <2> QED
    BY <2>1, <1>10 DEF Loss
<1> QED
  BY <1>9, <1>11 DEF sx, tx

LEMMA ReadReads ==
  ASSUME LineType, NEW seen, Reading(seen), ReadFrame
  PROVE  Reading(seen)'
<1> DEFINE n == Len(received)
           R == FrameLen * n
           b == SubSeq(line, 1, FrameLen)
           l == SubSeq(line, FrameLen + 1, Len(line))
<1>1. /\ Len(line) >= FrameLen /\ received' = Append(received, Decode(b)) /\ line' = l
      /\ line \in Seq(Byte) /\ Len(line) \in Nat /\ FrameLen \in Nat /\ FrameLen > 10 /\ n \in Nat
      /\ received \in Seq(Readings)
  BY LenProperties, Lengths DEF ReadFrame, LineType
<1>2. \A j \in 1..Len(line) : line[j] \in Byte
  BY <1>1, ElementOfSeq
<1>3. R \in Nat /\ FrameLen * (n + 1) = R + FrameLen
  BY <1>1, Multiples
<1>4. /\ seen \in Seq(Byte) /\ Len(seen) = R + Len(line)
      /\ \A q \in 1..Len(line) : line[q] = seen[R + q]
      /\ \A i \in 1..n : \E c : BlockAt(seen, FrameLen * (i - 1), c) /\ received[i] = Decode(c)
  BY DEF Reading
<1>5. b \in Seq(Byte) /\ Len(b) = FrameLen /\ \A q \in 1..FrameLen : b[q] = line[q]
  <2>1. \A q \in 1..FrameLen : line[q] \in Byte
    BY <1>1, <1>2
  <2>2. /\ b \in Seq(Byte) /\ Len(b) = IF 1 =< FrameLen THEN FrameLen - 1 + 1 ELSE 0
        /\ \A q \in 1..(FrameLen - 1 + 1) : b[q] = line[1 + q - 1]
    BY <2>1, <1>1, SubSeqProperties
  <2> QED
    BY <2>2, <1>1
<1>6. /\ l \in Seq(Byte) /\ Len(l) = Len(line) - FrameLen
      /\ \A q \in 1..(Len(line) - FrameLen) : l[q] = line[FrameLen + q]
  <2>1. \A q \in (FrameLen + 1)..Len(line) : line[q] \in Byte
    BY <1>1, <1>2
  <2>2. /\ l \in Seq(Byte)
        /\ Len(l) = IF FrameLen + 1 =< Len(line) THEN Len(line) - (FrameLen + 1) + 1 ELSE 0
        /\ \A q \in 1..(Len(line) - (FrameLen + 1) + 1) : l[q] = line[FrameLen + 1 + q - 1]
    BY <2>1, <1>1, SubSeqProperties
  <2>3. Len(l) = Len(line) - FrameLen
    BY ONLY <2>2, <1>1
  <2> QED
    BY <2>2, <2>3, <1>1
<1>7. /\ Len(received') = n + 1 /\ received'[n + 1] = Decode(b)
      /\ \A i \in 1..n : received'[i] = received[i]
  <2>1. Decode(b) \in Readings
    BY <1>5 DEF Readings
  <2> QED
    BY <2>1, <1>1, AppendProperties
<1> HIDE DEF b, l, n, R
<1>8. BlockAt(seen, R, b)
  <2>1. ASSUME NEW q \in 1..FrameLen PROVE b[q] = seen[R + q]
    <3>1. q \in 1..Len(line)
      BY <1>1
    <3> QED
      BY <3>1, <1>4, <1>5
  <2> QED
    BY <2>1, <1>5 DEF BlockAt
<1>9. ASSUME NEW q \in 1..Len(l) PROVE l[q] = seen[FrameLen * Len(received') + q]
  <2>1. /\ q \in 1..(Len(line) - FrameLen) /\ FrameLen + q \in 1..Len(line)
        /\ R + (FrameLen + q) = (R + FrameLen) + q
    BY <1>1, <1>3, <1>6
  <2> QED
    BY <2>1, <1>3, <1>4, <1>6, <1>7
<1>10. Len(seen) = FrameLen * Len(received') + Len(l)
  BY <1>1, <1>3, <1>4, <1>6, <1>7
<1>11. ASSUME NEW i \in 1..Len(received')
       PROVE  \E c : BlockAt(seen, FrameLen * (i - 1), c) /\ received'[i] = Decode(c)
  <2>1. CASE i \in 1..n
    BY <2>1, <1>4, <1>7
  <2>2. CASE i = n + 1
    <3>1. FrameLen * (i - 1) = R
      BY <2>2, <1>1 DEF R
    <3> QED
      BY <2>2, <3>1, <1>7, <1>8
  <2> QED
    BY <2>1, <2>2, <1>1, <1>7
<1> QED
  BY <1>1, <1>4, <1>9, <1>10, <1>11 DEF Reading

\* A byte on the line is lost.
LEMMA LoseReads ==
  ASSUME LineType, NEW str \in Seq(Byte), NEW seen, Reading(seen), Loss(str, seen), LoseByte
  PROVE  \E rem : Reading(rem)' /\ Loss(str, rem)'
<1> DEFINE n == Len(received)
           R == FrameLen * n
<1>1. /\ received' = received /\ lost' = lost + 1
      /\ line \in Seq(Byte) /\ Len(line) \in Nat /\ n \in Nat /\ DOMAIN line = 1..Len(line)
      /\ lost \in Nat
  BY LenProperties DEF LoseByte, LineType
<1>2. PICK i \in 1..Len(line) : line' = SubSeq(line, 1, i - 1) \o SubSeq(line, i + 1, Len(line))
  BY <1>1 DEF LoseByte, RemoveAt
<1>3. R \in Nat
  BY <1>1, BlockBounds
<1>4. /\ seen \in Seq(Byte) /\ Len(seen) = R + Len(line)
      /\ \A q \in 1..Len(line) : line[q] = seen[R + q]
  BY DEF Reading
<1>5. /\ R + i \in 1..Len(seen) /\ Len(seen) \in Nat /\ Len(seen) - 1 \in Nat
      /\ i \in Nat /\ i > 0 /\ i =< Len(line)
  BY <1>1, <1>3, <1>4
<1>6. PICK d : d = R + i
  OBVIOUS
<1>7. PICK rem \in Seq(Byte) :
        /\ Len(rem) = Len(seen) - 1
        /\ \A q \in 1..(Len(seen) - 1) : rem[q] = IF q < d THEN seen[q] ELSE seen[q + 1]
  <2> DEFINE u == [q \in 1..(Len(seen) - 1) |-> IF q < d THEN seen[q] ELSE seen[q + 1]]
  <2>1. \A q \in 1..Len(seen) : seen[q] \in Byte
    BY <1>4, ElementOfSeq
  <2>2. ASSUME NEW q \in 1..(Len(seen) - 1)
        PROVE  (IF q < d THEN seen[q] ELSE seen[q + 1]) \in Byte
    <3>1. q \in 1..Len(seen) /\ q + 1 \in 1..Len(seen)
      BY <1>5
    <3> QED
      BY <2>1, <3>1
  <2>3. u \in [1..(Len(seen) - 1) -> Byte]
    BY <2>2
  <2>4. u \in Seq(Byte)
    BY <2>3, <1>5, SeqDef
  <2>5. /\ DOMAIN u = 1..(Len(seen) - 1)
        /\ \A q \in 1..(Len(seen) - 1) : u[q] = IF q < d THEN seen[q] ELSE seen[q + 1]
    OBVIOUS
  <2> HIDE DEF u
  <2> QED
    BY <2>4, <2>5, <1>5, LenProperties
<1>8. d = R + i /\ d \in 1..Len(seen)
  BY <1>5, <1>6
<1> HIDE DEF n, R
<1>9. Without(rem, seen, d)
  BY <1>7, <1>8 DEF Without
<1>10. Loss(str, rem)'
  <2>1. lost = 0 => Without(rem, str, d)
    BY <1>9 DEF Loss
  <2>2. ~(lost' = 0) /\ (lost' = 1 => lost = 0)
    BY <1>1
  <2> QED
    BY <2>1, <2>2 DEF Loss
<1> DEFINE l == SubSeq(line, 1, i - 1)
           r == SubSeq(line, i + 1, Len(line))
<1>11. \A q \in 1..Len(line) : line[q] \in Byte
  BY <1>1, ElementOfSeq
<1>12. l \in Seq(Byte) /\ Len(l) = i - 1 /\ \A q \in 1..(i - 1) : l[q] = line[q]
  <2>1. \A q \in 1..(i - 1) : line[q] \in Byte
    BY <1>1, <1>11
  <2>2. /\ l \in Seq(Byte) /\ Len(l) = IF 1 =< i - 1 THEN (i - 1) - 1 + 1 ELSE 0
        /\ \A q \in 1..((i - 1) - 1 + 1) : l[q] = line[1 + q - 1]
    BY <2>1, <1>5, SubSeqProperties
  <2>3. Len(l) = i - 1 /\ (i - 1) - 1 + 1 = i - 1
    BY ONLY <2>2, <1>5
  <2> QED
    BY <2>2, <2>3
<1>13. /\ r \in Seq(Byte) /\ Len(r) = Len(line) - i
       /\ \A q \in 1..(Len(line) - i) : r[q] = line[i + q]
  <2>1. \A q \in (i + 1)..Len(line) : line[q] \in Byte
    BY <1>1, <1>11
  <2>2. /\ r \in Seq(Byte) /\ Len(r) = IF i + 1 =< Len(line) THEN Len(line) - (i + 1) + 1 ELSE 0
        /\ \A q \in 1..(Len(line) - (i + 1) + 1) : r[q] = line[i + 1 + q - 1]
    BY <2>1, <1>1, <1>5, SubSeqProperties
  <2>3. Len(line) \in Nat /\ i \in Nat /\ i =< Len(line)
    BY <1>1, <1>5
  <2>4. /\ (IF i + 1 =< Len(line) THEN Len(line) - (i + 1) + 1 ELSE 0) = Len(line) - i
        /\ Len(line) - (i + 1) + 1 = Len(line) - i
        /\ \A q \in 1..(Len(line) - i) : i + 1 + q - 1 = i + q
    BY ONLY <2>3
  <2> QED
    BY <2>2, <2>4
<1>14. line' = l \o r
  BY <1>2
<1> HIDE DEF l, r
<1>15. /\ Len(line') = Len(line) - 1
       /\ \A q \in 1..(Len(line) - 1) : line'[q] = IF q < i THEN line[q] ELSE line[q + 1]
  <2>1. /\ Len(l \o r) = Len(l) + Len(r)
        /\ \A q \in 1..(Len(l) + Len(r)) :
             (l \o r)[q] = IF q =< Len(l) THEN l[q] ELSE r[q - Len(l)]
    BY <1>12, <1>13, ConcatProperties
  <2>2. Len(l) + Len(r) = Len(line) - 1
    BY <1>1, <1>5, <1>12, <1>13
  <2>3. ASSUME NEW q \in 1..(Len(line) - 1)
        PROVE  line'[q] = IF q < i THEN line[q] ELSE line[q + 1]
    <3>1. CASE q < i
      <4>1. q =< Len(l) /\ q \in 1..(i - 1)
        BY <3>1, <1>5, <1>12
      <4> QED
        BY <3>1, <4>1, <2>1, <2>2, <1>12, <1>14
    <3>2. CASE ~(q < i)
      <4>1. ~(q =< Len(l)) /\ q - Len(l) \in 1..(Len(line) - i) /\ i + (q - Len(l)) = q + 1
        BY <3>2, <1>1, <1>5, <1>12
      <4>2. line'[q] = r[q - Len(l)]
        BY <4>1, <2>1, <2>2, <1>14
      <4>3. r[q - Len(l)] = line[i + (q - Len(l))]
        BY <4>1, <1>13
      <4> QED
        BY <3>2, <4>1, <4>2, <4>3
    <3> QED
      BY <3>1, <3>2
  <2> QED
    BY <2>1, <2>2, <2>3, <1>14
<1>16. ASSUME NEW q \in 1..Len(line') PROVE line'[q] = rem[R + q]
  <2>1. /\ q \in 1..(Len(line) - 1) /\ R + q \in 1..(Len(seen) - 1)
        /\ q \in 1..Len(line) /\ q + 1 \in 1..Len(line) /\ R + (q + 1) = (R + q) + 1
        /\ (q < i <=> R + q < d)
    BY <1>1, <1>3, <1>4, <1>5, <1>8, <1>15
  <2>2. line[q] = seen[R + q] /\ line[q + 1] = seen[(R + q) + 1]
    <3>1. line[q + 1] = seen[R + (q + 1)]
      BY <2>1, <1>4
    <3> QED
      BY <3>1, <2>1, <1>4
  <2>3. rem[R + q] = IF R + q < d THEN seen[R + q] ELSE seen[(R + q) + 1]
    BY <2>1, <1>7
  <2> QED
    BY <2>1, <2>2, <2>3, <1>15
<1>17. \A j \in 1..Len(received') :
         \E b : BlockAt(rem, FrameLen * (j - 1), b) /\ received'[j] = Decode(b)
  <2>1. ASSUME NEW q \in 1..R PROVE rem[q] = seen[q]
    <3>1. q \in 1..(Len(seen) - 1) /\ q < d
      BY <1>1, <1>3, <1>4, <1>5, <1>8
    <3> QED
      BY <3>1, <1>7
  <2> QED
    <3>1. \A q \in 1..(FrameLen * Len(received)) : rem[q] = seen[q]
      BY <2>1 DEF R, n
    <3> QED
      BY ONLY <3>1, <1>1, rem \in Seq(Byte), LineType, Reading(seen), BlocksKept
<1>18. Reading(rem)'
  <2>1. Len(rem) = FrameLen * Len(received') + Len(line') /\ R = FrameLen * Len(received')
    <3>1. R = FrameLen * Len(received')
      BY <1>1 DEF R, n
    <3>2. Len(rem) = R + Len(line')
      BY <1>1, <1>3, <1>4, <1>7, <1>15
    <3> QED
      BY <3>1, <3>2
  <2>2. \A q \in 1..Len(line') : line'[q] = rem[FrameLen * Len(received') + q]
    BY <2>1, <1>16
  <2> QED
    BY <2>1, <2>2, <1>7, <1>17 DEF Reading
<1> QED
  BY <1>10, <1>18

-----------------------------------------------------------------------------
(* The invariant *)

\* str is what the writers wrote, seen what of it was not lost.
History(str, seen) ==
  /\ Counted(str) /\ AlonePlaced(str) /\ Torn(str)
  /\ Reading(seen) /\ Loss(str, seen)

LineInv == LineType /\ OpenFrames /\ \E str, seen : History(str, seen)

LEMMA Untouched ==
  ASSUME begun' = begun, rest' = rest, mixed' = mixed, together' = together,
         NEW str, Counted(str), AlonePlaced(str), Torn(str)
  PROVE  Counted(str)' /\ AlonePlaced(str)' /\ Torn(str)'
<1>1. /\ Midway' = Midway /\ Remaining(rest)' = Remaining(rest)
      /\ \A u : Written(u)' = Written(u)
  BY FramesSame DEF Remaining
<1>2. /\ \A u : Open(u)' = Open(u)
      /\ \A i : FrameOf(Message(i))' = FrameOf(Message(i))
      /\ \A u : FrameOf(Message(Open(u)))' = FrameOf(Message(Open(u)))
  BY MessagesSame
<1>3. Counted(str)'
  BY <1>1 DEF Counted
<1>4. AlonePlaced(str)'
  BY <1>1, <1>2 DEF AlonePlaced, Placed
<1>5. Torn(str)'
  <2>1. Unmarked' <=> Unmarked
    BY DEF Unmarked, Message
  <2>2. FramesOut' = FramesOut
    BY <1>2 DEF FramesOut
  <2>3. \A w, f, v : Holds(w, f, v)' <=> Holds(w, f, v)
    BY <1>1, <1>2 DEF Holds
  <2>4. \A f, v, g, z : Shares(f, v, g, z)' <=> Shares(f, v, g, z)
    BY <1>1, <2>3 DEF Shares
  <2> QED
    BY <2>1, <2>2, <2>4 DEF Torn
<1> QED
  BY <1>3, <1>4, <1>5

LEMMA LineInit == Init => LineInv
<1> SUFFICES ASSUME Init PROVE LineInv
  OBVIOUS
<1>1. LineType /\ Midway = {}
  BY LineTypeInit DEF Init, Midway
<1>2. begun = <<>> /\ line = <<>> /\ received = <<>> /\ lost = 0 /\ Len(<<>>) = 0
  BY DEF Init
<1>3. OpenFrames
  BY <1>1 DEF OpenFrames
<1>4. FrameLen * 0 = 0 /\ FrameLen \in Nat /\ FrameLen > 10
  BY Lengths
<1>5. <<>> \in Seq(Byte)
  BY EmptySeq
<1>6. Counted(<<>>)
  <2>1. Cardinality(Remaining(rest)) = 0
    BY <1>1, RemainingAlone
  <2> QED
    BY <2>1, <1>2, <1>4, <1>5 DEF Counted
<1>7. AlonePlaced(<<>>)
  BY <1>1, <1>2 DEF AlonePlaced
<1>8. Torn(<<>>)
  <2>1. Stream(FramesOut, <<>>, 0, <<>>, 0, <<>>, 0)
    <3>1. 0 \in BlockStarts
      BY <1>4 DEF BlockStarts
    <3>2. \A r \in BlockStarts : ~(r + FrameLen =< Len(<<>>))
      <4> TAKE r \in BlockStarts
      <4>1. r \in Nat
        BY <3>1, StartsApart
      <4> QED
        BY <4>1, <1>2, <1>4
    <3>3. Begins(<<>>, 0, <<>>, 0, 0)
      BY DEF Begins
    <3> QED
      BY <3>1, <3>2, <3>3, <1>2, <1>4, <1>5 DEF Stream
  <2>2. Shares(<<>>, 0, <<>>, 0)
    BY <1>1 DEF Shares
  <2> QED
    BY <2>1, <2>2 DEF Torn
<1>9. Reading(<<>>)
  BY <1>2, <1>4, <1>5 DEF Reading
<1>10. Loss(<<>>, <<>>)
  BY <1>2 DEF Loss
<1> QED
  BY <1>1, <1>3, <1>6, <1>7, <1>8, <1>9, <1>10 DEF LineInv, History

LEMMA LineStep == LineInv /\ [Next]_vars => LineInv'
<1> SUFFICES ASSUME LineInv, [Next]_vars PROVE LineInv'
  OBVIOUS
<1>1. LineType /\ OpenFrames
  BY DEF LineInv
<1>2. PICK str, seen : History(str, seen)
  BY DEF LineInv
<1>3. /\ Counted(str) /\ AlonePlaced(str) /\ Torn(str) /\ Reading(seen) /\ Loss(str, seen)
      /\ str \in Seq(Byte)
  BY <1>2 DEF History, Counted
<1>4. ASSUME NEW w \in Writers, BeginFrame(w) PROVE LineInv'
  <2>1. LineType' /\ OpenFrames'
    BY <1>1, <1>4, BeginKeeps
  <2>2. rest[w] = <<>> /\ UNCHANGED <<scenario, received, lost>>
    BY <1>1, <1>4, BeginWrites
  <2>3. CASE UNCHANGED <<rest, line, history>>
    <3>1. begun' = begun /\ rest' = rest /\ mixed' = mixed /\ together' = together /\ line' = line
      BY <2>3 DEF history
    <3>2. Counted(str)' /\ AlonePlaced(str)' /\ Torn(str)'
      BY ONLY <1>3, <3>1, Untouched
    <3>3. Reading(seen)' /\ Loss(str, seen)'
      BY <1>3, <2>2, <3>1 DEF Reading, Loss
    <3> QED
      BY <2>1, <3>2, <3>3 DEF LineInv, History
  <2>4. CASE \E m \in Sent(scenario) :
               /\ FrameOf(m) # <<>>
               /\ \E k, x : Writes(w, FrameOf(m), 0, k, x)
               /\ begun' = Append(begun, [by |-> w, msg |-> m])
               /\ mixed' = IF Midway = {} THEN mixed
                           ELSE mixed \union {Open(v) : v \in Midway} \union {Len(begun) + 1}
               /\ together' = IF Cardinality(Midway) + 1 > together
                              THEN Cardinality(Midway) + 1 ELSE together
    <3>0. PICK m \in Sent(scenario) :
               /\ FrameOf(m) # <<>>
               /\ \E k, x : Writes(w, FrameOf(m), 0, k, x)
               /\ begun' = Append(begun, [by |-> w, msg |-> m])
               /\ mixed' = IF Midway = {} THEN mixed
                           ELSE mixed \union {Open(v) : v \in Midway} \union {Len(begun) + 1}
               /\ together' = IF Cardinality(Midway) + 1 > together
                              THEN Cardinality(Midway) + 1 ELSE together
      BY <2>4
    <3>1. PICK k, x : Writes(w, FrameOf(m), 0, k, x)
      BY <3>0
    <3>2. Counted(str \o x)'
      BY ONLY <1>1, <1>3, <2>2, <3>0, <3>1, w \in Writers, m \in Sent(scenario), BeginCounts
    <3>3. AlonePlaced(str \o x)'
      BY ONLY <1>1, <1>3, <2>2, <3>0, <3>1, w \in Writers, m \in Sent(scenario), BeginPlaced
    <3>4. Torn(str \o x)'
      BY ONLY <1>1, <1>3, <2>1, <2>2, <3>0, <3>1, w \in Writers, m \in Sent(scenario), BeginTorn
    <3>5. Reading(seen \o x)' /\ Loss(str \o x, seen \o x)'
      BY ONLY <1>1, <1>3, <2>2, <3>0, <3>1, WriteReads
    <3> QED
      BY <2>1, <3>2, <3>3, <3>4, <3>5 DEF LineInv, History
  <2> QED
    BY <1>1, <1>4, <2>3, <2>4, BeginWrites
<1>5. ASSUME NEW w \in Writers, ContinueFrame(w) PROVE LineInv'
  <2>1. LineType' /\ OpenFrames'
    BY <1>1, <1>5, ContinueKeeps
  <2>2. /\ w \in Midway
        /\ begun' = begun /\ mixed' = mixed /\ together' = together
        /\ received' = received /\ lost' = lost
        /\ \E k, x : Writes(w, FrameOf(Message(Open(w))), Written(w), k, x)
    BY <1>1, <1>5, ContinueWrites DEF history
  <2>3. PICK k, x : Writes(w, FrameOf(Message(Open(w))), Written(w), k, x)
    BY <2>2
  <2>4. Len(rest[w]) = FrameLen - Written(w)
    <3>1. Len(rest[w]) \in 1..(FrameLen - 1)
      BY <1>1, <2>2 DEF OpenFrames
    <3> QED
      BY <3>1, Lengths DEF Written
  <2>5. Counted(str \o x)'
    BY ONLY <1>1, <1>3, <2>2, <2>3, <2>4, w \in Writers, ContinueCounts
  <2>6. AlonePlaced(str \o x)'
    BY ONLY <1>1, <1>3, <2>2, <2>3, w \in Writers, ContinuePlaced
  <2>7. Torn(str \o x)'
    BY ONLY <1>1, <1>3, <2>2, <2>3, w \in Writers, ContinueTorn
  <2>8. Reading(seen \o x)' /\ Loss(str \o x, seen \o x)'
    BY ONLY <1>1, <1>3, <2>2, <2>3, WriteReads
  <2> QED
    BY <2>1, <2>5, <2>6, <2>7, <2>8 DEF LineInv, History
<1>6. CASE LoseByte
  <2>1. LineType' /\ OpenFrames'
    BY <1>1, <1>6, LoseKeeps
  <2>2. begun' = begun /\ rest' = rest /\ mixed' = mixed /\ together' = together
    BY <1>6 DEF LoseByte, history
  <2>3. Counted(str)' /\ AlonePlaced(str)' /\ Torn(str)'
    BY ONLY <1>3, <2>2, Untouched
  <2>4. PICK rem : Reading(rem)' /\ Loss(str, rem)'
    BY ONLY <1>1, <1>3, <1>6, LoseReads
  <2> QED
    BY <2>1, <2>3, <2>4 DEF LineInv, History
<1>7. CASE ReadFrame
  <2>1. LineType' /\ OpenFrames'
    BY <1>1, <1>7, ReadKeeps
  <2>2. begun' = begun /\ rest' = rest /\ mixed' = mixed /\ together' = together /\ lost' = lost
    BY <1>7 DEF ReadFrame, history
  <2>3. Counted(str)' /\ AlonePlaced(str)' /\ Torn(str)'
    BY ONLY <1>3, <2>2, Untouched
  <2>4. Reading(seen)'
    BY ONLY <1>1, <1>3, <1>7, ReadReads
  <2>5. Loss(str, seen)'
    BY <1>3, <2>2 DEF Loss
  <2> QED
    BY <2>1, <2>3, <2>4, <2>5 DEF LineInv, History
<1>8. CASE UNCHANGED vars
  <2>1. /\ begun' = begun /\ rest' = rest /\ mixed' = mixed /\ together' = together
        /\ lost' = lost /\ line' = line /\ received' = received
        /\ scenario' = scenario /\ todo' = todo
    BY <1>8 DEF vars, history
  <2>2. LineType' /\ OpenFrames'
    BY <1>1, <2>1, MessagesSame, FramesSame DEF LineType
  <2>3. Counted(str)' /\ AlonePlaced(str)' /\ Torn(str)'
    BY ONLY <1>3, <2>1, Untouched
  <2>4. Reading(seen)' /\ Loss(str, seen)'
    BY <1>3, <2>1 DEF Reading, Loss
  <2> QED
    BY <2>2, <2>3, <2>4 DEF LineInv, History
<1> QED
  BY <1>4, <1>5, <1>6, <1>7, <1>8 DEF Next

\* The blocks of the stream, what each writer has still to write of its frame and
\* what the reader made of each block fit together after every step of _write_bytes,
\* boost::asio::write and boost::asio::read.
THEOREM LineInvariant == Spec => []LineInv
<1> QED
  BY LineInit, LineStep, PTL DEF Spec

-----------------------------------------------------------------------------
(* What the parsers make of a block *)

\* A block without the markers in their places is refused.
LEMMA BlockRefused ==
  ASSUME NEW s, NEW p \in Nat, NEW b, BlockAt(s, p, b), ~(StartsAt(s, p) /\ EndsAt(s, p))
  PROVE  Decode(b) = Refused
<1>1. /\ FrameLen \in Nat /\ FrameLen > 10
      /\ b \in Seq(Byte) /\ Len(b) = FrameLen
      /\ \A q \in 1..FrameLen : b[q] = s[p + q] /\ b[q] \in Byte
  BY Lengths, ElementOfSeq DEF BlockAt
<1>2. ASSUME SubSeq(b, 1, 2) = START PROVE StartsAt(s, p)
  <2>1. \A q \in 1..2 : b[q] \in Byte
    BY <1>1
  <2>2. \A q \in 1..2 : SubSeq(b, 1, 2)[q] = b[1 + q - 1]
    BY <2>1, SubSeqProperties
  <2>3. START[1] = b[1] /\ START[2] = b[2]
    BY <1>2, <2>2
  <2>4. b[1] = s[p + 1] /\ b[2] = s[p + 2]
    BY <1>1
  <2> QED
    BY <2>3, <2>4 DEF START, StartsAt
<1>3. ASSUME SubSeq(b, FrameLen - 1, FrameLen) = END PROVE EndsAt(s, p)
  <2>1. \A q \in (FrameLen - 1)..FrameLen : b[q] \in Byte
    BY <1>1
  <2>2. \A q \in 1..(FrameLen - (FrameLen - 1) + 1) :
          SubSeq(b, FrameLen - 1, FrameLen)[q] = b[(FrameLen - 1) + q - 1]
    BY <1>1, <2>1, SubSeqProperties
  <2>3. /\ 1 \in 1..(FrameLen - (FrameLen - 1) + 1) /\ 2 \in 1..(FrameLen - (FrameLen - 1) + 1)
        /\ (FrameLen - 1) + 1 - 1 = FrameLen - 1 /\ (FrameLen - 1) + 2 - 1 = FrameLen
    BY <1>1
  <2>4. END[1] = b[FrameLen - 1] /\ END[2] = b[FrameLen]
    BY <1>3, <2>2, <2>3
  <2>5. b[FrameLen - 1] = s[p + (FrameLen - 1)] /\ b[FrameLen] = s[p + FrameLen]
    <3>1. FrameLen - 1 \in 1..FrameLen /\ FrameLen \in 1..FrameLen
      BY <1>1
    <3> QED
      BY <1>1, <3>1
  <2> QED
    BY <2>4, <2>5 DEF END, EndsAt
<1>4. ~Checks(b)
  BY <1>2, <1>3 DEF Checks
<1> QED
  BY <1>4 DEF Decode

\* A block that is the frame of a message is read as the format lets it.
LEMMA BlockOfFrame ==
  ASSUME LineType, NEW i \in 1..Len(begun), NEW s, NEW p, NEW b, BlockAt(s, p, b),
         \A q \in 1..FrameLen : s[p + q] = FrameOf(Message(i))[q]
  PROVE  Decode(b) = Expected(Message(i))
<1> DEFINE m == Message(i)
           f == FrameOf(m)
<1>1. m \in Sent(scenario) /\ IsFrame(f) /\ scenario \in Scenarios
  BY BegunFrames DEF LineType
<1>2. Len(Payload(m)) =< PayloadLen
  <2>1. m.cmd \in FILEINFO..RETRANS /\ Payload(m) \in Seq(Byte) /\ FrameOf(m) # <<>>
    BY <1>1, SentFrames DEF LineType
  <2> QED
    BY <2>1, FrameShape
<1>3. Decode(f) = Expected(m)
  BY <1>1, <1>2, CodecRoundTrip DEF RoundTrip
<1>4. b = f
  <2>1. f \in Seq(Byte) /\ Len(f) = FrameLen /\ b \in Seq(Byte) /\ Len(b) = FrameLen
        /\ \A q \in 1..FrameLen : b[q] = s[p + q]
    BY <1>1 DEF IsFrame, BlockAt
  <2>2. \A q \in 1..Len(b) : b[q] = f[q]
    BY <2>1
  <2> HIDE DEF f
  <2> QED
    BY <2>1, <2>2, SeqEqual
<1> QED
  BY <1>3, <1>4

\* s and t have the same block after p bytes.
SameBlock(s, t, p) == \A q \in 1..FrameLen : s[p + q] = t[p + q]

\* A block at the place of a frame that met no other is that frame.
LEMMA BlockAlone ==
  ASSUME LineType, NEW str, Counted(str), AlonePlaced(str),
         NEW i \in Nat, i > 0, i \notin mixed, FrameLen * i =< Len(str),
         NEW s, NEW p, NEW b, p = FrameLen * (i - 1), BlockAt(s, p, b), SameBlock(s, str, p)
  PROVE  Decode(b) = Expected(Message(i))
<1>1. /\ Len(begun) \in Nat /\ Len(str) \in Nat /\ FrameLen \in Nat /\ FrameLen > 10
      /\ Cardinality(Remaining(rest)) \in Nat
      /\ Len(str) + Cardinality(Remaining(rest)) = FrameLen * Len(begun)
  BY LenProperties, Lengths, RemainingFinite DEF LineType, Counted
<1>2. i \in 1..Len(begun)
  <2>1. SUFFICES ASSUME Len(begun) < i PROVE FALSE
    BY <1>1
  <2>2. FrameLen * Len(begun) + FrameLen =< FrameLen * i /\ FrameLen * Len(begun) \in Nat
    BY ONLY <1>1, <2>1, i \in Nat, Multiples
  <2>3. FrameLen * i \in Nat
    BY ONLY <1>1, i \in Nat, Multiples
  <2> QED
    BY ONLY <1>1, <2>2, <2>3, FrameLen * i =< Len(str)
<1>3. Placed(str, i, FrameOf(Message(i)))
  BY <1>2 DEF AlonePlaced
<1>4. \A q \in 1..FrameLen : FrameLen * (i - 1) + q =< Len(str)
  <2> TAKE q \in 1..FrameLen
  <2>1. i \in 1..i
    OBVIOUS
  <2>2. FrameLen * (i - 1) + q \in 1..(FrameLen * i) /\ FrameLen * i \in Nat
    BY <2>1, BlockBounds
  <2> QED
    BY <2>2, <1>1
<1>5. \A q \in 1..FrameLen : s[p + q] = FrameOf(Message(i))[q]
  <2>1. \A q \in 1..FrameLen : s[p + q] = str[p + q]
    BY DEF SameBlock
  <2> QED
    BY <1>3, <1>4, <2>1 DEF Placed
<1> QED
  BY <1>2, <1>5, BlockOfFrame

\* A block that was read, within the bytes that were not lost.
LEMMA BlockRead ==
  ASSUME LineType, NEW seen, Reading(seen), NEW i \in DOMAIN received
  PROVE  /\ i \in Nat /\ i > 0 /\ FrameLen * (i - 1) \in BlockStarts /\ FrameLen * (i - 1) \in Nat
         /\ FrameLen * i \in Nat /\ FrameLen * i = FrameLen * (i - 1) + FrameLen
         /\ Len(seen) \in Nat /\ FrameLen * i =< Len(seen)
         /\ \E b : BlockAt(seen, FrameLen * (i - 1), b) /\ received[i] = Decode(b)
<1>1. /\ Len(received) \in Nat /\ DOMAIN received = 1..Len(received) /\ Len(line) \in Nat
      /\ FrameLen \in Nat /\ FrameLen > 10
      /\ Len(seen) = FrameLen * Len(received) + Len(line)
  BY LenProperties, Lengths DEF LineType, Reading
<1>2. i \in Nat /\ i > 0 /\ i =< Len(received) /\ i - 1 \in Nat /\ (i - 1) + 1 = i
  BY <1>1
<1>3. /\ FrameLen * (i - 1) \in Nat /\ FrameLen * i = FrameLen * (i - 1) + FrameLen
      /\ FrameLen * i \in Nat /\ FrameLen * i =< FrameLen * Len(received)
      /\ FrameLen * Len(received) \in Nat
  BY ONLY <1>1, <1>2, Multiples
<1>4. FrameLen * (i - 1) \in BlockStarts
  BY <1>2 DEF BlockStarts
<1>5. \E b : BlockAt(seen, FrameLen * (i - 1), b) /\ received[i] = Decode(b)
  BY <1>1 DEF Reading
<1>6. Len(seen) \in Nat /\ FrameLen * i =< Len(seen)
  BY ONLY <1>1, <1>3
<1> QED
  BY <1>2, <1>3, <1>4, <1>5, <1>6

-----------------------------------------------------------------------------
(* Theorems *)

\* AloneIsDecoded: the frame of a writer that met no other is received whole, in
\* its place, whatever happened before it.
LEMMA AloneHolds == LineInv => AloneIsDecoded
<1> SUFFICES ASSUME LineInv, lost = 0, NEW i \in DOMAIN received, i \notin mixed
             PROVE  received[i] = Expected(Message(i))
  BY DEF AloneIsDecoded
<1>1. PICK str, seen : LineType /\ Counted(str) /\ AlonePlaced(str) /\ Reading(seen) /\ seen = str
  BY DEF LineInv, History, Loss
<1>2. PICK b : BlockAt(str, FrameLen * (i - 1), b) /\ received[i] = Decode(b)
  BY <1>1, BlockRead
<1>3. i \in Nat /\ i > 0 /\ FrameLen * i =< Len(str)
  BY <1>1, BlockRead
<1>4. SameBlock(str, str, FrameLen * (i - 1))
  BY DEF SameBlock
<1> QED
  BY ONLY <1>1, <1>2, <1>3, <1>4, i \notin mixed, BlockAlone

\* While no byte is lost, the listener reads a frame that _write_bytes put on the
\* port while no other thread was writing, however torn the frames before it were.
THEOREM AloneIsDecodedTheorem == Spec => []AloneIsDecoded
<1> QED
  BY LineInvariant, AloneHolds, PTL

\* DeafAfterLoss: blocks before the lost byte are frames; every later one ends
\* with the first byte of the next frame.
LEMMA DeafHolds == LineInv => DeafAfterLoss
<1> SUFFICES ASSUME LineInv, lost =< 1, mixed = {},
                    NEW i \in DOMAIN received, received[i] # Expected(Message(i))
             PROVE  lost > 0 /\ \A j \in i..Len(received) : received[j] = Refused
  BY DEF DeafAfterLoss
<1>1. PICK str, seen : /\ LineType /\ Counted(str) /\ AlonePlaced(str)
                       /\ Reading(seen) /\ Loss(str, seen)
  BY DEF LineInv, History
<1>2. lost = 1
  <2>1. ASSUME lost = 0 PROVE FALSE
    <3>1. AloneIsDecoded
      BY AloneHolds
    <3> QED
      BY <2>1, <3>1 DEF AloneIsDecoded
  <2> QED
    BY <2>1, <1>1 DEF LineType
<1>3. PICK d : Without(seen, str, d)
  BY <1>1, <1>2 DEF Loss
<1>4. /\ d \in 1..Len(str) /\ Len(seen) = Len(str) - 1 /\ Len(str) \in Nat /\ d \in Nat
      /\ \A q \in 1..Len(seen) : seen[q] = IF q < d THEN str[q] ELSE str[q + 1]
  BY <1>1, <1>3, LenProperties DEF Without, Counted
<1>5. /\ i \in Nat /\ i > 0 /\ FrameLen * (i - 1) \in Nat /\ FrameLen * i \in Nat
      /\ FrameLen * i = FrameLen * (i - 1) + FrameLen /\ FrameLen * i =< Len(seen)
      /\ Len(seen) \in Nat /\ FrameLen \in Nat /\ FrameLen > 10
  BY <1>1, BlockRead, Lengths
\* Block i does not end before the lost byte.
<1>6. ASSUME FrameLen * i < d PROVE FALSE
  <2>1. PICK b : BlockAt(seen, FrameLen * (i - 1), b) /\ received[i] = Decode(b)
    BY <1>1, BlockRead
  <2>2. ASSUME NEW q \in 1..FrameLen
        PROVE  seen[FrameLen * (i - 1) + q] = str[FrameLen * (i - 1) + q]
    <3>1. PICK r : r = FrameLen * (i - 1) + q
      OBVIOUS
    <3>2. r \in 1..Len(seen) /\ r < d
      BY <3>1, <1>4, <1>5, <1>6
    <3> QED
      BY <3>1, <3>2, <1>4
  <2>3. FrameLen * i =< Len(str) /\ i \notin mixed
    BY <1>4, <1>5
  <2>4. Decode(b) = Expected(Message(i))
    <3>1. i \in Nat /\ i > 0
      BY <1>5
    <3>2. SameBlock(seen, str, FrameLen * (i - 1))
      BY <2>2 DEF SameBlock
    <3> QED
      BY ONLY <1>1, <2>1, <2>3, <3>1, <3>2, BlockAlone
  <2> QED
    BY <2>1, <2>4
<1>7. ASSUME NEW j \in i..Len(received) PROVE received[j] = Refused
  <2>1. j \in DOMAIN received /\ j \in Nat /\ i =< j
    BY <1>1, <1>5, LenProperties DEF LineType
  <2>2. /\ FrameLen * (j - 1) \in Nat /\ FrameLen * j \in Nat
        /\ FrameLen * j = FrameLen * (j - 1) + FrameLen /\ FrameLen * j =< Len(seen)
    BY <1>1, <2>1, BlockRead
  <2>3. PICK b : BlockAt(seen, FrameLen * (j - 1), b) /\ received[j] = Decode(b)
    BY <1>1, <2>1, BlockRead
  <2>4. FrameLen * i =< FrameLen * j
    BY ONLY <1>5, <2>1, Multiples
  <2>5. seen[FrameLen * j] = str[FrameLen * j + 1]
    <3>1. PICK r : r = FrameLen * j
      OBVIOUS
    <3>2. r \in 1..Len(seen) /\ ~(r < d)
      <4>1. PICK a : a = FrameLen * i
        OBVIOUS
      <4>2. a \in Nat /\ a > 0 /\ ~(a < d) /\ a =< r
        BY ONLY <1>5, <1>6, <2>4, <3>1, <4>1
      <4>3. r \in Nat /\ r =< Len(seen)
        BY ONLY <2>2, <3>1
      <4>4. d \in Nat /\ Len(seen) \in Nat
        BY ONLY <1>4, <1>5
      <4> QED
        BY ONLY <4>2, <4>3, <4>4
    <3>3. seen[r] = IF r < d THEN str[r] ELSE str[r + 1]
      BY ONLY <1>4, <3>2
    <3>4. seen[r] = str[r + 1]
      BY ONLY <3>2, <3>3
    <3> QED
      BY ONLY <3>1, <3>4
  \* The first byte of frame j + 1.
  <2>6. str[FrameLen * j + 1] = 105
    <3>1. /\ Len(begun) \in Nat /\ Cardinality(Remaining(rest)) \in Nat
          /\ Len(str) + Cardinality(Remaining(rest)) = FrameLen * Len(begun)
      BY <1>1, LenProperties, RemainingFinite DEF LineType, Counted
    <3>2. j + 1 \in 1..Len(begun)
      <4>1. SUFFICES ASSUME Len(begun) =< j PROVE FALSE
        BY <2>1, <3>1
      <4>2. FrameLen > 0 /\ FrameLen \in Nat /\ Len(begun) \in Nat /\ j \in Nat
        BY <1>5, <2>1, <3>1
      <4>3. FrameLen * Len(begun) =< FrameLen * j /\ FrameLen * Len(begun) \in Nat
        BY ONLY <4>1, <4>2, Multiples
      <4>4. FrameLen * j \in Nat /\ FrameLen * j =< Len(str) - 1 /\ Len(str) \in Nat
        BY <1>4, <2>2
      <4> QED
        BY ONLY <3>1, <4>3, <4>4
    <3>3. Placed(str, j + 1, FrameOf(Message(j + 1))) /\ IsFrame(FrameOf(Message(j + 1)))
      BY <1>1, <3>2, BegunFrames DEF AlonePlaced
    <3>4. (j + 1) - 1 = j /\ 1 \in 1..FrameLen /\ FrameLen * j + 1 =< Len(str)
      <4>1. FrameLen * j =< Len(str) - 1 /\ FrameLen * j \in Nat /\ Len(str) \in Nat
        BY <1>4, <2>2
      <4>2. FrameLen * j + 1 =< Len(str)
        BY ONLY <4>1
      <4> QED
        BY <4>2, <1>5, <2>1
    <3>5. str[FrameLen * ((j + 1) - 1) + 1] = FrameOf(Message(j + 1))[1]
      BY <3>3, <3>4 DEF Placed
    <3> QED
      BY <3>3, <3>4, <3>5 DEF IsFrame
  <2>7. ~EndsAt(seen, FrameLen * (j - 1))
    BY <2>2, <2>5, <2>6 DEF EndsAt
  <2>8. Decode(b) = Refused
    BY <2>2, <2>3, <2>7, BlockRefused
  <2> QED
    BY <2>3, <2>8
<1> QED
  BY <1>2, <1>7

\* After a lost byte the reads of FrameLen bytes stay shifted, and
\* _check_protocol_frame refuses every one of them: its last byte is never that
\* of a stop mark.
THEOREM DeafAfterLossTheorem == Spec => []DeafAfterLoss
<1> QED
  BY LineInvariant, DeafHolds, PTL

\* ForgedNeedsThree: with two frames at most being written at once, a block is the
\* frame of a message or is refused.
LEMMA ForgedHolds == LineInv => ForgedNeedsThree
<1> SUFFICES ASSUME LineInv, Unmarked, lost = 0, together < 3,
                    NEW i \in DOMAIN received, received[i] # Refused
             PROVE  \E j \in DOMAIN begun : received[i] = Expected(Message(j))
  BY DEF ForgedNeedsThree
<1>1. PICK str, seen : LineType /\ Torn(str) /\ Reading(seen) /\ seen = str
  BY DEF LineInv, History, Loss
<1>2. PICK p, f, v, g, z : Stream(FramesOut, str, p, f, v, g, z)
  BY <1>1 DEF Torn
<1>3. PICK b : BlockAt(str, FrameLen * (i - 1), b) /\ received[i] = Decode(b)
  BY <1>1, BlockRead
<1>4. /\ FrameLen * (i - 1) \in BlockStarts /\ FrameLen * (i - 1) \in Nat
      /\ FrameLen * (i - 1) + FrameLen =< Len(str)
  BY <1>1, BlockRead
<1>5. Known(FramesOut, str, FrameLen * (i - 1))
  BY <1>2, <1>4 DEF Stream
<1>6. StartsAt(str, FrameLen * (i - 1)) /\ EndsAt(str, FrameLen * (i - 1))
  BY <1>3, <1>4, BlockRefused
<1>7. PICK h \in FramesOut : \A q \in 1..FrameLen : str[FrameLen * (i - 1) + q] = h[q]
  BY <1>5, <1>6 DEF Known
<1>8. PICK j \in 1..Len(begun) : h = FrameOf(Message(j))
  BY DEF FramesOut
<1>9. Decode(b) = Expected(Message(j))
  BY <1>1, <1>3, <1>7, <1>8, BlockOfFrame
<1>10. j \in DOMAIN begun
  BY <1>1, LenProperties DEF LineType
<1> QED
  BY <1>3, <1>9, <1>10

\* While at most two threads are in _write_bytes at once and no payload holds marker
\* bytes, _check_protocol_frame accepts no block that is not a message's own frame.
THEOREM ForgedNeedsThreeTheorem == Spec => []ForgedNeedsThree
<1> QED
  BY LineInvariant, ForgedHolds, PTL

-----------------------------------------------------------------------------
(* A complete file *)

LEMMA InfoIs ==
  ASSUME LineType, NEW id, InfoOf(id) # 0
  PROVE  /\ InfoOf(id) \in DOMAIN received /\ received[InfoOf(id)] # Refused
         /\ received[InfoOf(id)].cmd = FILEINFO /\ received[InfoOf(id)].id = id
<1> DEFINE I == {i \in 1..Len(received) :
                   received[i] # Refused /\ received[i].cmd = FILEINFO /\ received[i].id = id}
<1>1. I # {} /\ InfoOf(id) = Min(I)
  BY DEF InfoOf, SelectInSeq
<1>2. I \subseteq Nat
  OBVIOUS
<1>3. DOMAIN received = 1..Len(received)
  BY LenProperties DEF LineType
<1>4. Min(I) \in I
  BY <1>1, <1>2, FirstOf
<1> QED
  BY <1>1, <1>3, <1>4

LEMMA ChunkIs ==
  ASSUME LineType, NEW id, NEW k, ChunkIn(id, k) # 0
  PROVE  /\ ChunkIn(id, k) \in DOMAIN received /\ received[ChunkIn(id, k)] # Refused
         /\ received[ChunkIn(id, k)].cmd = TUNKDATA /\ received[ChunkIn(id, k)].id = id
         /\ received[ChunkIn(id, k)].tunk = k
<1> DEFINE I == {i \in 1..Len(received) :
                   /\ received[i] # Refused /\ received[i].cmd = TUNKDATA
                   /\ received[i].id = id /\ received[i].tunk = k}
<1>1. I # {} /\ ChunkIn(id, k) = Min(I)
  BY DEF ChunkIn, SelectInSeq
<1>2. I \subseteq Nat
  OBVIOUS
<1>3. DOMAIN received = 1..Len(received)
  BY LenProperties DEF LineType
<1>4. Min(I) \in I
  BY <1>1, <1>2, FirstOf
<1> QED
  BY <1>1, <1>3, <1>4

\* What is received for a message has its command, id and number.
LEMMA ExpectedFields ==
  ASSUME NEW m \in Messages, Expected(m) # Refused
  PROVE  /\ Expected(m).cmd = m.cmd /\ Expected(m).id = m.id
         /\ m.cmd = FILEINFO => Expected(m) = m
         /\ m.cmd = TUNKDATA => /\ Expected(m).tunk = m.tunk
                                /\ Expected(m).data = UpToNul(m.data)
                                /\ SEP \notin ToSet(UpToNul(m.data))
<1> USE DEF FILEINFO, FILEID, TUNKDATA, ACK, RETRANS
<1>1. CASE m \in [cmd : {FILEINFO}, id : Nat, name : Seq(0..255), size : Nat, tunk_size : Nat]
  <2>1. m.cmd = FILEINFO
    BY <1>1
  <2>2. Expected(m) = m
    BY <2>1 DEF Expected
  <2> QED
    BY <2>1, <2>2
<1>2. CASE m \in [cmd : {FILEID, ACK}, id : Nat]
  <2>1. m.cmd \in {FILEID, ACK}
    BY <1>2
  <2>2. Expected(m) = m
    BY <2>1 DEF Expected
  <2> QED
    BY <2>1, <2>2
<1>3. CASE m \in [cmd : {TUNKDATA}, id : Nat, tunk : Nat, data : Seq(0..255)]
  <2>1. m.cmd = TUNKDATA
    BY <1>3
  <2>2. ~(m.tunk > 99 \/ SEP \in ToSet(UpToNul(m.data))) /\ Expected(m) = [m EXCEPT !.data = UpToNul(@)]
    BY <2>1 DEF Expected
  <2> DEFINE u == UpToNul(m.data)
  <2>3. Expected(m) = [m EXCEPT !.data = u]
    BY <2>2
  <2>4. SEP \notin ToSet(u)
    BY <2>2
  <2> HIDE DEF u
  <2>5. /\ Expected(m).cmd = m.cmd /\ Expected(m).id = m.id
        /\ Expected(m).tunk = m.tunk /\ Expected(m).data = u
    BY <1>3, <2>3
  <2> QED
    BY <2>1, <2>4, <2>5 DEF u
<1>4. CASE m \in [cmd : {RETRANS}, id : Nat, tunks : Seq(Nat)]
  <2>1. m.cmd = RETRANS
    BY <1>4
  <2>2. Expected(m) = m
    BY <2>1 DEF Expected
  <2> QED
    BY <2>1, <2>2
<1> QED
  BY <1>1, <1>2, <1>3, <1>4 DEF Messages

\* CompleteIsCutFile: what is received under the id of the file was sent as its
\* information or as one of its chunks.
LEMMA CompleteHolds == LineInv => CompleteIsCutFile
<1> DEFINE id == scenario.id
           file == scenario.file
           N == ChunkCount(file)
           Cut(k) == UpToNul(ChunkOf(file, k))
<1> SUFFICES ASSUME LineInv, Unmarked, lost = 0, together < 3, Complete(id)
             PROVE  /\ Assembled(id) = FlattenSeq([k \in 1..N |-> Cut(k - 1)])
                    /\ \A k \in 1..N : SEP \notin ToSet(Cut(k - 1))
  BY DEF CompleteIsCutFile
<1>1. LineType /\ ForgedNeedsThree
  BY ForgedHolds DEF LineInv
\* A message that was received was sent.
<1>2. ASSUME NEW i \in DOMAIN received, received[i] # Refused
      PROVE  \E m \in Sent(scenario) : m \in Messages /\ received[i] = Expected(m)
  <2>1. PICK j \in DOMAIN begun : received[i] = Expected(Message(j))
    BY <1>1, <1>2 DEF ForgedNeedsThree
  <2>2. j \in 1..Len(begun)
    BY <1>1, LenProperties DEF LineType
  <2>3. Message(j) \in Sent(scenario) /\ scenario \in Scenarios
    BY <1>1, <2>2, BegunFrames DEF LineType
  <2> QED
    BY <2>1, <2>3, ScenariosAssumption
<1>3. InfoOf(id) # 0 /\ \A k \in 0..(received[InfoOf(id)].tunk_size - 1) : ChunkIn(id, k) # 0
  BY DEF Complete
<1>4. received[InfoOf(id)].tunk_size = N /\ N \in Nat
  <2>1. /\ InfoOf(id) \in DOMAIN received /\ received[InfoOf(id)] # Refused
        /\ received[InfoOf(id)].cmd = FILEINFO /\ received[InfoOf(id)].id = id
    BY <1>1, <1>3, InfoIs
  <2>2. PICK m \in Sent(scenario) : m \in Messages /\ received[InfoOf(id)] = Expected(m)
    BY <2>1, <1>2
  <2>3. m.cmd = FILEINFO /\ m.id = id /\ received[InfoOf(id)] = m
    BY <2>1, <2>2, ExpectedFields
  <2>4. m.tunk_size = N
    BY <1>1, <2>3, ScenariosAssumption DEF LineType
  <2>5. m.tunk_size \in Nat
    BY <2>2, <2>3 DEF Messages, FILEINFO, FILEID, TUNKDATA, ACK, RETRANS
  <2> QED
    BY <2>3, <2>4, <2>5
<1>5. ASSUME NEW k \in 1..N
      PROVE  received[ChunkIn(id, k - 1)].data = Cut(k - 1) /\ SEP \notin ToSet(Cut(k - 1))
  <2> DEFINE c == ChunkIn(id, k - 1)
  <2>1. k - 1 \in 0..(received[InfoOf(id)].tunk_size - 1)
    BY <1>4
  <2>2. c # 0
    BY <1>3, <2>1
  <2>3. /\ c \in DOMAIN received /\ received[c] # Refused /\ received[c].cmd = TUNKDATA
        /\ received[c].id = id /\ received[c].tunk = k - 1
    BY <1>1, <2>2, ChunkIs
  <2> HIDE DEF c
  <2>4. PICK m \in Sent(scenario) : m \in Messages /\ received[c] = Expected(m)
    BY <2>3, <1>2
  <2>5. m.cmd = TUNKDATA /\ m.id = id
    BY <2>3, <2>4, ExpectedFields
  <2>6. /\ m.tunk = k - 1 /\ received[c].data = UpToNul(m.data)
        /\ SEP \notin ToSet(UpToNul(m.data))
    BY <2>3, <2>4, <2>5, ExpectedFields
  <2>7. m.data = ChunkOf(file, k - 1)
    <3>1. m.data = ChunkOf(file, m.tunk)
      BY <1>1, <2>5, ScenariosAssumption DEF LineType
    <3> QED
      BY <2>6, <3>1
  <2> QED
    BY <2>6, <2>7 DEF c
<1>6. Assembled(id) = FlattenSeq([k \in 1..N |-> Cut(k - 1)])
  <2>1. [k \in 1..N |-> received[ChunkIn(id, k - 1)].data] = [k \in 1..N |-> Cut(k - 1)]
    BY <1>5
  <2>2. Assembled(id) = FlattenSeq([k \in 1..N |-> received[ChunkIn(id, k - 1)].data])
    BY <1>4 DEF Assembled
  <2> QED
    BY <2>1, <2>2
<1> QED
  BY <1>5, <1>6

\* A file whose chunks have all been received is the file that transfer() cut into
\* chunks, less what each chunk had from its first zero byte on.
THEOREM CompleteIsCutFileTheorem == Spec => []CompleteIsCutFile
<1> QED
  BY LineInvariant, CompleteHolds, PTL
=============================================================================
