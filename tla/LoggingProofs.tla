---------------------------- MODULE LoggingProofs ----------------------------
(***************************************************************************)
(* Proofs about Logging: no buffer overflows, how lines end when a buffer  *)
(* is full, and that no FATAL line is lost.                                *)
(***************************************************************************)
EXTENDS Logging, WellFoundedInduction, TLAPS

(* A line as ~Logger gives it to g_output. *)
Lines == [by : Threads, body : 0 .. kSmallBuffer - 1, buf : Buffers]

WellEnded(line) ==
  /\ \/ Ends(line.buf.text, <<"newline">>)
     \/ line.buf.size = kSmallBuffer - 1
  /\ line.body + 3 + BaseLen + 1 + kMaxNumericSize <= kSmallBuffer =>
       Ends(line.buf.text, <<"dash", "basename", "colon", "line", "newline">>)

AllWellEnded == \A i \in DOMAIN outputs : WellEnded(outputs[i])

(* The inductive invariant. *)
IInv == TypeOK /\ AllWellEnded /\ FatalFlushed

------------------------------------------------------------------------------
(* Numbers.  DigitsOf and Reads are recursive: that they are defined, and  *)
(* what they compute for every int, is shown at the least counterexample.  *)

(* |i| *)
Magnitude(i) == IF i < 0 THEN -i ELSE i

(* One division step on what g says of the quotient. *)
Divided(g, i) ==
  LET d == <<zero(Remainder(i))>>
  IN  IF Quotient(i) = 0 THEN d ELSE g[Quotient(i)] \o d

(* g gives the digits of the ints from -n to n. *)
DigitsTo(g, n) == g = [i \in -n .. n |-> Divided(g, i)]

(* A set of naturals has a least element. *)
LEMMA LeastExists ==
  ASSUME NEW T, T \subseteq Nat, T # {}
  PROVE  \E m \in T : \A n \in T : m <= n
<1> DEFINE R == OpToRel(<, Nat)
<1>1. IsWellFoundedOn(R, Nat)
  BY NatLessThanWellFounded
<1>2. PICK m \in T : \A n \in T : ~(<<n, m>> \in R)
  <2> HIDE DEF R
  <2> QED BY <1>1, WFMin
<1>3. ASSUME NEW n \in T PROVE m <= n
  <2>1. ~(<<n, m>> \in R)
    BY <1>2
  <2>2. ~(n < m)
    BY <2>1 DEF OpToRel
  <2> QED BY <2>2
<1> QED BY <1>3

(* i / 10 and i % 10 as C++ rounds them. *)
LEMMA Division ==
  ASSUME NEW i \in Int
  PROVE  /\ Quotient(i) \in Int /\ Remainder(i) \in Int
         /\ i = 10 * Quotient(i) + Remainder(i)
         /\ i >= 0 => Quotient(i) >= 0 /\ Remainder(i) \in 0 .. 9
         /\ i <= 0 => Quotient(i) <= 0 /\ -Remainder(i) \in 0 .. 9
<1>1. i \div 10 \in Int /\ i % 10 \in 0 .. 9
  OBVIOUS
<1>0. i % 10 = i - 10 * (i \div 10)
  OBVIOUS
<1> DEFINE q == i \div 10
           r == i % 10
<1>2. /\ q \in Int /\ r \in 0 .. 9 /\ i = 10 * q + r
      /\ Quotient(i) = IF i >= 0 \/ r = 0 THEN q ELSE q + 1
  BY <1>0, <1>1 DEF Quotient
<1> HIDE DEF q, r
<1>3. Quotient(i) \in Int
  BY <1>2
<1>4. Remainder(i) = i - 10 * Quotient(i)
  BY DEF Remainder
<1> QED BY <1>2, <1>3, <1>4

(* The quotient of i is nearer to zero than i, unless both are zero. *)
LEMMA QuotientSmaller ==
  ASSUME NEW i \in Int
  PROVE  /\ Quotient(i) \in Int /\ Magnitude(i) \in Nat
         /\ Quotient(i) # 0 => Magnitude(Quotient(i)) < Magnitude(i)
<1> DEFINE q == Quotient(i)
           r == Remainder(i)
<1>1. /\ q \in Int /\ r \in Int /\ i = 10 * q + r
      /\ i >= 0 => q >= 0 /\ r \in 0 .. 9
      /\ i <= 0 => q <= 0 /\ -r \in 0 .. 9
  BY Division
<1> HIDE DEF q, r
<1>2. Magnitude(i) \in Nat /\ (q # 0 => Magnitude(q) < Magnitude(i))
  BY <1>1 DEF Magnitude
<1> QED BY <1>1, <1>2 DEF q

(* The table digits, whose middle zero points to, holds magnitudes. *)
LEMMA ZeroDigit ==
  ASSUME NEW r \in Int, r \in 0 .. 9 \/ -r \in 0 .. 9
  PROVE  zero(r) = Magnitude(r) /\ zero(r) \in 0 .. 9
<1>1. \/ r = -9 \/ r = -8 \/ r = -7 \/ r = -6 \/ r = -5 \/ r = -4 \/ r = -3
        \/ r = -2 \/ r = -1 \/ r = 0 \/ r = 1 \/ r = 2 \/ r = 3 \/ r = 4
        \/ r = 5 \/ r = 6 \/ r = 7 \/ r = 8 \/ r = 9
  OBVIOUS
<1>2. /\ zero(-9) = 9 /\ zero(-8) = 8 /\ zero(-7) = 7 /\ zero(-6) = 6
      /\ zero(-5) = 5 /\ zero(-4) = 4 /\ zero(-3) = 3 /\ zero(-2) = 2
      /\ zero(-1) = 1 /\ zero(0) = 0 /\ zero(1) = 1 /\ zero(2) = 2
      /\ zero(3) = 3 /\ zero(4) = 4 /\ zero(5) = 5 /\ zero(6) = 6
      /\ zero(7) = 7 /\ zero(8) = 8 /\ zero(9) = 9
  BY DEF zero, digits
<1> QED BY <1>1, <1>2 DEF Magnitude

(* The last digit of i is that of its remainder. *)
LEMMA LastDigit ==
  ASSUME NEW i \in Int
  PROVE  /\ zero(Remainder(i)) \in 0 .. 9
         /\ i = IF i < 0 THEN 10 * Quotient(i) - zero(Remainder(i))
                         ELSE 10 * Quotient(i) + zero(Remainder(i))
<1> DEFINE q == Quotient(i)
           r == Remainder(i)
<1>1. /\ q \in Int /\ r \in Int /\ i = 10 * q + r
      /\ i >= 0 => q >= 0 /\ r \in 0 .. 9
      /\ i <= 0 => q <= 0 /\ -r \in 0 .. 9
  BY Division
<1>2. r \in Int /\ (r \in 0 .. 9 \/ -r \in 0 .. 9)
  <2> HIDE DEF q, r
  <2> QED BY <1>1
<1>3. zero(r) = Magnitude(r) /\ zero(r) \in 0 .. 9
  <2> HIDE DEF r
  <2> QED BY <1>2, ZeroDigit
<1> HIDE DEF q, r
<1>4. i = IF i < 0 THEN 10 * q - zero(r) ELSE 10 * q + zero(r)
  BY <1>1, <1>3 DEF Magnitude
<1> QED BY <1>3, <1>4 DEF q, r

(* There are digits of all ints as far as any n, *)
LEMMA DigitsToExists == \A n \in Nat : \E g : DigitsTo(g, n)
<1> DEFINE T == {n \in Nat : ~ \E g : DigitsTo(g, n)}
<1> SUFFICES ASSUME T # {} PROVE FALSE
  OBVIOUS
<1>1. PICK n \in T : \A m \in T : n <= m
  <2>1. T \subseteq Nat
    OBVIOUS
  <2> HIDE DEF T
  <2> QED BY <2>1, LeastExists
<1>2. n \in Nat
  OBVIOUS
<1>3. CASE n = 0
  <2> DEFINE g == [i \in -0 .. 0 |-> <<zero(0)>>]
  <2>1. ASSUME NEW i \in -0 .. 0 PROVE Divided(g, i) = <<zero(0)>>
    <3>1. i = 0
      OBVIOUS
    <3>2. Quotient(0) = 0 /\ Remainder(0) = 0
      BY Division
    <3> QED BY <3>1, <3>2 DEF Divided
  <2>2. DigitsTo(g, 0)
    BY <2>1 DEF DigitsTo
  <2> QED BY <1>3, <2>2
<1>4. CASE n # 0
  <2>1. n - 1 \in Nat /\ ~(n - 1 \in T)
    BY <1>1, <1>2, <1>4
  <2>2. PICK g : DigitsTo(g, n - 1)
    BY <2>1
  <2> DEFINE h == [i \in -n .. n |-> Divided(g, i)]
  <2>3. ASSUME NEW i \in -n .. n PROVE Divided(h, i) = Divided(g, i)
    <3>1. CASE Quotient(i) = 0
      BY <3>1 DEF Divided
    <3>2. CASE Quotient(i) # 0
      <4>1. Quotient(i) \in -(n - 1) .. n - 1
        BY <1>2, <3>2, QuotientSmaller DEF Magnitude
      <4>2. g[Quotient(i)] = Divided(g, Quotient(i))
        <5> DEFINE q == Quotient(i)
        <5>1. g = [k \in -(n - 1) .. n - 1 |-> Divided(g, k)]
          BY <2>2 DEF DigitsTo
        <5> HIDE DEF q
        <5>2. q \in -(n - 1) .. n - 1 => g[q] = Divided(g, q)
          BY <5>1, Zenon
        <5> QED BY <4>1, <5>2 DEF q
      <4>3. h[Quotient(i)] = Divided(g, Quotient(i))
        <5>1. Quotient(i) \in -n .. n
          BY <1>2, <4>1
        <5> QED BY <5>1, Zenon
      <4> QED BY <4>2, <4>3 DEF Divided
    <3> QED BY <3>1, <3>2
  <2>4. DigitsTo(h, n)
    BY <2>3 DEF DigitsTo
  <2> QED BY <2>4
<1> QED BY <1>3, <1>4

(* and one choice of them only. *)
LEMMA DigitsToUnique ==
  ASSUME NEW m \in Nat, NEW n \in Nat, NEW g, NEW h,
         DigitsTo(g, m), DigitsTo(h, n),
         NEW i \in Int, Magnitude(i) <= m, Magnitude(i) <= n
  PROVE  g[i] = h[i]
<1> DEFINE Bad(k) == \E j \in Int : /\ Magnitude(j) = k /\ k <= m /\ k <= n
                                   /\ g[j] # h[j]
           T == {k \in Nat : Bad(k)}
<1> SUFFICES ASSUME T # {} PROVE FALSE
  BY DEF Magnitude
<1>1. PICK k \in T : \A l \in T : k <= l
  <2>1. T \subseteq Nat
    OBVIOUS
  <2> HIDE DEF T
  <2> QED BY <2>1, LeastExists
<1>2. PICK j \in Int : /\ Magnitude(j) = k /\ k <= m /\ k <= n /\ g[j] # h[j]
  OBVIOUS
<1>3. g[j] = Divided(g, j) /\ h[j] = Divided(h, j)
  <2>1. j \in -m .. m /\ j \in -n .. n
    BY <1>2 DEF Magnitude
  <2> QED BY <2>1, Zenon DEF DigitsTo
<1>4. Quotient(j) # 0 => g[Quotient(j)] = h[Quotient(j)]
  <2> SUFFICES ASSUME Quotient(j) # 0 PROVE g[Quotient(j)] = h[Quotient(j)]
    OBVIOUS
  <2> DEFINE q == Quotient(j)
  <2>1. q \in Int /\ Magnitude(q) \in Nat /\ Magnitude(q) < k
    BY <1>2, QuotientSmaller
  <2>2. Magnitude(q) <= m /\ Magnitude(q) <= n
    BY <1>2, <2>1
  <2>3. ~(Magnitude(q) \in T)
    BY <1>1, <2>1
  <2> HIDE DEF q
  <2>4. g[q] = h[q]
    BY <2>1, <2>2, <2>3
  <2> QED BY <2>4 DEF q
<1> QED BY <1>2, <1>3, <1>4 DEF Divided

(* convert's recursion is well-founded: DigitsOf is what its text says.    *)
LEMMA DigitsOfIs == \A i \in Int : DigitsOf[i] = Divided(DigitsOf, i)
<1> DEFINE G(n) == CHOOSE g : DigitsTo(g, n)
           f == [i \in Int |-> G(Magnitude(i))[i]]
<1>1. ASSUME NEW n \in Nat PROVE DigitsTo(G(n), n)
  BY DigitsToExists
<1> HIDE DEF G
<1>2. ASSUME NEW i \in Int PROVE f[i] = Divided(f, i)
  <2>1. Magnitude(i) \in Nat /\ i \in -Magnitude(i) .. Magnitude(i)
    BY DEF Magnitude
  <2>2. DigitsTo(G(Magnitude(i)), Magnitude(i))
    BY <1>1, <2>1
  <2>3. f[i] = Divided(G(Magnitude(i)), i)
    <3>1. f[i] = G(Magnitude(i))[i]
      OBVIOUS
    <3> QED BY <2>1, <2>2, <3>1, Zenon DEF DigitsTo
  <2>4. Quotient(i) # 0 => f[Quotient(i)] = G(Magnitude(i))[Quotient(i)]
    <3> SUFFICES ASSUME Quotient(i) # 0
                 PROVE  f[Quotient(i)] = G(Magnitude(i))[Quotient(i)]
      OBVIOUS
    <3> DEFINE q == Quotient(i)
    <3>1. q \in Int /\ Magnitude(q) \in Nat /\ Magnitude(q) <= Magnitude(i)
      BY <2>1, QuotientSmaller DEF Magnitude
    <3> HIDE DEF q
    <3>2. f[q] = G(Magnitude(q))[q]
      BY <3>1
    <3>3. DigitsTo(G(Magnitude(q)), Magnitude(q))
      BY <1>1, <3>1
    <3>4. Magnitude(q) <= Magnitude(q)
      BY <3>1
    <3>5. G(Magnitude(q))[q] = G(Magnitude(i))[q]
      BY <2>1, <2>2, <3>1, <3>3, <3>4, DigitsToUnique
    <3> QED BY <3>2, <3>5 DEF q
  <2> QED BY <2>3, <2>4 DEF Divided
<1>3. f = [i \in Int |-> Divided(f, i)]
  BY <1>2
<1> HIDE DEF f
<1>4. DigitsOf = [i \in Int |-> Divided(DigitsOf, i)]
  BY <1>3, Zenon DEF DigitsOf, Divided
<1> QED BY <1>4, Zenon

(* Every digit is one, and there is at least one. *)
LEMMA DigitsOfType ==
  \A i \in Int : DigitsOf[i] \in Seq(0 .. 9) /\ Len(DigitsOf[i]) >= 1
<1> DEFINE Bad(k) == \E j \in Int : /\ Magnitude(j) = k
                                   /\ ~ /\ DigitsOf[j] \in Seq(0 .. 9)
                                        /\ Len(DigitsOf[j]) >= 1
           T == {k \in Nat : Bad(k)}
<1> SUFFICES ASSUME T # {} PROVE FALSE
  BY QuotientSmaller
<1>1. PICK k \in T : \A l \in T : k <= l
  <2>1. T \subseteq Nat
    OBVIOUS
  <2> HIDE DEF T
  <2> QED BY <2>1, LeastExists
<1>2. PICK j \in Int : /\ Magnitude(j) = k
                       /\ ~ /\ DigitsOf[j] \in Seq(0 .. 9)
                            /\ Len(DigitsOf[j]) >= 1
  OBVIOUS
<1> DEFINE q == Quotient(j)
           d == zero(Remainder(j))
<1>3. q \in Int /\ Magnitude(q) \in Nat /\ (q # 0 => Magnitude(q) < k)
  BY <1>2, QuotientSmaller
<1>4. d \in 0 .. 9
  BY LastDigit
<1>5. DigitsOf[j] = IF q = 0 THEN <<d>> ELSE DigitsOf[q] \o <<d>>
  BY DigitsOfIs DEF Divided
<1> HIDE DEF q, d
<1>6. CASE q = 0
  BY <1>2, <1>4, <1>5, <1>6
<1>7. CASE q # 0
  <2>1. ~(Magnitude(q) \in T)
    BY <1>1, <1>3, <1>7
  <2>2. DigitsOf[q] \in Seq(0 .. 9) /\ Len(DigitsOf[q]) >= 1
    BY <1>3, <2>1
  <2> QED BY <1>2, <1>4, <1>5, <1>7, <2>2
<1> QED BY <1>6, <1>7

(* One more digit for a number ten times as large. *)
LEMMA OneMoreDigit ==
  ASSUME NEW n \in Nat, NEW k \in Nat \ {0},
         \A i \in Int : -n <= i /\ i <= n => Len(DigitsOf[i]) <= k,
         NEW i \in Int, -(10 * n + 9) <= i, i <= 10 * n + 9
  PROVE  Len(DigitsOf[i]) <= k + 1
<1> DEFINE q == Quotient(i)
           d == zero(Remainder(i))
<1>1. DigitsOf[i] = IF q = 0 THEN <<d>> ELSE DigitsOf[q] \o <<d>>
  BY DigitsOfIs DEF Divided
<1>2. q \in Int /\ -n <= q /\ q <= n
  <2> DEFINE r == Remainder(i)
  <2>1. /\ q \in Int /\ r \in Int /\ i = 10 * q + r
        /\ i >= 0 => q >= 0 /\ r \in 0 .. 9
        /\ i <= 0 => q <= 0 /\ -r \in 0 .. 9
    BY Division
  <2> HIDE DEF q, r
  <2> QED BY <2>1 DEF Magnitude
<1> HIDE DEF q, d
<1>3. DigitsOf[q] \in Seq(0 .. 9) /\ Len(DigitsOf[q]) <= k
  BY <1>2, DigitsOfType
<1>4. Len(<<d>>) = 1 /\ <<d>> \in Seq({d})
  OBVIOUS
<1>5. q # 0 => Len(DigitsOf[i]) = Len(DigitsOf[q]) + 1
  <2>1. ASSUME NEW s \in Seq(0 .. 9) PROVE Len(s \o <<d>>) = Len(s) + 1
    OBVIOUS
  <2> QED BY <1>1, <1>3, <2>1
<1>6. Len(DigitsOf[q]) \in Nat
  BY <1>3
<1> QED BY <1>1, <1>3, <1>4, <1>5, <1>6

(* A 32-bit int has at most ten digits. *)
LEMMA TenDigits ==
  \A i \in IntRange : i \in Int /\ Len(DigitsOf[i]) \in 1 .. 10
<1> DEFINE Short(n, k) ==
             \A i \in Int : -n <= i /\ i <= n => Len(DigitsOf[i]) <= k
<1>1. ASSUME NEW n \in Nat, NEW k \in Nat \ {0}, Short(n, k)
      PROVE  Short(10 * n + 9, k + 1)
  BY <1>1, OneMoreDigit
<1>2. Short(9, 1)
  <2>1. ASSUME NEW i \in Int, -9 <= i, i <= 9 PROVE Quotient(i) = 0
    <3> DEFINE q == Quotient(i)
               r == Remainder(i)
    <3>1. /\ q \in Int /\ r \in Int /\ i = 10 * q + r
          /\ i >= 0 => q >= 0 /\ r \in 0 .. 9
          /\ i <= 0 => q <= 0 /\ -r \in 0 .. 9
      BY Division
    <3> HIDE DEF q, r
    <3>2. q = 0
      BY <2>1, <3>1
    <3> QED BY <3>2 DEF q
  <2>2. ASSUME NEW i \in Int, -9 <= i, i <= 9 PROVE Len(DigitsOf[i]) <= 1
    <3>1. DigitsOf[i] = <<zero(Remainder(i))>>
      BY <2>1, <2>2, DigitsOfIs DEF Divided
    <3> QED BY <3>1
  <2> QED BY <2>2
<1> HIDE DEF Short
<1>3. Short(9, 1)
  BY <1>2
<1>4. Short(999, 3)
  BY <1>1, <1>3, SMT
<1>5. Short(9999, 4)
  BY <1>1, <1>4, SMT
<1>6. Short(99999, 5)
  BY <1>1, <1>5, SMT
<1>7. Short(999999, 6)
  BY <1>1, <1>6, SMT
<1>8. Short(9999999, 7)
  BY <1>1, <1>7, SMT
<1>9. Short(99999999, 8)
  BY <1>1, <1>8, SMT
<1>10. Short(999999999, 9)
  BY <1>1, <1>9, SMT
<1>11. Short(9999999999, 10)
  BY <1>1, <1>10, SMT
<1>12. Short(9999999999, 10)
  BY <1>1, <1>11, SMT
<1>13. ASSUME NEW i \in IntRange PROVE i \in Int /\ -INT_MAX - 1 <= i /\ i <= INT_MAX
  BY SMT DEF IntRange
<1>14. ASSUME NEW i \in IntRange PROVE Len(DigitsOf[i]) <= 10
  <2>1. i \in Int /\ -9999999999 <= i /\ i <= 9999999999
    BY <1>13, SMT DEF INT_MAX
  <2> QED BY <1>12, <2>1, SMT DEF Short
<1>15. ASSUME NEW i \in IntRange PROVE Len(DigitsOf[i]) \in Nat /\ Len(DigitsOf[i]) >= 1
  <2>1. DigitsOf[i] \in Seq(0 .. 9) /\ Len(DigitsOf[i]) >= 1
    BY <1>13, DigitsOfType
  <2> QED BY <2>1
<1>16. ASSUME NEW i \in IntRange PROVE Len(DigitsOf[i]) \in 1 .. 10
  <2> DEFINE n == Len(DigitsOf[i])
  <2>1. n \in Nat /\ n >= 1 /\ n <= 10
    BY <1>14, <1>15
  <2> HIDE DEF n
  <2>2. n \in 1 .. 10
    BY <2>1
  <2> QED BY <2>2 DEF n
<1> QED BY <1>13, <1>16

------------------------------------------------------------------------------
(* What the digits read as.                                                *)

First(s) == IF s[1] = Minus THEN 2 ELSE 1
Sign(s) == IF s[1] = Minus THEN -1 ELSE 1

Taken(s, r, k) == IF k < First(s) THEN 0 ELSE 10 * r[k - 1] + Sign(s) * s[k]

(* r reads s as far as its n-th digit. *)
ReadTo(s, r, n) == r = [k \in 0 .. n |-> Taken(s, r, k)]

(* Reading is defined at every position. *)
LEMMA ReadToExists ==
  ASSUME NEW s
  PROVE  \A n \in Nat : \E r : ReadTo(s, r, n)
<1> DEFINE T == {n \in Nat : ~ \E r : ReadTo(s, r, n)}
<1> SUFFICES ASSUME T # {} PROVE FALSE
  OBVIOUS
<1>1. PICK n \in T : \A m \in T : n <= m
  <2>1. T \subseteq Nat
    OBVIOUS
  <2> HIDE DEF T
  <2> QED BY <2>1, LeastExists
<1>2. n \in Nat /\ (First(s) = 1 \/ First(s) = 2)
  BY DEF First
<1>3. CASE n = 0
  <2> DEFINE r == [k \in 0 .. 0 |-> 0]
  <2>1. ASSUME NEW k \in 0 .. 0 PROVE Taken(s, r, k) = 0
    BY <1>2 DEF Taken
  <2>2. ReadTo(s, r, 0)
    BY <2>1 DEF ReadTo
  <2> QED BY <1>3, <2>2
<1>4. CASE n # 0
  <2>1. n - 1 \in Nat /\ ~(n - 1 \in T)
    BY <1>1, <1>2, <1>4
  <2>2. PICK r : ReadTo(s, r, n - 1)
    BY <2>1
  <2> DEFINE h == [k \in 0 .. n |-> Taken(s, r, k)]
  <2>3. ASSUME NEW k \in 0 .. n PROVE Taken(s, h, k) = Taken(s, r, k)
    <3>1. CASE k < First(s)
      BY <3>1 DEF Taken
    <3>2. CASE ~(k < First(s))
      <4> DEFINE j == k - 1
      <4>1. j \in 0 .. n - 1 /\ j \in 0 .. n
        BY <1>2, <3>2
      <4> HIDE DEF j
      <4>2. h[j] = Taken(s, r, j)
        BY <4>1, Zenon
      <4>3. r[j] = Taken(s, r, j)
        BY <2>2, <4>1, Zenon DEF ReadTo
      <4>4. h[j] = r[j]
        BY <4>2, <4>3
      <4> HIDE DEF h
      <4> QED BY <4>4 DEF Taken, j
    <3> QED BY <3>1, <3>2
  <2>4. ReadTo(s, h, n)
    BY <2>3 DEF ReadTo
  <2> QED BY <2>4
<1> QED BY <1>3, <1>4

(* Reads(s) is the end of such a reading. *)
LEMMA ReadsIs ==
  ASSUME NEW s, Len(s) \in Nat
  PROVE  \E r : ReadTo(s, r, Len(s)) /\ Reads(s) = r[Len(s)]
<1> DEFINE r == CHOOSE q : ReadTo(s, q, Len(s))
<1>1. ReadTo(s, r, Len(s))
  BY ReadToExists
<1>2. Reads(s) = r[Len(s)]
  BY Zenon DEF Reads, ReadTo, Taken, First, Sign
<1> QED BY <1>1, <1>2

(* Reading the digits of i up, or down for a negative one, ends at i. *)
LEMMA ReadBack ==
  \A i \in Int : \A r :
    LET s == DigitsOf[i]
        sign == IF i < 0 THEN -1 ELSE 1
    IN  (r[0] = 0 /\ \A k \in 1 .. Len(s) : r[k] = 10 * r[k - 1] + sign * s[k])
          => r[Len(s)] = i
<1> DEFINE sign(i) == IF i < 0 THEN -1 ELSE 1
           Read(i, r) ==
             \A k \in 1 .. Len(DigitsOf[i]) :
               r[k] = 10 * r[k - 1] + sign(i) * DigitsOf[i][k]
           Wrong(i) == \E r : r[0] = 0 /\ Read(i, r) /\ r[Len(DigitsOf[i])] # i
           Bad(n) == \E j \in Int : Magnitude(j) = n /\ Wrong(j)
           T == {n \in Nat : Bad(n)}
<1>0. SUFFICES ASSUME T # {} PROVE FALSE
  <2>1. \A j \in Int : Magnitude(j) \in Nat
    BY QuotientSmaller
  <2>2. T = {} => \A j \in Int : ~Wrong(j)
    <3> HIDE DEF Wrong
    <3> QED BY <2>1
  <2> QED BY <2>2
<1>1. PICK n \in T : \A l \in T : n <= l
  <2>1. T \subseteq Nat
    OBVIOUS
  <2> HIDE DEF T
  <2> QED BY <1>0, <2>1, LeastExists
<1>2. PICK j \in Int : Magnitude(j) = n /\ Wrong(j)
  <2> HIDE DEF Wrong
  <2> QED BY <1>1
<1>3. PICK r : r[0] = 0 /\ Read(j, r) /\ r[Len(DigitsOf[j])] # j
  <2> HIDE DEF Read
  <2> QED BY <1>2
<1> DEFINE q == Quotient(j)
           d == zero(Remainder(j))
<1>4. q \in Int /\ Magnitude(q) \in Nat /\ (q # 0 => Magnitude(q) < n)
  BY <1>2, QuotientSmaller
<1>5. d \in 0 .. 9 /\ j = IF j < 0 THEN 10 * q - d ELSE 10 * q + d
  BY LastDigit
<1>6. DigitsOf[j] = IF q = 0 THEN <<d>> ELSE DigitsOf[q] \o <<d>>
  BY DigitsOfIs DEF Divided
<1>7. (j >= 0 => q >= 0) /\ (j <= 0 => q <= 0)
  BY Division
<1> HIDE DEF q, d
<1>8. CASE q = 0
  <2>1. DigitsOf[j] = <<d>> /\ Len(DigitsOf[j]) = 1 /\ DigitsOf[j][1] = d
    BY <1>6, <1>8
  <2>2. r[1] = 10 * r[1 - 1] + sign(j) * d
    BY <1>3, <2>1
  <2>3. 1 - 1 = 0
    OBVIOUS
  <2>4. r[1] = 10 * 0 + sign(j) * d
    BY <1>3, <2>2, <2>3
  <2>5. r[1] = j
    BY <1>5, <1>8, <2>4
  <2> QED BY <1>3, <2>1, <2>5
<1>9. CASE q # 0
  <2> DEFINE s == DigitsOf[q]
             m == Len(s)
  <2>1. s \in Seq(0 .. 9) /\ m \in Nat
    BY <1>4, DigitsOfType
  <2>2. DigitsOf[j] = s \o <<d>>
    BY <1>6, <1>9
  <2> HIDE DEF s
  <2>3. /\ Len(DigitsOf[j]) = m + 1 /\ DigitsOf[j][m + 1] = d
        /\ \A k \in 1 .. m : DigitsOf[j][k] = s[k]
    BY <1>5, <2>1, <2>2
  <2>4. sign(q) = sign(j)
    BY <1>4, <1>7, <1>9
  <2> HIDE DEF m, sign
  <2>5. ASSUME NEW k \in 1 .. m
        PROVE  r[k] = 10 * r[k - 1] + sign(q) * s[k]
    <3>1. k \in 1 .. Len(DigitsOf[j])
      BY <2>1, <2>3
    <3>2. r[k] = 10 * r[k - 1] + sign(j) * DigitsOf[j][k]
      BY <1>3, <3>1
    <3> QED BY <2>3, <2>4, <3>2
  <2>6. ~(Magnitude(q) \in T)
    BY <1>1, <1>4, <1>9
  <2>7. ~Wrong(q)
    <3> HIDE DEF Wrong
    <3> QED BY <1>4, <2>6
  <2>8. r[m] = q
    <3>1. Read(q, r)
      BY <2>5 DEF s, m
    <3>2. r[Len(DigitsOf[q])] = q
      <4> HIDE DEF Read
      <4> QED BY <1>3, <2>7, <3>1
    <3> QED BY <3>2 DEF s, m
  <2>9. r[m + 1] = 10 * r[m + 1 - 1] + sign(j) * d
    BY <1>3, <2>1, <2>3
  <2>10. m + 1 - 1 = m
    BY <2>1
  <2>11. r[m + 1] = 10 * q + sign(j) * d
    BY <2>8, <2>9, <2>10
  <2>12. r[m + 1] = j
    BY <1>4, <1>5, <2>11 DEF sign
  <2> QED BY <1>3, <2>3, <2>12
<1> QED BY <1>8, <1>9

(* What convert writes reads as the int it was given. *)
LEMMA ConvertReads ==
  ASSUME NEW v \in Int
  PROVE  convert(v) \in Seq(Digits) /\ Reads(convert(v)) = v
<1> DEFINE s == DigitsOf[v]
           c == convert(v)
<1>1. s \in Seq(0 .. 9) /\ Len(s) \in Nat /\ Len(s) >= 1
  BY DigitsOfType
<1>2. c = IF v < 0 THEN <<Minus>> \o s ELSE s
  BY DEF convert
<1> HIDE DEF s, c
<1>3. s \in Seq(Digits) /\ <<Minus>> \in Seq(Digits)
  BY <1>1 DEF Digits, Minus
<1>4. c \in Seq(Digits)
  BY <1>2, <1>3
<1>5. Len(c) \in Nat
  BY <1>4
<1>6. PICK r : ReadTo(c, r, Len(c)) /\ Reads(c) = r[Len(c)]
  BY <1>5, ReadsIs
<1>7. \A k \in 0 .. Len(c) : r[k] = Taken(c, r, k)
  BY <1>6, Zenon DEF ReadTo
<1>8. CASE v >= 0
  <2>1. c = s
    BY <1>2, <1>8
  <2>2. s[1] \in 0 .. 9
    BY <1>1
  <2>3. First(c) = 1 /\ Sign(c) = 1
    BY <2>1, <2>2 DEF First, Sign, Minus
  <2>4. r[0] = 0
    BY <1>5, <1>7, <2>3 DEF Taken
  <2>5. ASSUME NEW k \in 1 .. Len(s)
        PROVE  r[k] = 10 * r[k - 1] + (IF v < 0 THEN -1 ELSE 1) * s[k]
    <3>1. r[k] = 10 * r[k - 1] + 1 * s[k]
      BY <1>5, <1>7, <2>1, <2>3 DEF Taken
    <3>2. (IF v < 0 THEN -1 ELSE 1) = 1
      BY <1>8
    <3> QED BY <3>1, <3>2
  <2>6. r[Len(s)] = v
    BY <2>4, <2>5, ReadBack DEF s
  <2> QED BY <1>4, <1>6, <2>1, <2>6 DEF c
<1>9. CASE v < 0
  <2>1. /\ c = <<Minus>> \o s /\ c[1] = Minus /\ Len(c) = Len(s) + 1
        /\ \A k \in 1 .. Len(s) : c[k + 1] = s[k]
    BY <1>1, <1>2, <1>3, <1>9
  <2>3. First(c) = 2 /\ Sign(c) = -1
    BY <2>1 DEF First, Sign
  <2> DEFINE p == [k \in 0 .. Len(s) |-> r[k + 1]]
  <2>4. p[0] = 0
    <3>1. r[1] = 0
      BY <1>1, <1>7, <2>1, <2>3 DEF Taken
    <3> QED BY <1>1, <3>1
  <2>5. ASSUME NEW k \in 1 .. Len(s) PROVE p[k] = 10 * p[k - 1] + (-1) * s[k]
    <3>1. r[k + 1] = 10 * r[k + 1 - 1] + (-1) * c[k + 1]
      BY <1>1, <1>7, <2>1, <2>3 DEF Taken
    <3>2. p[k] = r[k + 1] /\ p[k - 1] = r[k - 1 + 1] /\ k - 1 + 1 = k + 1 - 1
      BY <1>1
    <3> QED BY <2>1, <3>1, <3>2
  <2>6. p[Len(s)] = r[Len(c)]
    BY <1>1, <2>1
  <2> HIDE DEF p
  <2>7. p[Len(s)] = v
    BY <1>9, <2>4, <2>5, ReadBack DEF s
  <2> QED BY <1>4, <1>6, <2>6, <2>7 DEF c
<1> QED BY <1>8, <1>9

(* A number is at most ten digits and a sign long. *)
LEMMA ConvertLength ==
  ASSUME NEW v \in IntRange
  PROVE  v \in Int /\ Len(convert(v)) \in 1 .. 11
<1> DEFINE s == DigitsOf[v]
<1>1. v \in Int /\ s \in Seq(0 .. 9) /\ Len(s) \in 1 .. 10
  BY TenDigits, DigitsOfType
<1> HIDE DEF s
<1>2. s \in Seq(Digits) /\ <<Minus>> \in Seq(Digits) /\ Len(<<Minus>>) = 1
  BY <1>1 DEF Digits, Minus
<1>3. Len(<<Minus>> \o s) = 1 + Len(s)
  BY <1>2
<1> DEFINE c == convert(v)
<1>4. c = IF v < 0 THEN <<Minus>> \o s ELSE s
  BY DEF convert, s
<1> HIDE DEF c
<1>5. Len(c) \in 1 .. 11
  <2>1. ASSUME NEW n \in 1 .. 10 PROVE n \in 1 .. 11 /\ 1 + n \in 1 .. 11
    OBVIOUS
  <2>2. Len(c) = 1 + Len(s) \/ Len(c) = Len(s)
    BY <1>3, <1>4
  <2>3. Len(s) \in 1 .. 11 /\ 1 + Len(s) \in 1 .. 11
    BY <1>1, <2>1
  <2> QED BY <2>2, <2>3, Zenon
<1> QED BY <1>1, <1>5 DEF c

------------------------------------------------------------------------------
(* The buffer.                                                             *)

LEMMA WhatsType ==
  /\ "time" \in Whats /\ "microseconds" \in Whats /\ "level" \in Whats
  /\ "error" \in Whats /\ "open" \in Whats /\ "errno" \in Whats
  /\ "close" \in Whats /\ "func" \in Whats /\ "space" \in Whats
  /\ "string" \in Whats /\ "int" \in Whats /\ "dash" \in Whats
  /\ "basename" \in Whats /\ "colon" \in Whats /\ "line" \in Whats
  /\ "newline" \in Whats
BY DEF Whats

LEMMA TextType ==
  ASSUME NEW what \in Whats, NEW n \in Nat
  PROVE  Text(what, n) \in Piece /\ Text(what, n).len = n
         /\ Text(what, n).what = what
BY DEF Text, Piece

LEMMA NumberType ==
  ASSUME NEW what \in Whats, NEW v \in Ints \cup Errnos \cup {LineNo}
  PROVE  /\ Number(what, v) \in Piece /\ Number(what, v).len \in 1 .. 11
         /\ Number(what, v).what = what
<1>1. v \in IntRange
  BY LoggingAssumption
<1>2. v \in Int /\ convert(v) \in Seq(Digits) /\ Len(convert(v)) \in 1 .. 11
  BY <1>1, ConvertLength, ConvertReads
<1> QED BY <1>2 DEF Number, Piece

(* A piece behind the others is in bounds if less than all the room is used. *)
LEMMA BehindType ==
  ASSUME NEW b \in Buffers, NEW p \in Piece, p.len < avail(b)
  PROVE  /\ Behind(b, p) \in Buffers
         /\ Behind(b, p).text = Append(b.text, p)
         /\ Behind(b, p).size = b.size + p.len
<1>1. /\ b.text \in Seq(Piece) /\ b.size \in 0 .. kSmallBuffer - 1
      /\ p.len \in Nat /\ kSmallBuffer \in Nat
  BY LoggingAssumption DEF Buffers, Piece
<1>2. Append(b.text, p) \in Seq(Piece) /\ b.size + p.len \in 0 .. kSmallBuffer - 1
  BY <1>1 DEF avail
<1> QED BY <1>2 DEF Behind, Buffers

LEMMA AppendType ==
  ASSUME NEW b \in Buffers, NEW p \in Piece
  PROVE  append(b, p) \in Buffers
<1>1. avail(b) > p.len <=> p.len < avail(b)
  BY LoggingAssumption DEF avail, Buffers, Piece
<1> QED BY <1>1, BehindType DEF append

LEMMA AppendText ==
  ASSUME NEW b \in Buffers, NEW what \in Whats, NEW n \in Nat
  PROVE  append(b, Text(what, n)) \in Buffers
BY TextType, AppendType

LEMMA FormatType ==
  ASSUME NEW b \in Buffers, NEW p \in Piece, p.len \in 1 .. 11
  PROVE  formatInteger(b, p) \in Buffers
<1>1. avail(b) >= kMaxNumericSize => p.len < avail(b)
  BY LoggingAssumption DEF avail, Buffers, Piece, kMaxNumericSize
<1> QED BY <1>1, BehindType DEF formatInteger

LEMMA EmptyType == Empty \in Buffers
BY LoggingAssumption DEF Empty, Buffers

(* What formatTime and the constructors put into a line stays in bounds. *)
LEMMA HeaderType ==
  ASSUME NEW c \in [macro : DOMAIN Level, errno : Errnos \cup {0}]
  PROVE  Header(c) \in Buffers
<1> DEFINE b1 == append(Empty, Text("time", 17))
           b2 == append(b1, Text("microseconds", 9))
           b3 == append(b2, Text("level", 6))
           b4 == append(b3, Text("error", ErrorLen))
           b5 == append(b4, Text("open", 8))
           b6 == formatInteger(b5, Number("errno", c.errno))
           b7 == append(b6, Text("close", 2))
           b8 == append(b3, Text("func", FuncLen))
           b9 == append(b8, Text("space", 1))
<1>1. b1 \in Buffers
  BY EmptyType, AppendText, WhatsType
<1> HIDE DEF b1
<1>2. b2 \in Buffers
  BY <1>1, AppendText, WhatsType
<1> HIDE DEF b2
<1>3. b3 \in Buffers
  BY <1>2, AppendText, WhatsType
<1> HIDE DEF b3
<1>4. b4 \in Buffers
  BY <1>3, AppendText, WhatsType, LoggingAssumption
<1> HIDE DEF b4
<1>5. b5 \in Buffers
  BY <1>4, AppendText, WhatsType
<1> HIDE DEF b5
<1>6. c.errno # 0 => b6 \in Buffers
  <2>1. c.errno # 0 => c.errno \in Errnos
    OBVIOUS
  <2> QED BY <1>5, <2>1, FormatType, NumberType, WhatsType
<1> HIDE DEF b6
<1>7. c.errno # 0 => b7 \in Buffers
  BY <1>6, AppendText, WhatsType
<1> HIDE DEF b7
<1>8. b8 \in Buffers
  BY <1>3, AppendText, WhatsType, LoggingAssumption
<1> HIDE DEF b8
<1>9. b9 \in Buffers
  BY <1>8, AppendText, WhatsType
<1> HIDE DEF b9
<1>10. Header(c) = IF c.errno # 0 THEN b7
                   ELSE IF c.macro \in WithFunc THEN b9 ELSE b3
  BY DEF Header, b1, b2, b3, b4, b5, b6, b7, b8, b9
<1> QED BY <1>3, <1>7, <1>9, <1>10

(* How finish() leaves a line: in bounds, with its newline unless it is    *)
(* full to the last byte, and with its location if there was room.         *)
LEMMA FinishedLine ==
  ASSUME NEW b \in Buffers
  PROVE  LET f == Finished(b)
         IN /\ f \in Buffers
            /\ Ends(f.text, <<"newline">>) \/ f.size = kSmallBuffer - 1
            /\ b.size + 3 + BaseLen + 1 + kMaxNumericSize <= kSmallBuffer =>
                 Ends(f.text, <<"dash", "basename", "colon", "line", "newline">>)
<1> DEFINE p1 == Text("dash", 3)
           p2 == Text("basename", BaseLen)
           p3 == Text("colon", 1)
           p4 == Number("line", LineNo)
           p5 == Text("newline", 1)
           b1 == append(b, p1)
           b2 == append(b1, p2)
           b3 == append(b2, p3)
           b4 == formatInteger(b3, p4)
           f == append(b4, p5)
<1>1. /\ p1 \in Piece /\ p1.len = 3 /\ p1.what = "dash"
      /\ p2 \in Piece /\ p2.len = BaseLen /\ p2.what = "basename"
      /\ p3 \in Piece /\ p3.len = 1 /\ p3.what = "colon"
      /\ p5 \in Piece /\ p5.len = 1 /\ p5.what = "newline"
  BY TextType, WhatsType, LoggingAssumption
<1>2. p4 \in Piece /\ p4.len \in 1 .. 11 /\ p4.what = "line"
  BY NumberType, WhatsType
<1> HIDE DEF p1, p2, p3, p4, p5
<1>3. b1 \in Buffers
  BY <1>1, AppendType
<1> HIDE DEF b1
<1>4. b2 \in Buffers
  BY <1>1, <1>3, AppendType
<1> HIDE DEF b2
<1>5. b3 \in Buffers
  BY <1>1, <1>4, AppendType
<1> HIDE DEF b3
<1>6. b4 \in Buffers
  BY <1>2, <1>5, FormatType
<1> HIDE DEF b4
<1>7. f \in Buffers
  BY <1>1, <1>6, AppendType
<1>8. Finished(b) = f
  BY DEF Finished, f, b1, b2, b3, b4, p1, p2, p3, p4, p5
<1>9. Ends(f.text, <<"newline">>) \/ f.size = kSmallBuffer - 1
  <2>1. CASE avail(b4) > 1
    <3>1. f.text = Append(b4.text, p5) /\ b4.text \in Seq(Piece)
      BY <1>1, <1>6, <2>1 DEF append, Behind, Buffers
    <3> QED BY <1>1, <3>1 DEF Ends
  <2>2. CASE ~(avail(b4) > 1)
    <3>1. f = b4
      BY <1>1, <2>2 DEF append
    <3> QED BY <1>6, <2>2, <3>1, LoggingAssumption DEF avail, Buffers
  <2> QED BY <2>1, <2>2
<1>10. ASSUME b.size + 3 + BaseLen + 1 + kMaxNumericSize <= kSmallBuffer
       PROVE  Ends(f.text, <<"dash", "basename", "colon", "line", "newline">>)
  <2>1. b1 = Behind(b, p1) /\ b1.size = b.size + 3
    BY <1>1, <1>10, LoggingAssumption
       DEF b1, append, avail, Behind, Buffers, kMaxNumericSize
  <2>2. b2 = Behind(b1, p2) /\ b2.size = b.size + 3 + BaseLen
    BY <1>1, <1>10, <2>1, LoggingAssumption
       DEF b2, append, avail, Behind, Buffers, kMaxNumericSize
  <2>3. b3 = Behind(b2, p3) /\ b3.size = b.size + 3 + BaseLen + 1
    BY <1>1, <1>10, <2>2, LoggingAssumption
       DEF b3, append, avail, Behind, Buffers, kMaxNumericSize
  <2>4. b4 = Behind(b3, p4) /\ b4.size = b3.size + p4.len
    BY <1>10, <2>3, LoggingAssumption
       DEF b4, formatInteger, avail, Behind, Buffers, kMaxNumericSize
  <2>5. avail(b4) > 1
    <3>1. b.size \in Nat /\ kSmallBuffer \in Nat /\ BaseLen \in Nat
      BY LoggingAssumption DEF Buffers
    <3>2. b4.size = b.size + 3 + BaseLen + 1 + p4.len
      BY <2>3, <2>4
    <3> QED BY <1>2, <1>10, <3>1, <3>2 DEF avail, kMaxNumericSize
  <2>6. f = Behind(b4, p5)
    BY <1>1, <2>5 DEF append
  <2>7. f.text = Append(Append(Append(Append(Append(b.text, p1), p2), p3), p4), p5)
    <3>1. /\ b1.text = Append(b.text, p1) /\ b2.text = Append(b1.text, p2)
          /\ b3.text = Append(b2.text, p3) /\ b4.text = Append(b3.text, p4)
      BY <2>1, <2>2, <2>3, <2>4 DEF Behind
    <3>2. f.text = Append(b4.text, p5)
      BY <2>6 DEF Behind
    <3> QED BY <3>1, <3>2
  <2>8. ASSUME NEW s \in Seq(Piece)
        PROVE  Ends(Append(Append(Append(Append(Append(s, p1), p2), p3), p4), p5),
                    <<"dash", "basename", "colon", "line", "newline">>)
    BY <1>1, <1>2 DEF Ends
  <2> QED BY <2>7, <2>8 DEF Buffers
<1> QED BY <1>7, <1>8, <1>9, <1>10

------------------------------------------------------------------------------
(* The steps.                                                              *)

LEMMA InitIInv == Init => IInv
<1> SUFFICES ASSUME Init PROVE IInv
  OBVIOUS
<1>1. TypeOK
  <2>1. stream \in [Threads -> Buffers]
    BY EmptyType DEF Init
  <2>2. /\ pc \in [Threads -> Points]
        /\ call \in [Threads -> [macro : DOMAIN Level, errno : Errnos \cup {0}]]
        /\ g_logLevel \in Int
    BY DEF Init, Points, Level
  <2> QED BY <2>1, <2>2, LoggingAssumption DEF Init, TypeOK
<1>2. AllWellEnded /\ FatalFlushed
  BY DEF Init, AllWellEnded, FatalFlushed
<1> QED BY <1>1, <1>2 DEF IInv

(* The outputs and what is flushed of them stay, and nobody comes to abort. *)
LEMMA QuietStep ==
  ASSUME IInv, TypeOK', UNCHANGED <<outputs, flushed>>,
         \A t \in Threads : pc'[t] = "abort" => pc[t] = "abort"
  PROVE  IInv'
<1>1. AllWellEnded'
  BY DEF IInv, AllWellEnded
<1>2. FatalFlushed'
  BY DEF IInv, FatalFlushed
<1> QED BY <1>1, <1>2 DEF IInv

LEMMA BeginStep ==
  ASSUME IInv, NEW t \in Threads, NEW m \in Macros, NEW e \in Errnos \cup {0},
         Begin(t, m, e)
  PROVE  IInv'
<1> USE DEF IInv, Begin
<1>1. TypeOK'
  <2>1. [macro |-> m, errno |-> e] \in [macro : DOMAIN Level, errno : Errnos \cup {0}]
    BY LoggingAssumption
  <2>2. /\ pc' \in [Threads -> Points]
        /\ call' \in [Threads -> [macro : DOMAIN Level, errno : Errnos \cup {0}]]
        /\ stream' \in [Threads -> Buffers]
    BY <2>1, EmptyType DEF TypeOK, Points
  <2>3. pieces' \in [Threads -> 0 .. MaxPieces] /\ begun' \in 0 .. MaxLines
    BY LoggingAssumption DEF TypeOK
  <2> QED BY <2>2, <2>3 DEF TypeOK
<1> QED BY <1>1, QuietStep DEF TypeOK

LEMMA EndFormatStep ==
  ASSUME IInv, NEW t \in Threads, EndFormat(t)
  PROVE  IInv'
<1>1. TypeOK'
  BY DEF IInv, EndFormat, TypeOK, Points
<1> QED BY <1>1, QuietStep DEF EndFormat, IInv, TypeOK

LEMMA StampStep ==
  ASSUME IInv, NEW t \in Threads, Stamp(t)
  PROVE  IInv'
<1>1. Header(call[t]) \in Buffers
  BY HeaderType DEF IInv, TypeOK
<1>2. TypeOK'
  BY <1>1 DEF IInv, Stamp, TypeOK, Points
<1> QED BY <1>2, QuietStep DEF Stamp, IInv, TypeOK

LEMMA PutStep ==
  ASSUME IInv, NEW t \in Threads, NEW b \in Buffers, Put(t, b)
  PROVE  IInv'
<1>1. TypeOK'
  <2>1. stream' \in [Threads -> Buffers]
    BY DEF IInv, Put, TypeOK
  <2>2. pieces' \in [Threads -> 0 .. MaxPieces]
    BY LoggingAssumption DEF IInv, Put, TypeOK
  <2> QED BY <2>1, <2>2 DEF IInv, Put, TypeOK
<1> QED BY <1>1, QuietStep DEF Put

LEMMA PutStringStep ==
  ASSUME IInv, NEW t \in Threads, NEW n \in Lengths, PutString(t, n)
  PROVE  IInv'
<1>1. append(stream[t], Text("string", n)) \in Buffers
  BY AppendText, WhatsType, LoggingAssumption DEF IInv, TypeOK
<1> QED BY <1>1, PutStep DEF PutString

LEMMA PutIntStep ==
  ASSUME IInv, NEW t \in Threads, NEW v \in Ints, PutInt(t, v)
  PROVE  IInv'
<1>1. formatInteger(stream[t], Number("int", v)) \in Buffers
  BY FormatType, NumberType, WhatsType DEF IInv, TypeOK
<1> QED BY <1>1, PutStep DEF PutInt

(* The line is the last of outputs, well ended, and its thread not aborting. *)
LEMMA DestroyStep ==
  ASSUME IInv, NEW t \in Threads, Destroy(t)
  PROVE  IInv'
<1> DEFINE line == LineOf(t)
<1>1. stream[t] \in Buffers
  BY DEF IInv, TypeOK
<1>2. line \in Lines /\ WellEnded(line)
  <2>1. line.body = stream[t].size /\ line.buf = Finished(stream[t])
    BY DEF LineOf
  <2>2. stream[t].size \in 0 .. kSmallBuffer - 1
    BY <1>1 DEF Buffers
  <2>3. line \in Lines
    BY <1>1, <2>2, FinishedLine DEF LineOf, Lines
  <2>4. WellEnded(line)
    BY <1>1, <2>1, FinishedLine DEF WellEnded
  <2> QED BY <2>3, <2>4
<1>3. line.by = t
  BY DEF LineOf
<1>4. outputs' = Append(outputs, line)
  BY DEF Destroy
<1> HIDE DEF line
<1>5. outputs \in Seq(Lines)
  BY DEF IInv, TypeOK, Lines
<1>6. /\ outputs' \in Seq(Lines) /\ Len(outputs') = Len(outputs) + 1
      /\ \A i \in 1 .. Len(outputs) : outputs'[i] = outputs[i]
      /\ outputs'[Len(outputs) + 1] = line
  BY <1>2, <1>4, <1>5
<1>7. /\ pc[t] = "body" /\ pc' \in [Threads -> Points]
      /\ \A u \in Threads : pc'[u] = "abort" => pc[u] = "abort" /\ u # t
      /\ stream' \in [Threads -> Buffers]
      /\ UNCHANGED <<call, pieces, g_logLevel, begun, flushed, ended>>
  BY EmptyType DEF Destroy, IInv, TypeOK, Points
<1>8. TypeOK'
  <2>1. flushed' \in 0 .. Len(outputs')
    BY <1>6, <1>7 DEF IInv, TypeOK
  <2> QED BY <1>6, <1>7, <2>1 DEF IInv, TypeOK, Lines
<1>9. ASSUME NEW i \in DOMAIN outputs'
      PROVE  i \in DOMAIN outputs \/ i = Len(outputs) + 1
  BY <1>5, <1>6
<1>10. AllWellEnded'
  BY <1>2, <1>5, <1>6, <1>9 DEF IInv, AllWellEnded
<1>11. FatalFlushed'
  <2> SUFFICES ASSUME NEW u \in Threads, pc'[u] = "abort",
                      NEW i \in DOMAIN outputs', outputs'[i].by = u
               PROVE  i <= flushed
    BY <1>7 DEF FatalFlushed
  <2>1. pc[u] = "abort" /\ u # t
    BY <1>7
  <2>2. i # Len(outputs) + 1
    BY <1>3, <1>6, <2>1
  <2>3. i \in DOMAIN outputs /\ outputs[i].by = u
    BY <1>5, <1>6, <1>9, <2>2
  <2> QED BY <2>1, <2>3 DEF IInv, FatalFlushed
<1> QED BY <1>8, <1>10, <1>11 DEF IInv

LEMMA FlushStep ==
  ASSUME IInv, NEW t \in Threads, Flush(t)
  PROVE  IInv'
<1>1. Len(outputs) \in Nat /\ DOMAIN outputs = 1 .. Len(outputs)
  BY DEF IInv, TypeOK
<1>2. TypeOK'
  BY <1>1 DEF IInv, Flush, TypeOK, Points
<1>3. AllWellEnded'
  BY DEF IInv, Flush, AllWellEnded
<1>4. FatalFlushed'
  BY <1>1 DEF Flush, FatalFlushed
<1> QED BY <1>2, <1>3, <1>4 DEF IInv

LEMMA StdioWritesStep ==
  ASSUME IInv, StdioWrites
  PROVE  IInv'
<1>1. PICK n \in flushed + 1 .. Len(outputs) : flushed' = n
  BY DEF StdioWrites
<1>2. /\ flushed \in Nat /\ Len(outputs) \in Nat /\ n \in Nat /\ flushed <= n
      /\ DOMAIN outputs = 1 .. Len(outputs) /\ n <= Len(outputs)
  BY <1>1 DEF IInv, TypeOK
<1>3. TypeOK'
  BY <1>1, <1>2 DEF IInv, StdioWrites, TypeOK
<1>4. AllWellEnded'
  BY DEF IInv, StdioWrites, AllWellEnded
<1>5. FatalFlushed'
  BY <1>1, <1>2 DEF IInv, StdioWrites, FatalFlushed
<1> QED BY <1>3, <1>4, <1>5 DEF IInv

LEMMA NextStep == IInv /\ [Next]_vars => IInv'
<1> SUFFICES ASSUME IInv, [Next]_vars PROVE IInv'
  OBVIOUS
<1>1. CASE \E t \in Threads : LogStep(t)
  <2>1. PICK t \in Threads : LogStep(t)
    BY <1>1
  <2>2. CASE \E m \in Macros, e \in Errnos \cup {0} : Begin(t, m, e)
    BY <2>2, BeginStep
  <2>3. CASE EndFormat(t)
    BY <2>3, EndFormatStep
  <2>4. CASE Stamp(t)
    BY <2>4, StampStep
  <2>5. CASE \E n \in Lengths : PutString(t, n)
    BY <2>5, PutStringStep
  <2>6. CASE \E v \in Ints : PutInt(t, v)
    BY <2>6, PutIntStep
  <2>7. CASE Destroy(t)
    BY <2>7, DestroyStep
  <2>8. CASE Flush(t)
    BY <2>8, FlushStep
  <2>9. CASE Abort(t)
    <3>1. TypeOK'
      BY <2>9 DEF IInv, Abort, TypeOK
    <3> QED BY <2>9, <3>1, QuietStep DEF Abort
  <2> QED BY <2>1, <2>2, <2>3, <2>4, <2>5, <2>6, <2>7, <2>8, <2>9 DEF LogStep
<1>2. CASE StdioWrites
  BY <1>2, StdioWritesStep
<1>3. CASE \E l \in LogLevels : setLogLevel(l)
  <2>1. PICK l \in LogLevels : setLogLevel(l)
    BY <1>3
  <2>2. TypeOK'
    BY <2>1, LoggingAssumption DEF IInv, setLogLevel, TypeOK
  <2> QED BY <2>1, <2>2, QuietStep DEF setLogLevel
<1>4. CASE UNCHANGED vars
  <2>1. TypeOK'
    BY <1>4 DEF IInv, TypeOK, vars
  <2> QED BY <1>4, <2>1, QuietStep DEF vars
<1> QED BY <1>1, <1>2, <1>3, <1>4 DEF Next

LEMMA Inductive == Spec => []IInv
BY InitIInv, NextStep, PTL DEF Spec

------------------------------------------------------------------------------
(* Numbers read back: a line keeps them whole or drops them.               *)

Right(p) == p.digits # <<>> => Reads(p.digits) = p.value

(* A buffer, and one whose numbers all read back. *)
Readable == {b \in Buffers : ReadsWell(b.text)}

LEMMA TextRight ==
  ASSUME NEW what \in Whats, NEW n \in Nat
  PROVE  Text(what, n) \in Piece /\ Right(Text(what, n))
BY DEF Text, Piece, Right

LEMMA NumberRight ==
  ASSUME NEW what \in Whats, NEW v \in Ints \cup Errnos \cup {LineNo}
  PROVE  Right(Number(what, v))
<1>1. v \in Int
  BY LoggingAssumption, ConvertLength
<1> QED BY <1>1, ConvertReads DEF Number, Right

LEMMA BehindReadable ==
  ASSUME NEW b \in Readable, NEW p \in Piece, Right(p)
  PROVE  ReadsWell(Behind(b, p).text)
<1>1. b.text \in Seq(Piece) /\ ReadsWell(b.text)
  BY DEF Readable, Buffers
<1>2. Behind(b, p).text = Append(b.text, p)
  BY DEF Behind
<1>3. ASSUME NEW k \in DOMAIN Append(b.text, p)
      PROVE  Right(Append(b.text, p)[k])
  <2>1. CASE k \in DOMAIN b.text
    <3>1. Append(b.text, p)[k] = b.text[k]
      BY <1>1, <2>1
    <3> QED BY <1>1, <2>1, <3>1 DEF ReadsWell, Right
  <2>2. CASE k \notin DOMAIN b.text
    <3>1. k = Len(b.text) + 1
      BY <1>1, <2>2
    <3>2. Append(b.text, p)[k] = p
      BY <1>1, <3>1
    <3> QED BY <3>2
  <2> QED BY <2>1, <2>2
<1> QED BY <1>2, <1>3 DEF ReadsWell, Right

LEMMA AppendReadable ==
  ASSUME NEW b \in Readable, NEW what \in Whats, NEW n \in Nat
  PROVE  append(b, Text(what, n)) \in Readable
<1>1. append(b, Text(what, n)) \in Buffers
  BY AppendText DEF Readable
<1>2. ReadsWell(append(b, Text(what, n)).text)
  BY TextRight, BehindReadable DEF append, Readable
<1> QED BY <1>1, <1>2 DEF Readable

LEMMA FormatReadable ==
  ASSUME NEW b \in Readable, NEW what \in Whats,
         NEW v \in Ints \cup Errnos \cup {LineNo}
  PROVE  formatInteger(b, Number(what, v)) \in Readable
<1> DEFINE p == Number(what, v)
<1>1. p \in Piece /\ p.len \in 1 .. 11 /\ Right(p)
  BY NumberType, NumberRight
<1> HIDE DEF p
<1>2. formatInteger(b, p) \in Buffers
  BY <1>1, FormatType DEF Readable
<1>3. ReadsWell(formatInteger(b, p).text)
  BY <1>1, BehindReadable DEF formatInteger, Readable
<1> QED BY <1>2, <1>3 DEF Readable, p

LEMMA EmptyReadable == Empty \in Readable
BY EmptyType DEF Empty, Readable, ReadsWell

LEMMA HeaderReadable ==
  ASSUME NEW c \in [macro : DOMAIN Level, errno : Errnos \cup {0}]
  PROVE  Header(c) \in Readable
<1> DEFINE b1 == append(Empty, Text("time", 17))
           b2 == append(b1, Text("microseconds", 9))
           b3 == append(b2, Text("level", 6))
           b4 == append(b3, Text("error", ErrorLen))
           b5 == append(b4, Text("open", 8))
           b6 == formatInteger(b5, Number("errno", c.errno))
           b7 == append(b6, Text("close", 2))
           b8 == append(b3, Text("func", FuncLen))
           b9 == append(b8, Text("space", 1))
<1>1. b1 \in Readable
  BY EmptyReadable, AppendReadable, WhatsType
<1> HIDE DEF b1
<1>2. b2 \in Readable
  BY <1>1, AppendReadable, WhatsType
<1> HIDE DEF b2
<1>3. b3 \in Readable
  BY <1>2, AppendReadable, WhatsType
<1> HIDE DEF b3
<1>4. b4 \in Readable
  BY <1>3, AppendReadable, WhatsType, LoggingAssumption
<1> HIDE DEF b4
<1>5. b5 \in Readable
  BY <1>4, AppendReadable, WhatsType
<1> HIDE DEF b5
<1>6. c.errno # 0 => b6 \in Readable
  <2>1. c.errno # 0 => c.errno \in Errnos
    OBVIOUS
  <2> QED BY <1>5, <2>1, FormatReadable, WhatsType
<1> HIDE DEF b6
<1>7. c.errno # 0 => b7 \in Readable
  BY <1>6, AppendReadable, WhatsType
<1> HIDE DEF b7
<1>8. b8 \in Readable
  BY <1>3, AppendReadable, WhatsType, LoggingAssumption
<1> HIDE DEF b8
<1>9. b9 \in Readable
  BY <1>8, AppendReadable, WhatsType
<1> HIDE DEF b9
<1>10. Header(c) = IF c.errno # 0 THEN b7
                   ELSE IF c.macro \in WithFunc THEN b9 ELSE b3
  BY DEF Header, b1, b2, b3, b4, b5, b6, b7, b8, b9
<1> QED BY <1>3, <1>7, <1>9, <1>10

LEMMA FinishedReadable ==
  ASSUME NEW b \in Readable
  PROVE  Finished(b) \in Readable
<1> DEFINE b1 == append(b, Text("dash", 3))
           b2 == append(b1, Text("basename", BaseLen))
           b3 == append(b2, Text("colon", 1))
           b4 == formatInteger(b3, Number("line", LineNo))
<1>1. b1 \in Readable
  BY AppendReadable, WhatsType
<1> HIDE DEF b1
<1>2. b2 \in Readable
  BY <1>1, AppendReadable, WhatsType, LoggingAssumption
<1> HIDE DEF b2
<1>3. b3 \in Readable
  BY <1>2, AppendReadable, WhatsType
<1> HIDE DEF b3
<1>4. b4 \in Readable
  BY <1>3, FormatReadable, WhatsType
<1> HIDE DEF b4
<1>5. Finished(b) = append(b4, Text("newline", 1))
  BY DEF Finished, b1, b2, b3, b4
<1> QED BY <1>4, <1>5, AppendReadable, WhatsType

(* The streams' buffers stay readable, and every line given to g_output is. *)
LEMMA NumbersStep == IInv /\ NumbersRead /\ [Next]_vars => NumbersRead'
<1> SUFFICES ASSUME IInv, NumbersRead, [Next]_vars PROVE NumbersRead'
  OBVIOUS
<1>1. /\ stream \in [Threads -> Buffers] /\ outputs \in Seq(Lines)
      /\ call \in [Threads -> [macro : DOMAIN Level, errno : Errnos \cup {0}]]
  BY DEF IInv, TypeOK, Lines
<1>2. \A t \in Threads : stream[t] \in Readable
  BY <1>1 DEF NumbersRead, Readable
<1>3. ASSUME NEW t \in Threads, NEW b \in Readable,
             stream' = [stream EXCEPT ![t] = b], UNCHANGED outputs
      PROVE  NumbersRead'
  <2>1. ReadsWell(b.text)
    BY DEF Readable
  <2> QED BY <1>1, <1>3, <2>1 DEF NumbersRead
<1>4. ASSUME UNCHANGED <<stream, outputs>>
      PROVE  NumbersRead'
  BY <1>4 DEF NumbersRead
<1>5. ASSUME NEW t \in Threads, LogStep(t)
      PROVE  NumbersRead'
  <2>1. CASE \E m \in Macros, e \in Errnos \cup {0} : Begin(t, m, e)
    BY <1>3, <2>1, EmptyReadable DEF Begin
  <2>2. CASE EndFormat(t) \/ Flush(t) \/ Abort(t)
    BY <1>4, <2>2 DEF EndFormat, Flush, Abort
  <2>3. CASE Stamp(t)
    <3>1. Header(call[t]) \in Readable
      BY <1>1, HeaderReadable
    <3> QED BY <1>3, <1>4, <2>3, <3>1 DEF Stamp
  <2>4. CASE \E n \in Lengths : PutString(t, n)
    <3>1. PICK n \in Lengths : PutString(t, n)
      BY <2>4
    <3>2. append(stream[t], Text("string", n)) \in Readable
      BY <1>2, AppendReadable, WhatsType, LoggingAssumption
    <3> QED BY <1>3, <3>1, <3>2 DEF PutString, Put
  <2>5. CASE \E v \in Ints : PutInt(t, v)
    <3>1. PICK v \in Ints : PutInt(t, v)
      BY <2>5
    <3>2. formatInteger(stream[t], Number("int", v)) \in Readable
      BY <1>2, FormatReadable, WhatsType
    <3> QED BY <1>3, <3>1, <3>2 DEF PutInt, Put
  <2>6. CASE Destroy(t)
    <3> DEFINE line == LineOf(t)
    <3>1. line.buf = Finished(stream[t])
      BY DEF LineOf
    <3>2. ReadsWell(line.buf.text)
      BY <1>2, <3>1, FinishedReadable DEF Readable
    <3>3. outputs' = Append(outputs, line) /\ stream' = [stream EXCEPT ![t] = Empty]
      BY <2>6 DEF Destroy
    <3> HIDE DEF line
    <3>4. ASSUME NEW i \in DOMAIN outputs'
          PROVE  ReadsWell(outputs'[i].buf.text)
      <4>1. CASE i \in DOMAIN outputs
        <5>1. outputs'[i] = outputs[i]
          BY <1>1, <3>3, <4>1
        <5> QED BY <4>1, <5>1 DEF NumbersRead
      <4>2. CASE i \notin DOMAIN outputs
        <5>1. i = Len(outputs) + 1
          BY <1>1, <3>3, <4>2
        <5>2. outputs'[i] = line
          BY <1>1, <3>3, <5>1
        <5> QED BY <3>2, <5>2
      <4> QED BY <4>1, <4>2
    <3>5. \A u \in Threads : ReadsWell(stream'[u].text)
      BY <1>1, <3>3, EmptyReadable DEF NumbersRead, Readable
    <3> QED BY <3>4, <3>5 DEF NumbersRead
  <2> QED BY <1>5, <2>1, <2>2, <2>3, <2>4, <2>5, <2>6 DEF LogStep
<1>6. CASE StdioWrites \/ (\E l \in LogLevels : setLogLevel(l)) \/ UNCHANGED vars
  BY <1>4, <1>6 DEF StdioWrites, setLogLevel, vars
<1> QED BY <1>5, <1>6 DEF Next

------------------------------------------------------------------------------
(* No piece, number or header ever runs over the end of data_, and cur_    *)
(* stays in front of the last byte.                                        *)
THEOREM TypeCorrect == Spec => []TypeOK
<1>1. IInv => TypeOK
  BY DEF IInv
<1> QED BY <1>1, Inductive, PTL

(* Whatever is streamed, ~Logger gives g_output a line that ends with its  *)
(* newline, or that fills data_ to the last byte.                          *)
THEOREM LinesTerminated == Spec => []Terminated
<1>1. IInv => Terminated
  BY DEF IInv, AllWellEnded, WellEnded, Terminated
<1> QED BY <1>1, Inductive, PTL

(* finish() puts the whole location behind a body that leaves it room.     *)
THEOREM LocationIsKept == Spec => []LocationKept
<1>1. IInv => LocationKept
  BY DEF IInv, AllWellEnded, WellEnded, LocationKept
<1> QED BY <1>1, Inductive, PTL

(* ~Logger flushes a FATAL line, with those before it, ahead of abort().   *)
THEOREM FatalIsFlushed == Spec => []FatalFlushed
<1>1. IInv => FatalFlushed
  BY DEF IInv
<1> QED BY <1>1, Inductive, PTL

(* convert and formatInteger put an int into a line so that it reads as    *)
(* that int, for every value of the type.                                  *)
THEOREM NumbersReadBack == Spec => []NumbersRead
<1>1. Init => NumbersRead
  BY EmptyReadable DEF Init, NumbersRead, Readable
<1> QED BY <1>1, NumbersStep, Inductive, PTL DEF Spec

(* The assertion in T fails through another thread only: a thread that logs *)
(* alone always finds 17 characters in t_time (LogStream.h:53, Logging.cc:75). *)
THEOREM AloneStampsWhole ==
  ASSUME \A t, u \in Threads : t = u
  PROVE  Spec => []StampWhole
<1>1. Init => StampWhole
  BY DEF Init, StampWhole
<1>2. StampWhole /\ [Next]_vars => StampWhole'
  <2> SUFFICES ASSUME StampWhole, [Next]_vars
               PROVE  StampWhole'
    OBVIOUS
  <2>1. ASSUME NEW t \in Threads, Stamp(t)
        PROVE  StampWhole'
    <3>1. ~\E u \in Threads : pc[u] = "format"
      BY <2>1 DEF Stamp
    <3> QED
      BY <2>1, <3>1 DEF Stamp, StampWhole
  <2>2. ASSUME NEW t \in Threads, Abort(t)
        PROVE  StampWhole'
    BY <2>2 DEF Abort, StampWhole
  <2>3. CASE UNCHANGED ended
    BY <2>3 DEF StampWhole
  <2> QED
    BY <2>1, <2>2, <2>3 DEF Next, LogStep, Begin, EndFormat, PutString, PutInt, Put,
       Destroy, Flush, StdioWrites, setLogLevel, vars
<1> QED
  BY <1>1, <1>2, PTL DEF Spec
==============================================================================
