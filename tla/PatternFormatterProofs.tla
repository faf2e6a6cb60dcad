------------------------ MODULE PatternFormatterProofs ------------------------
(***************************************************************************)
(* The pattern parser, the padding and the default pattern's time, for     *)
(* every pattern and record.  The text, numbers and messages are recursive *)
(* functions: the first part shows that they exist and what they are, by   *)
(* induction over sets of naturals.                                        *)
(***************************************************************************)
EXTENDS PatternFormatter, SequenceTheorems, FiniteSetTheorems, WellFoundedInduction, TLAPS

Less == {ss \in Nat \X Nat : ss[1] < ss[2]}
LEMMA LessWF == IsWellFoundedOn(Less, Nat)
BY NatLessThanWellFounded, Zenon DEF OpToRel, Less

LEMMA SetInduction ==
  ASSUME NEW S, 0 \in S, \A n \in Nat : n \in S => n + 1 \in S
  PROVE  Nat \subseteq S
<1> DEFINE T == Nat \ S
<1>1. ASSUME T # {} PROVE FALSE
  <2>2. PICK x \in T : \A y \in T : ~(<<y, x>> \in Less)
    BY <1>1, LessWF, WFMin
  <2>3. x # 0 /\ x - 1 \in Nat /\ (x - 1) + 1 = x
    OBVIOUS
  <2>4. x - 1 \in T
    BY <2>3
  <2>5. <<x - 1, x>> \in Less
    BY <2>3 DEF Less
  <2> QED
    BY <2>2, <2>4, <2>5
<1> QED
  BY <1>1

\* Induction up to n.
LEMMA BoundedInduction ==
  ASSUME NEW n \in Nat, NEW S, 0 \in S, \A k \in 1..n : k - 1 \in S => k \in S
  PROVE  0..n \subseteq S
<1>1. PICK R : R = {k \in Nat : k <= n => k \in S}
  OBVIOUS
<1>2. 0 \in R
  BY <1>1
<1>3. ASSUME NEW k \in Nat, k \in R PROVE k + 1 \in R
  <2>1. CASE k + 1 <= n
    <3>1. k + 1 \in 1..n /\ (k + 1) - 1 = k /\ k \in S
      BY <1>1, <1>3, <2>1
    <3> QED BY <1>1, <3>1
  <2>2. CASE ~(k + 1 <= n)
    BY <1>1, <2>2
  <2> QED BY <2>1, <2>2
<1>4. Nat \subseteq R
  BY <1>2, <1>3, SetInduction
<1> QED BY <1>1, <1>4

\* A recursion on domain D into T: at x it has the value base[x], or applies step
\* to its value at prev[x], where a bounded measure is smaller.
Descends(D, T, B, base, prev, step, mu, bound) ==
  /\ bound \in Nat /\ mu \in [D -> 0..bound]
  /\ base \in [D -> T] /\ prev \in [D -> D] /\ step \in [T \X D -> T]
  /\ \A x \in D : x \in B \/ mu[prev[x]] < mu[x]

Solves(h, D, T, B, base, prev, step) ==
  /\ h \in [D -> T]
  /\ \A x \in D : h[x] = IF x \in B THEN base[x] ELSE step[<<h[prev[x]], x>>]

LEMMA Recursion ==
  ASSUME NEW D, NEW T, NEW B, NEW base, NEW prev, NEW step, NEW mu, NEW bound,
         Descends(D, T, B, base, prev, step, mu, bound)
  PROVE  \E h : Solves(h, D, T, B, base, prev, step)
<1> USE DEF Descends
<1> DEFINE Eq(h, x) == h[x] = IF x \in B THEN base[x] ELSE step[<<h[prev[x]], x>>]
           S == {n \in Nat : \E h \in [D -> T] : \A x \in D : mu[x] < n => Eq(h, x)}
<1>1. 0 \in S
  <2>1. \A x \in D : ~(mu[x] < 0)
    OBVIOUS
  <2> QED BY <2>1
<1>2. ASSUME NEW n \in Nat, n \in S PROVE n + 1 \in S
  <2>1. PICK h \in [D -> T] : \A x \in D : mu[x] < n => Eq(h, x)
    BY <1>2
  <2>2. PICK g : g = [x \in D |-> IF mu[x] < n THEN h[x] ELSE IF x \in B THEN base[x] ELSE step[<<h[prev[x]], x>>]]
    OBVIOUS
  <2>3. \A x \in D : <<h[prev[x]], x>> \in T \X D
    OBVIOUS
  <2>4. g \in [D -> T]
    BY <2>2, <2>3
  <2>5. \A x \in D : g[x] = IF mu[x] < n THEN h[x] ELSE IF x \in B THEN base[x] ELSE step[<<h[prev[x]], x>>]
    BY <2>2
  <2>6. ASSUME NEW x \in D, mu[x] < n + 1 PROVE Eq(g, x)
    <3>1. CASE x \in B
      BY <2>1, <2>5, <3>1
    <3>2. CASE x \notin B
      <4>1. mu[prev[x]] < mu[x] /\ prev[x] \in D /\ mu[x] \in Nat /\ mu[prev[x]] \in Nat
        BY <3>2
      <4>2. g[prev[x]] = h[prev[x]]
        <5>1. mu[prev[x]] < n
          BY <2>6, <4>1
        <5> QED BY <2>5, <4>1, <5>1
      <4>3. g[x] = step[<<h[prev[x]], x>>]
        BY <2>1, <2>5, <3>2
      <4> QED BY <3>2, <4>2, <4>3
    <3> QED BY <3>1, <3>2
  <2> QED BY <2>4, <2>6
<1>3. bound + 1 \in S
  <2> HIDE DEF S
  <2>1. Nat \subseteq S
    BY <1>1, <1>2, SetInduction
  <2> QED BY <2>1
<1>4. PICK h \in [D -> T] : \A x \in D : mu[x] < bound + 1 => Eq(h, x)
  BY <1>3
<1>5. \A x \in D : mu[x] < bound + 1
  OBVIOUS
<1> QED BY <1>4, <1>5 DEF Solves

\* Induction along such a recursion.
LEMMA DescentInduction ==
  ASSUME NEW D, NEW T, NEW B, NEW base, NEW prev, NEW step, NEW mu, NEW bound,
         Descends(D, T, B, base, prev, step, mu, bound),
         NEW S, \A x \in D : x \in B \/ prev[x] \in S => x \in S
  PROVE  D \subseteq S
<1>0. /\ bound \in Nat /\ mu \in [D -> 0..bound] /\ prev \in [D -> D]
      /\ \A x \in D : x \in B \/ mu[prev[x]] < mu[x]
  BY DEF Descends
<1>1. PICK R : R = {n \in Nat : \A x \in D : mu[x] < n => x \in S}
  OBVIOUS
<1>2. 0 \in R
  BY <1>0, <1>1
<1>3. ASSUME NEW n \in Nat, n \in R PROVE n + 1 \in R
  <2>1. ASSUME NEW x \in D, mu[x] < n + 1 PROVE x \in S
    <3>1. CASE x \in B
      BY <3>1
    <3>2. CASE x \notin B
      <4>1. mu[prev[x]] < mu[x] /\ prev[x] \in D /\ mu[x] \in Nat /\ mu[prev[x]] \in Nat
        BY <1>0, <3>2
      <4>2. mu[prev[x]] < n
        BY <2>1, <4>1
      <4>3. prev[x] \in S
        BY <1>1, <1>3, <4>1, <4>2
      <4> QED BY <4>3
    <3> QED BY <3>1, <3>2
  <2> QED BY <1>1, <2>1
<1>4. bound + 1 \in R
  <2>1. Nat \subseteq R
    BY <1>2, <1>3, SetInduction
  <2> QED BY <1>0, <2>1
<1> QED BY <1>0, <1>1, <1>4

LEMMA DigitRange ==
  ASSUME NEW c, IsDigit(c)
  PROVE  DigitOf(c) \in 0..9
BY DEF IsDigit, DigitOf, Digits
LEMMA DigitZero == IsDigit("0") /\ DigitOf("0") = 0
BY DEF IsDigit, DigitOf, Digits

\* Recursion along 1..n.
Counts(T, n, b, step) == n \in Nat /\ b \in T /\ step \in [T \X (1..n) -> T]
CountsUp(h, T, n, b, step) ==
  /\ h \in [0..n -> T] /\ h[0] = b
  /\ \A k \in 1..n : h[k] = step[<<h[k - 1], k>>]

LEMMA PrefixRecursion ==
  ASSUME NEW T, NEW n, NEW b, NEW step, Counts(T, n, b, step)
  PROVE  \E h : CountsUp(h, T, n, b, step)
<1> USE DEF Counts
<1>0. PICK D, B : D = 0..n /\ B = {0}
  OBVIOUS
<1>1. PICK mu : mu = [k \in D |-> k]
  OBVIOUS
<1>2. PICK base : base = [k \in D |-> b]
  OBVIOUS
<1>3. PICK prev : prev = [k \in D |-> IF k = 0 THEN 0 ELSE k - 1]
  OBVIOUS
<1>4. PICK st : st = [x \in T \X D |-> IF x[2] = 0 THEN b ELSE step[<<x[1], x[2]>>]]
  OBVIOUS
<1>5. mu \in [D -> 0..n] /\ base \in [D -> T] /\ prev \in [D -> D]
  BY <1>0, <1>1, <1>2, <1>3
<1>6. st \in [T \X D -> T]
  BY <1>0, <1>4
<1>7. \A k \in D : k \in B \/ mu[prev[k]] < mu[k]
  BY <1>0, <1>1, <1>3, <1>5
<1>8. Descends(D, T, B, base, prev, st, mu, n)
  BY <1>5, <1>6, <1>7 DEF Descends
<1>9. PICK h : Solves(h, D, T, B, base, prev, st)
  BY <1>8, Recursion
<1>10. h \in [0..n -> T] /\ \A k \in 0..n : h[k] = IF k = 0 THEN b ELSE st[<<h[prev[k]], k>>]
  BY <1>0, <1>2, <1>9 DEF Solves
<1>11. ASSUME NEW k \in 0..n PROVE h[k] = IF k = 0 THEN b ELSE step[<<h[k - 1], k>>]
  <2>1. CASE k = 0
    BY <1>10, <2>1
  <2>2. CASE k # 0
    <3>1. prev[k] = k - 1 /\ k - 1 \in 0..n /\ h[k - 1] \in T
      BY <1>0, <1>3, <1>10, <2>2
    <3>2. <<h[k - 1], k>> \in T \X (0..n)
      BY <3>1
    <3>3. st[<<h[k - 1], k>>] = step[<<h[k - 1], k>>]
      BY <1>0, <1>4, <2>2, <3>2
    <3> QED BY <1>10, <2>2, <3>1, <3>3
  <2> QED BY <2>1, <2>2
<1>12. h[0] = b /\ \A k \in 1..n : h[k] = step[<<h[k - 1], k>>]
  <2>1. 0 \in 0..n /\ \A k \in 1..n : k \in 0..n /\ k # 0
    OBVIOUS
  <2> QED BY <1>11, <2>1
<1> QED BY <1>10, <1>12 DEF CountsUp

LEMMA ValueRec ==
  ASSUME NEW d, Len(d) \in Nat, \A i \in 1..Len(d) : IsDigit(d[i])
  PROVE  \E v \in [0..Len(d) -> Nat] :
           /\ ValueOf(d) = v[Len(d)]
           /\ v[0] = 0
           /\ \A k \in 1..Len(d) : v[k] = 10 * v[k - 1] + DigitOf(d[k])
<1> DEFINE n == Len(d)
           V(v) == v = [k \in 0..n |-> IF k = 0 THEN 0 ELSE 10 * v[k - 1] + DigitOf(d[k])]
<1>1. PICK step : step = [x \in Nat \X (1..n) |-> 10 * x[1] + DigitOf(d[x[2]])]
  OBVIOUS
<1>2. \A k \in 1..n : DigitOf(d[k]) \in Nat
  BY DigitRange
<1>3. step \in [Nat \X (1..n) -> Nat]
  BY <1>1, <1>2
<1>4. PICK h : CountsUp(h, Nat, n, 0, step)
  <2>1. Counts(Nat, n, 0, step)
    BY <1>3 DEF Counts
  <2> QED BY <2>1, PrefixRecursion
<1>5. h \in [0..n -> Nat] /\ h[0] = 0 /\ \A k \in 1..n : h[k] = step[<<h[k - 1], k>>]
  BY <1>4 DEF CountsUp
<1>6. ASSUME NEW k \in 1..n PROVE h[k] = 10 * h[k - 1] + DigitOf(d[k])
  <2>1. k - 1 \in 0..n
    OBVIOUS
  <2>2. h[k - 1] \in Nat
    BY <1>5, <2>1
  <2>3. <<h[k - 1], k>> \in Nat \X (1..n)
    BY <2>2
  <2>4. step[<<h[k - 1], k>>] = 10 * h[k - 1] + DigitOf(d[k])
    BY <1>1, <2>3
  <2> QED BY <1>5, <2>4
<1>7. V(h)
  <2>1. h = [k \in 0..n |-> h[k]]
    BY <1>5
  <2>2. \A k \in 0..n : h[k] = IF k = 0 THEN 0 ELSE 10 * h[k - 1] + DigitOf(d[k])
    BY <1>5, <1>6
  <2> QED BY <2>1, <2>2
<1>8. PICK v : v = CHOOSE w : V(w)
  OBVIOUS
<1>9. V(v)
  BY <1>7, <1>8, Zenon
<1>10. ValueOf(d) = v[n]
  BY <1>8 DEF ValueOf
<1>11. /\ DOMAIN v = 0..n /\ v[0] = 0
       /\ \A k \in 1..n : v[k] = 10 * v[k - 1] + DigitOf(d[k])
  BY <1>9
<1> HIDE DEF n, V
<1>12. \A k \in 0..n : v[k] = h[k]
  <2>1. PICK S : S = {k \in 0..n : v[k] = h[k]}
    OBVIOUS
  <2>2. n \in Nat
    BY DEF n
  <2>3. 0 \in S
    BY <1>5, <1>11, <2>1, <2>2
  <2>4. \A k \in 1..n : k - 1 \in S => k \in S
    BY <1>6, <1>11, <2>1
  <2>5. 0..n \subseteq S
    BY <2>2, <2>3, <2>4, BoundedInduction
  <2> QED BY <2>1, <2>5
<1> QED BY <1>5, <1>6, <1>10, <1>12 DEF n

\* The digits of y after those of x continue the number x stands for.
AllDigits(w) == \A i \in 1..Len(w) : IsDigit(w[i])
Numbers(v, y) ==
  /\ v \in [0..Len(y) -> Nat] /\ ValueOf(y) = v[Len(y)] /\ v[0] = 0
  /\ \A k \in 1..Len(y) : v[k] = 10 * v[k - 1] + DigitOf(y[k])

LEMMA ValuePrefix ==
  ASSUME NEW x \in Text, NEW y \in Text, AllDigits(y), Len(x) <= Len(y),
         \A i \in 1..Len(x) : x[i] = y[i]
  PROVE  \E v : Numbers(v, y) /\ v[Len(x)] = ValueOf(x)
<1>1. PICK m, n : m = Len(x) /\ n = Len(y)
  OBVIOUS
<1>2. m \in Nat /\ n \in Nat /\ m <= n
  BY <1>1 DEF Text
<1>3. (\A i \in 1..n : IsDigit(y[i])) /\ (\A i \in 1..m : i \in 1..n /\ x[i] = y[i])
  BY <1>1, <1>2 DEF AllDigits
<1>4. \A i \in 1..m : IsDigit(x[i])
  BY <1>3
<1>5. PICK v \in [0..n -> Nat] :
        /\ ValueOf(y) = v[n] /\ v[0] = 0 /\ \A k \in 1..n : v[k] = 10 * v[k - 1] + DigitOf(y[k])
  BY <1>1, <1>2, <1>3, ValueRec
<1>6. PICK u \in [0..m -> Nat] :
        /\ ValueOf(x) = u[m] /\ u[0] = 0 /\ \A k \in 1..m : u[k] = 10 * u[k - 1] + DigitOf(x[k])
  BY <1>1, <1>2, <1>4, ValueRec
<1>7. PICK S : S = {k \in 0..m : u[k] = v[k]}
  OBVIOUS
<1>8. 0 \in S
  BY <1>2, <1>5, <1>6, <1>7
<1>9. ASSUME NEW k \in 1..m, k - 1 \in S PROVE k \in S
  <2>1. u[k - 1] = v[k - 1] /\ DigitOf(x[k]) = DigitOf(y[k]) /\ k \in 1..n /\ k \in 0..m
    BY <1>2, <1>3, <1>7, <1>9
  <2>2. u[k] = v[k]
    BY <1>5, <1>6, <2>1
  <2> QED BY <1>7, <2>1, <2>2
<1>10. 0..m \subseteq S
  BY <1>2, <1>8, <1>9, BoundedInduction
<1>11. v[m] = ValueOf(x)
  BY <1>2, <1>6, <1>7, <1>10
<1> QED BY <1>1, <1>5, <1>11 DEF Numbers

LEMMA DigitValues == \A k \in 0..9 : IsDigit(Digits[k + 1]) /\ DigitOf(Digits[k + 1]) = k
<1>1. DOMAIN Digits = 1..10
  BY DEF Digits
<1>2. \A i, j \in 1..10 : Digits[i] = Digits[j] => i = j
  BY DEF Digits
<1> TAKE k \in 0..9
<1>3. k + 1 \in 1..10
  OBVIOUS
<1>4. PICK i \in DOMAIN Digits : i = CHOOSE j \in DOMAIN Digits : Digits[j] = Digits[k + 1]
  BY <1>1, <1>3
<1>5. Digits[i] = Digits[k + 1]
  BY <1>1, <1>3, <1>4
<1>6. i = k + 1
  BY <1>1, <1>2, <1>3, <1>5
<1>7. DigitOf(Digits[k + 1]) = i - 1
  BY <1>4 DEF DigitOf
<1> QED BY <1>1, <1>3, <1>6, <1>7 DEF IsDigit

\* One more digit.
LEMMA ValueAppend ==
  ASSUME NEW w \in Text, AllDigits(w), NEW c \in Char, IsDigit(c)
  PROVE  /\ Append(w, c) \in Text /\ Len(Append(w, c)) = Len(w) + 1 /\ AllDigits(Append(w, c))
         /\ ValueOf(w) \in Nat /\ ValueOf(Append(w, c)) = 10 * ValueOf(w) + DigitOf(c)
<1>1. PICK n, y : n = Len(w) /\ y = Append(w, c)
  OBVIOUS
<1>2. /\ n \in Nat /\ y \in Text /\ Len(y) = n + 1 /\ y[n + 1] = c
      /\ \A i \in 1..n : y[i] = w[i]
  BY <1>1 DEF Text
<1>3. AllDigits(y)
  <2>1. \A i \in 1..n : IsDigit(w[i])
    BY <1>1 DEF AllDigits
  <2>2. \A i \in 1..(n + 1) : i \in 1..n \/ i = n + 1
    BY <1>2
  <2> QED BY <1>2, <2>1, <2>2 DEF AllDigits
<1>4. PICK v : Numbers(v, y) /\ v[n] = ValueOf(w)
  <2>1. Len(w) <= Len(y) /\ \A i \in 1..Len(w) : w[i] = y[i]
    BY <1>1, <1>2
  <2>2. \E v : Numbers(v, y) /\ v[Len(w)] = ValueOf(w)
    BY <1>2, <1>3, <2>1, ValuePrefix
  <2> QED BY <1>1, <2>2
<1>5. /\ v \in [0..(n + 1) -> Nat] /\ ValueOf(y) = v[n + 1]
      /\ \A k \in 1..(n + 1) : v[k] = 10 * v[k - 1] + DigitOf(y[k])
  BY <1>2, <1>4 DEF Numbers
<1>6. n + 1 \in 1..(n + 1) /\ (n + 1) - 1 = n /\ n \in 0..(n + 1)
  BY <1>2
<1>7. v[n + 1] = 10 * v[n] + DigitOf(c) /\ v[n] \in Nat
  BY <1>2, <1>5, <1>6
<1> QED BY <1>1, <1>2, <1>3, <1>4, <1>5, <1>7

\* The empty text stands for zero.
LEMMA ValueEmpty == ValueOf(<<>>) = 0 /\ <<>> \in Text /\ AllDigits(<<>>) /\ Len(<<>>) = 0
<1>1. Len(<<>>) = 0 /\ <<>> \in Text /\ AllDigits(<<>>)
  BY DEF Text, AllDigits
<1>2. \E v \in [0..0 -> Nat] : ValueOf(<<>>) = v[0] /\ v[0] = 0
  <2>1. \A i \in 1..0 : IsDigit(<<>>[i])
    OBVIOUS
  <2> QED BY <1>1, <2>1, ValueRec
<1> QED BY <1>1, <1>2

LEMMA DigitTexts == \A k \in 0..9 : Digits[k + 1] \in Char
<1>1. \A k \in 0..9 : \/ k = 0 \/ k = 1 \/ k = 2 \/ k = 3 \/ k = 4
                      \/ k = 5 \/ k = 6 \/ k = 7 \/ k = 8 \/ k = 9
  OBVIOUS
<1>2. /\ Digits[1] = "0" /\ Digits[2] = "1" /\ Digits[3] = "2" /\ Digits[4] = "3"
      /\ Digits[5] = "4" /\ Digits[6] = "5" /\ Digits[7] = "6" /\ Digits[8] = "7"
      /\ Digits[9] = "8" /\ Digits[10] = "9"
  BY DEF Digits
<1>3. /\ "0" \in Char /\ "1" \in Char /\ "2" \in Char /\ "3" \in Char /\ "4" \in Char
      /\ "5" \in Char /\ "6" \in Char /\ "7" \in Char /\ "8" \in Char /\ "9" \in Char
  BY CharAssumption
<1> QED BY <1>1, <1>2, <1>3

\* t are the decimal digits of k.
Numeral(t, k) ==
  /\ t \in Text /\ AllDigits(t) /\ ValueOf(t) = k /\ Len(t) > 0
  /\ k < 10 => Len(t) = 1
  /\ k < 100 => Len(t) <= 2
  /\ k < 1000 => Len(t) <= 3

LEMMA NumeralDigit == \A k \in 0..9 : Numeral(<<Digits[k + 1]>>, k)
<1> TAKE k \in 0..9
<1>1. PICK c : c = Digits[k + 1]
  OBVIOUS
<1>2. c \in Char /\ IsDigit(c) /\ DigitOf(c) = k
  BY <1>1, DigitTexts, DigitValues
<1>3. PICK t : t = Append(<<>>, c)
  OBVIOUS
<1>4. t = <<c>>
  BY <1>3
<1>5. t \in Text /\ Len(t) = 0 + 1 /\ AllDigits(t) /\ ValueOf(t) = 10 * 0 + DigitOf(c)
  BY <1>2, <1>3, ValueEmpty, ValueAppend
<1>6. 10 * 0 + DigitOf(c) = k /\ 0 + 1 = 1
  BY <1>2
<1>7. Numeral(t, k)
  BY <1>5, <1>6 DEF Numeral
<1> QED BY <1>1, <1>4, <1>7

LEMMA NumeralAppend ==
  ASSUME NEW k \in Nat, k >= 10, NEW t, Numeral(t, k \div 10)
  PROVE  Numeral(Append(t, Digits[(k % 10) + 1]), k)
<1>1. PICK c, q, d : c = Digits[(k % 10) + 1] /\ q = k \div 10 /\ d = k % 10
  OBVIOUS
<1>2. q \in Nat /\ d \in 0..9 /\ k = 10 * q + d /\ q > 0
  BY <1>1
<1>3. c \in Char /\ IsDigit(c) /\ DigitOf(c) = d
  BY <1>1, <1>2, DigitTexts, DigitValues
<1>4. /\ t \in Text /\ AllDigits(t) /\ ValueOf(t) = q /\ Len(t) \in Nat
      /\ q < 10 => Len(t) = 1
      /\ q < 100 => Len(t) <= 2
  BY <1>1 DEF Numeral, Text
<1>5. PICK y : y = Append(t, c)
  OBVIOUS
<1>6. y \in Text /\ Len(y) = Len(t) + 1 /\ AllDigits(y) /\ ValueOf(y) = 10 * ValueOf(t) + DigitOf(c)
  BY <1>3, <1>4, <1>5, ValueAppend
<1>7. ValueOf(y) = k
  BY <1>2, <1>3, <1>4, <1>6
<1>8. /\ Len(y) > 0 /\ ~(k < 10) /\ (k < 100 => Len(y) <= 2) /\ (k < 1000 => Len(y) <= 3)
  <2>1. (k < 100 => q < 10) /\ (k < 1000 => q < 100) /\ ~(k < 10)
    BY <1>2
  <2>2. PICK m : m = Len(t)
    OBVIOUS
  <2>3. m \in Nat /\ (q < 10 => m = 1) /\ (q < 100 => m <= 2) /\ Len(y) = m + 1
    BY <1>4, <1>6, <2>2
  <2> QED BY <2>1, <2>3
<1>9. Numeral(y, k)
  BY <1>6, <1>7, <1>8 DEF Numeral
<1> QED BY <1>1, <1>5, <1>9

\* Display writes the decimal digits of a number.
LEMMA DisplayNumeral ==
  ASSUME NEW n \in Nat
  PROVE  Numeral(Display(n), n)
<1> DEFINE V(s) == s = [k \in 0..n |-> IF k < 10 THEN <<Digits[k + 1]>>
                                       ELSE Append(s[k \div 10], Digits[(k % 10) + 1])]
<1>1. PICK D, B, mu : D = 0..n /\ B = {k \in D : k < 10} /\ mu = [k \in D |-> k]
  OBVIOUS
<1>2. PICK base : base = [k \in D |-> IF k < 10 THEN <<Digits[k + 1]>> ELSE <<>>]
  OBVIOUS
<1>3. PICK prev : prev = [k \in D |-> k \div 10]
  OBVIOUS
<1>4. PICK step : step = [x \in Text \X D |-> Append(x[1], Digits[(x[2] % 10) + 1])]
  OBVIOUS
<1>5. \A k \in D : k \in Nat /\ (k \div 10) \in D /\ (k % 10) \in 0..9 /\ (k >= 10 => (k \div 10) < k)
  BY <1>1
<1>6. \A k \in D : (k < 10 => <<Digits[k + 1]>> \in Text) /\ Digits[(k % 10) + 1] \in Char
  BY <1>5, DigitTexts DEF Text
<1>7. base \in [D -> Text] /\ prev \in [D -> D] /\ mu \in [D -> 0..n]
  <2>1. <<>> \in Text
    BY DEF Text
  <2>2. base \in [D -> Text]
    BY <1>2, <1>6, <2>1
  <2> QED BY <1>1, <1>3, <1>5, <2>2
<1>8. step \in [Text \X D -> Text]
  <2>1. ASSUME NEW t \in Text, NEW k \in D PROVE Append(t, Digits[(k % 10) + 1]) \in Text
    BY <1>6 DEF Text
  <2> QED BY <1>4, <2>1
<1>9. \A k \in D : k \in B \/ mu[prev[k]] < mu[k]
  BY <1>1, <1>3, <1>5, <1>7
<1>10. Descends(D, Text, B, base, prev, step, mu, n)
  BY <1>7, <1>8, <1>9 DEF Descends
<1>11. PICK h : Solves(h, D, Text, B, base, prev, step)
  BY <1>10, Recursion
<1>12. h \in [D -> Text] /\ \A k \in D : h[k] = IF k \in B THEN base[k] ELSE step[<<h[prev[k]], k>>]
  BY <1>11 DEF Solves
<1>13. ASSUME NEW k \in D
       PROVE  h[k] = IF k < 10 THEN <<Digits[k + 1]>> ELSE Append(h[k \div 10], Digits[(k % 10) + 1])
  <2>1. CASE k < 10
    BY <1>1, <1>2, <1>12, <2>1
  <2>2. CASE ~(k < 10)
    <3>1. prev[k] = k \div 10 /\ k \div 10 \in D /\ k \notin B
      BY <1>1, <1>3, <1>5, <2>2
    <3>2. <<h[k \div 10], k>> \in Text \X D
      BY <1>12, <3>1
    <3>3. step[<<h[k \div 10], k>>] = Append(h[k \div 10], Digits[(k % 10) + 1])
      BY <1>4, <3>2
    <3> QED BY <1>12, <2>2, <3>1, <3>3
  <2> QED BY <2>1, <2>2
<1>14. V(h)
  <2>1. h = [k \in D |-> h[k]]
    BY <1>12
  <2> QED BY <1>1, <1>13, <2>1
<1>15. PICK s : s = CHOOSE w : V(w)
  OBVIOUS
<1>16. V(s)
  BY <1>14, <1>15, Zenon
<1>17. Display(n) = s[n]
  BY <1>15 DEF Display
<1>18. PICK S : S = {k \in D : Numeral(s[k], k)}
  OBVIOUS
<1>19. ASSUME NEW k \in D, k \in B \/ prev[k] \in S PROVE k \in S
  <2>1. s[k] = IF k < 10 THEN <<Digits[k + 1]>> ELSE Append(s[k \div 10], Digits[(k % 10) + 1])
    BY <1>1, <1>16
  <2>2. CASE k < 10
    <3>1. k \in 0..9
      BY <1>1, <2>2
    <3>2. Numeral(s[k], k)
      BY <2>1, <2>2, <3>1, NumeralDigit
    <3> QED BY <1>18, <3>2
  <2>3. CASE ~(k < 10)
    <3>1. Numeral(s[k \div 10], k \div 10)
      BY <1>1, <1>3, <1>18, <1>19, <2>3
    <3>2. k \in Nat /\ k >= 10
      BY <1>1, <2>3
    <3>3. Numeral(s[k], k)
      BY <2>1, <2>3, <3>1, <3>2, NumeralAppend
    <3> QED BY <1>18, <3>3
  <2> QED BY <2>2, <2>3
<1>20. D \subseteq S
  BY <1>10, <1>19, DescentInduction
<1> QED BY <1>1, <1>17, <1>18, <1>20

LEMMA DisplayText ==
  ASSUME NEW n \in Nat
  PROVE  Display(n) \in Text
BY DisplayNumeral DEF Numeral

\* Concatenation of texts.
LEMMA TextConcat ==
  ASSUME NEW a \in Text, NEW b \in Text
  PROVE  /\ a \o b \in Text /\ Len(a \o b) = Len(a) + Len(b)
         /\ <<>> \in Text /\ <<>> \o a = a /\ a \o <<>> = a
BY DEF Text

LEMMA TextAssociative ==
  ASSUME NEW a \in Text, NEW b \in Text, NEW c \in Text
  PROVE  (a \o b) \o c = a \o (b \o c)
BY ConcatAssociative DEF Text

\* parts[1] \o ... \o parts[k], for k up to n.
Joins(h, parts, n) ==
  /\ h \in [0..n -> Text] /\ h[0] = <<>>
  /\ \A k \in 1..n : h[k] = h[k - 1] \o parts[k]

LEMMA FlattenEmpty == FlattenSeq(<<>>) = <<>>
BY DEF FlattenSeq

\* FlattenSeq is the last of the joined prefixes.
LEMMA FlattenJoins ==
  ASSUME NEW parts \in Seq(Text)
  PROVE  \E h : Joins(h, parts, Len(parts)) /\ FlattenSeq(parts) = h[Len(parts)]
<1>0. PICK n : n = Len(parts)
  OBVIOUS
<1>1. n \in Nat /\ \A k \in 1..n : parts[k] \in Text
  BY <1>0
<1>2. PICK step : step = [x \in Text \X (1..n) |-> x[1] \o parts[x[2]]]
  OBVIOUS
<1>3. step \in [Text \X (1..n) -> Text]
  <2>1. ASSUME NEW t \in Text, NEW k \in 1..n PROVE t \o parts[k] \in Text
    BY <1>1, TextConcat
  <2> QED BY <1>2, <2>1
<1>4. PICK h : CountsUp(h, Text, n, <<>>, step)
  <2>1. <<>> \in Text
    BY DEF Text
  <2>2. Counts(Text, n, <<>>, step)
    BY <1>1, <1>3, <2>1 DEF Counts
  <2> QED BY <2>2, PrefixRecursion
<1>5. h \in [0..n -> Text] /\ h[0] = <<>> /\ \A k \in 1..n : h[k] = step[<<h[k - 1], k>>]
  BY <1>4 DEF CountsUp
<1>6. ASSUME NEW k \in 1..n PROVE h[k] = h[k - 1] \o parts[k]
  <2>1. k - 1 \in 0..n
    BY <1>1
  <2>2. <<h[k - 1], k>> \in Text \X (1..n)
    BY <1>5, <2>1
  <2>3. step[<<h[k - 1], k>>] = h[k - 1] \o parts[k]
    BY <1>2, <2>2
  <2> QED BY <1>5, <2>3
<1>7. Joins(h, parts, n)
  BY <1>5, <1>6 DEF Joins
<1>8. CASE n = 0
  <2>0. parts = <<>>
    BY <1>0, <1>8, EmptySeq
  <2>1. FlattenSeq(parts) = <<>>
    BY <2>0, FlattenEmpty
  <2> QED BY <1>0, <1>5, <1>7, <1>8, <2>1
<1>9. CASE n # 0
  <2> DEFINE V(f) == f = [i \in 1..Len(parts) |-> IF i = 1 THEN parts[i] ELSE f[i - 1] \o parts[i]]
  <2>1. PICK g : g = [i \in 1..n |-> h[i]]
    OBVIOUS
  <2>2. ASSUME NEW i \in 1..n PROVE g[i] = IF i = 1 THEN parts[i] ELSE g[i - 1] \o parts[i]
    <3>1. CASE i = 1
      <4>1. h[1] = h[0] \o parts[1] /\ parts[1] \in Text
        <5>1. 1 \in 1..n /\ 1 - 1 = 0
          BY <1>1, <3>1
        <5>2. h[1] = h[1 - 1] \o parts[1]
          BY <1>6, <5>1
        <5> QED BY <1>1, <5>1, <5>2
      <4>2. h[1] = parts[1]
        BY <1>5, <4>1, TextConcat
      <4> QED BY <2>1, <3>1, <4>2
    <3>2. CASE i # 1
      <4>1. i - 1 \in 1..n
        BY <1>1, <3>2
      <4>2. g[i - 1] = h[i - 1] /\ g[i] = h[i]
        BY <2>1, <4>1
      <4> QED BY <1>6, <3>2, <4>2
    <3> QED BY <3>1, <3>2
  <2>3. V(g)
    BY <1>0, <2>1, <2>2
  <2>4. PICK f : f = CHOOSE w : V(w)
    OBVIOUS
  <2>5. V(f)
    BY <2>3, <2>4, Zenon
  <2>6. FlattenSeq(parts) = f[n]
    BY <1>0, <1>9, <2>4 DEF FlattenSeq
  <2>7. \A i \in 1..n : f[i] = IF i = 1 THEN parts[i] ELSE f[i - 1] \o parts[i]
    BY <1>0, <2>5
  <2> HIDE DEF V
  <2>8. PICK S : S = {i \in 0..n : i = 0 \/ f[i] = h[i]}
    OBVIOUS
  <2>9. 0 \in S
    BY <1>1, <2>8
  <2>10. ASSUME NEW k \in 1..n, k - 1 \in S PROVE k \in S
    <3>1. CASE k = 1
      <4>1. g[1] = parts[1] /\ g[1] = h[1]
        BY <2>1, <2>2, <3>1
      <4>2. f[1] = parts[1] /\ 1 \in 0..n
        BY <2>7, <3>1
      <4> QED BY <2>8, <3>1, <4>1, <4>2
    <3>2. CASE k # 1
      <4>1. f[k - 1] = h[k - 1] /\ k \in 0..n
        BY <2>8, <2>10, <3>2
      <4>2. f[k] = f[k - 1] \o parts[k] /\ h[k] = h[k - 1] \o parts[k]
        BY <1>6, <2>7, <3>2
      <4>3. f[k] = h[k]
        BY <4>1, <4>2
      <4> QED BY <2>8, <4>1, <4>3
    <3> QED BY <3>1, <3>2
  <2>11. 0..n \subseteq S
    BY <1>1, <2>9, <2>10, BoundedInduction
  <2>12. f[n] = h[n]
    BY <1>1, <1>9, <2>8, <2>11
  <2> QED BY <1>0, <1>7, <2>6, <2>12
<1> QED BY <1>8, <1>9

\* Joined prefixes depend only on the parts they join.
LEMMA JoinsAgree ==
  ASSUME NEW n \in Nat, NEW m \in Nat, n <= m, NEW p, NEW q, NEW g, NEW h,
         Joins(g, p, n), Joins(h, q, m), \A k \in 1..n : p[k] = q[k]
  PROVE  \A k \in 0..n : g[k] = h[k]
<1>1. PICK S : S = {k \in 0..n : g[k] = h[k]}
  OBVIOUS
<1>2. 0 \in S
  BY <1>1 DEF Joins
<1>3. ASSUME NEW k \in 1..n, k - 1 \in S PROVE k \in S
  <2>1. k \in 1..m /\ k \in 0..n
    OBVIOUS
  <2>2. g[k] = g[k - 1] \o p[k] /\ h[k] = h[k - 1] \o q[k]
    BY <2>1 DEF Joins
  <2>3. g[k - 1] = h[k - 1] /\ p[k] = q[k]
    BY <1>1, <1>3
  <2>4. g[k] = h[k]
    BY <2>2, <2>3
  <2> QED BY <1>1, <2>1, <2>4
<1>4. 0..n \subseteq S
  BY <1>2, <1>3, BoundedInduction
<1> QED BY <1>1, <1>4

LEMMA FlattenText ==
  ASSUME NEW parts \in Seq(Text)
  PROVE  FlattenSeq(parts) \in Text
<1>1. PICK h : Joins(h, parts, Len(parts)) /\ FlattenSeq(parts) = h[Len(parts)]
  BY FlattenJoins
<1> QED BY <1>1 DEF Joins

\* Flattening a longer list adds its last part.
LEMMA FlattenAppend ==
  ASSUME NEW parts \in Seq(Text), NEW t \in Text
  PROVE  FlattenSeq(Append(parts, t)) = FlattenSeq(parts) \o t
<1>0. PICK n, more : n = Len(parts) /\ more = Append(parts, t)
  OBVIOUS
<1>1. /\ n \in Nat /\ more \in Seq(Text) /\ Len(more) = n + 1 /\ more[n + 1] = t
      /\ \A k \in 1..n : parts[k] = more[k]
  BY <1>0
<1>2. PICK g : Joins(g, parts, n) /\ FlattenSeq(parts) = g[n]
  BY <1>0, FlattenJoins
<1>3. PICK h : Joins(h, more, n + 1) /\ FlattenSeq(more) = h[n + 1]
  BY <1>1, FlattenJoins
<1>4. \A k \in 0..n : g[k] = h[k]
  <2>1. n + 1 \in Nat /\ n <= n + 1
    BY <1>1
  <2> QED BY <1>1, <1>2, <1>3, <2>1, JoinsAgree
<1>5. h[n + 1] = h[n] \o t
  <2>1. n + 1 \in 1..(n + 1) /\ (n + 1) - 1 = n
    BY <1>1
  <2> QED BY <1>1, <1>3, <2>1 DEF Joins
<1>6. g[n] = h[n]
  BY <1>1, <1>4
<1> QED BY <1>0, <1>2, <1>3, <1>5, <1>6

\* A pair of braces at character i, and the recursion of format_message: from
\* character i on, with k arguments used up.
PairAt(fmt, i) == i < Len(fmt) /\ fmt[i] = "{" /\ fmt[i + 1] = "}"

StepAt(fmt, args, i, k, f) ==
  IF i > Len(fmt) THEN <<>>
  ELSE IF ~PairAt(fmt, i) THEN <<fmt[i]>> \o f[i + 1][k]
  ELSE IF k < Len(args) THEN args[k + 1] \o f[i + 2][k + 1]
  ELSE <<"{", "}">> \o f[i + 2][k]

Scans(f, fmt, args) ==
  \A i \in 1..(Len(fmt) + 2), k \in 0..Len(args) : f[i][k] \in Text /\ f[i][k] = StepAt(fmt, args, i, k, f)

LEMMA MessageScans ==
  ASSUME NEW fmt \in Text, NEW args \in Seq(Text)
  PROVE  \E f : Scans(f, fmt, args) /\ FormatMessage(fmt, args) = f[1][0]
<1> DEFINE V(f) == f = [i \in 1..(Len(fmt) + 2) |-> [k \in 0..Len(args) |->
                     IF i > Len(fmt) THEN <<>>
                     ELSE IF ~(i < Len(fmt) /\ fmt[i] = "{" /\ fmt[i + 1] = "}") THEN <<fmt[i]>> \o f[i + 1][k]
                     ELSE IF k < Len(args) THEN args[k + 1] \o f[i + 2][k + 1]
                     ELSE <<"{", "}">> \o f[i + 2][k]]]
<1>0. PICK n, m : n = Len(fmt) /\ m = Len(args)
  OBVIOUS
<1>1. /\ n \in Nat /\ m \in Nat
      /\ \A i \in 1..n : fmt[i] \in Char
      /\ \A k \in 0..m : k < m => args[k + 1] \in Text
  BY <1>0 DEF Text
<1>2. PICK D, T, B : D = 1..(n + 2) /\ T = [0..m -> Text] /\ B = {i \in D : i > n}
  OBVIOUS
<1>3. PICK prev : prev = [i \in D |-> IF i > n THEN i ELSE IF PairAt(fmt, i) THEN i + 2 ELSE i + 1]
  OBVIOUS
<1>4. PICK mu, none : mu = [i \in D |-> n + 2 - i] /\ none = [k \in 0..m |-> <<>>]
  OBVIOUS
<1>5. PICK base : base = [i \in D |-> none]
  OBVIOUS
<1> DEFINE At(t, i, k) == IF ~PairAt(fmt, i) THEN <<fmt[i]>> \o t[k]
                          ELSE IF k < m THEN args[k + 1] \o t[k + 1]
                          ELSE <<"{", "}">> \o t[k]
<1>6. PICK step : step = [x \in T \X D |-> IF x[2] > n THEN none ELSE [k \in 0..m |-> At(x[1], x[2], k)]]
  OBVIOUS
<1>7. <<>> \in Text /\ <<"{", "}">> \in Text /\ \A i \in 1..n : <<fmt[i]>> \in Text
  <2>1. "{" \in Char /\ "}" \in Char
    BY CharAssumption
  <2>2. <<"{", "}">> \in Text
    <3>1. \A a, b \in Char : <<a, b>> \in Text
      BY DEF Text
    <3> QED BY <2>1, <3>1
  <2>3. \A i \in 1..n : <<fmt[i]>> \in Text
    BY <1>1 DEF Text
  <2>4. <<>> \in Text
    BY DEF Text
  <2> QED BY <2>2, <2>3, <2>4
<1>8. none \in T
  BY <1>2, <1>4, <1>7
<1>9. ASSUME NEW t \in T, NEW i \in 1..n, NEW k \in 0..m PROVE At(t, i, k) \in Text
  <2>1. t[k] \in Text /\ (k < m => t[k + 1] \in Text)
    BY <1>1, <1>2
  <2> QED BY <1>1, <1>7, <2>1, TextConcat
<1>10. step \in [T \X D -> T]
  <2>1. ASSUME NEW t \in T, NEW i \in D, ~(i > n) PROVE [k \in 0..m |-> At(t, i, k)] \in T
    <3>1. i \in 1..n
      BY <1>1, <1>2, <2>1
    <3> QED BY <1>2, <1>9, <3>1
  <2> HIDE DEF At
  <2> QED BY <1>6, <1>8, <2>1
<1>11. \A i \in D : prev[i] \in D /\ mu[i] \in 0..(n + 1) /\ (i \in B \/ mu[prev[i]] < mu[i])
  <2> SUFFICES ASSUME NEW i \in D
               PROVE  prev[i] \in D /\ mu[i] \in 0..(n + 1) /\ (i \in B \/ mu[prev[i]] < mu[i])
    OBVIOUS
  <2>1. i \in 1..(n + 2) /\ prev[i] = (IF i > n THEN i ELSE IF PairAt(fmt, i) THEN i + 2 ELSE i + 1)
    BY <1>2, <1>3
  <2>2. prev[i] \in D /\ (i > n \/ prev[i] > i)
    BY <1>1, <1>2, <2>1
  <2>3. mu[i] = n + 2 - i /\ mu[prev[i]] = n + 2 - prev[i]
    BY <1>4, <2>2
  <2> QED BY <1>1, <1>2, <2>1, <2>2, <2>3
<1>12. prev \in [D -> D] /\ mu \in [D -> 0..(n + 1)] /\ base \in [D -> T]
  <2>1. prev = [i \in D |-> prev[i]] /\ mu = [i \in D |-> mu[i]]
    BY <1>3, <1>4
  <2> QED BY <1>5, <1>8, <1>11, <2>1
<1>13. Descends(D, T, B, base, prev, step, mu, n + 1)
  BY <1>1, <1>10, <1>11, <1>12 DEF Descends
<1>14. PICK h : Solves(h, D, T, B, base, prev, step)
  BY <1>13, Recursion
<1>15. h \in [D -> T] /\ \A i \in D : h[i] = IF i \in B THEN base[i] ELSE step[<<h[prev[i]], i>>]
  BY <1>14 DEF Solves
<1>16. ASSUME NEW i \in D, NEW k \in 0..m PROVE h[i][k] = StepAt(fmt, args, i, k, h)
  <2>1. CASE i > n
    <3>1. h[i] = none
      BY <1>2, <1>5, <1>15, <2>1
    <3> QED BY <1>0, <1>4, <2>1, <3>1 DEF StepAt
  <2>2. CASE ~(i > n)
    <3>1. prev[i] \in D /\ h[prev[i]] \in T /\ i \notin B
      BY <1>2, <1>11, <1>15, <2>2
    <3>2. <<h[prev[i]], i>> \in T \X D
      BY <3>1
    <3>3. step[<<h[prev[i]], i>>] = [j \in 0..m |-> At(h[prev[i]], i, j)]
      <4> HIDE DEF At
      <4> QED BY <1>6, <2>2, <3>2
    <3>4. h[i] = [j \in 0..m |-> At(h[prev[i]], i, j)]
      BY <1>15, <3>1, <3>3, Zenon
    <3>5. h[i][k] = At(h[prev[i]], i, k)
      <4> HIDE DEF At
      <4> QED BY <3>4
    <3>6. prev[i] = IF PairAt(fmt, i) THEN i + 2 ELSE i + 1
      BY <1>3, <2>2
    <3> QED BY <1>0, <2>2, <3>5, <3>6 DEF StepAt
  <2> QED BY <2>1, <2>2
<1>17. V(h)
  <2>1. \A i \in D : h[i] = [k \in 0..m |-> h[i][k]]
    BY <1>2, <1>15
  <2>2. \A i \in D : h[i] = [k \in 0..m |-> StepAt(fmt, args, i, k, h)]
    BY <1>16, <2>1
  <2>3. h = [i \in D |-> [k \in 0..m |-> StepAt(fmt, args, i, k, h)]]
    BY <1>15, <2>2
  <2> QED BY <1>0, <1>2, <2>3 DEF StepAt, PairAt
<1>18. PICK f : f = CHOOSE w : V(w)
  OBVIOUS
<1>19. V(f)
  BY <1>17, <1>18, Zenon
<1>20. FormatMessage(fmt, args) = f[1][0]
  BY <1>18 DEF FormatMessage
<1>21. f = [i \in D |-> [k \in 0..m |-> StepAt(fmt, args, i, k, f)]]
  BY <1>0, <1>2, <1>19 DEF StepAt, PairAt
<1> HIDE DEF V
<1>22. \A i \in D, k \in 0..m : f[i][k] = StepAt(fmt, args, i, k, f)
  <2> HIDE DEF StepAt
  <2>1. PICK g : g = f
    OBVIOUS
  <2>2. f = [i \in D |-> [k \in 0..m |-> StepAt(fmt, args, i, k, g)]]
    BY <1>21, <2>1
  <2>3. \A i \in D : f[i] = [k \in 0..m |-> StepAt(fmt, args, i, k, g)]
    BY <2>2
  <2>4. \A i \in D, k \in 0..m : f[i][k] = StepAt(fmt, args, i, k, g)
    BY <2>3
  <2> QED BY <2>1, <2>4
<1>23. PICK S : S = {i \in D : \A k \in 0..m : f[i][k] = h[i][k]}
  OBVIOUS
<1>24. ASSUME NEW i \in D, i \in B \/ prev[i] \in S PROVE i \in S
  <2> SUFFICES ASSUME NEW k \in 0..m PROVE StepAt(fmt, args, i, k, f) = StepAt(fmt, args, i, k, h)
    BY <1>16, <1>22, <1>23
  <2>1. CASE i > n
    BY <1>0, <2>1 DEF StepAt
  <2>2. CASE ~(i > n)
    <3>1. prev[i] = (IF PairAt(fmt, i) THEN i + 2 ELSE i + 1) /\ prev[i] \in S
      BY <1>2, <1>3, <1>24, <2>2
    <3>2. \A j \in 0..m : f[prev[i]][j] = h[prev[i]][j]
      BY <1>23, <3>1
    <3>3. k < m => k + 1 \in 0..m
      BY <1>1
    <3> QED BY <1>0, <2>2, <3>1, <3>2, <3>3 DEF StepAt
  <2> QED BY <2>1, <2>2
<1>25. D \subseteq S
  BY <1>13, <1>24, DescentInduction
<1>26. \A i \in D, k \in 0..m : f[i][k] \in Text
  <2>1. \A i \in D, k \in 0..m : f[i][k] = h[i][k]
    BY <1>23, <1>25
  <2>2. \A i \in D, k \in 0..m : h[i][k] \in Text
    BY <1>2, <1>15
  <2> QED BY <2>1, <2>2
<1>27. Scans(f, fmt, args)
  BY <1>0, <1>2, <1>22, <1>26 DEF Scans
<1> QED BY <1>20, <1>27

\* What ReferenceMessage takes apart: the places of the pairs, the rank of a
\* character among them, and the part each character contributes.
Opens(fmt) == {i \in 1..(Len(fmt) - 1) : fmt[i] = "{" /\ fmt[i + 1] = "}"}
RankIn(fmt, i) == Cardinality({j \in Opens(fmt) : j <= i})
PartOf(fmt, args, i) ==
  IF i \in Opens(fmt) THEN IF RankIn(fmt, i) <= Len(args) THEN args[RankIn(fmt, i)] ELSE <<"{", "}">>
  ELSE IF i - 1 \in Opens(fmt) THEN <<>> ELSE <<fmt[i]>>

LEMMA RankSteps ==
  ASSUME NEW fmt \in Text
  PROVE  /\ RankIn(fmt, 0) = 0
         /\ \A i \in Nat : RankIn(fmt, i) \in Nat
         /\ \A i \in Nat \ {0} : RankIn(fmt, i) = RankIn(fmt, i - 1) + (IF i \in Opens(fmt) THEN 1 ELSE 0)
<1>0. Len(fmt) \in Nat
  BY DEF Text
<1>1. PICK O : O = Opens(fmt)
  OBVIOUS
<1>2. O \subseteq 1..(Len(fmt) - 1)
  BY <1>1 DEF Opens
<1>2a. \A j \in O : j \in Nat /\ j > 0
  BY <1>0, <1>2
<1>3. IsFiniteSet(1..(Len(fmt) - 1))
  BY <1>0, FS_Interval
<1>4. ASSUME NEW i \in Nat PROVE IsFiniteSet({j \in O : j <= i})
  <2>1. {j \in O : j <= i} \subseteq 1..(Len(fmt) - 1)
    BY <1>2
  <2> QED BY <1>3, <2>1, FS_Subset
<1>5. RankIn(fmt, 0) = 0
  <2>1. {j \in O : j <= 0} = {}
    BY <1>2a
  <2> QED BY <1>1, <2>1, FS_EmptySet DEF RankIn
<1>6. ASSUME NEW i \in Nat PROVE RankIn(fmt, i) \in Nat
  BY <1>1, <1>4, FS_CardinalityType DEF RankIn
<1>7. ASSUME NEW i \in Nat \ {0}
      PROVE  RankIn(fmt, i) = RankIn(fmt, i - 1) + (IF i \in Opens(fmt) THEN 1 ELSE 0)
  <2>1. PICK P, Q : P = {j \in O : j <= i - 1} /\ Q = {j \in O : j <= i}
    OBVIOUS
  <2>2. IsFiniteSet(P) /\ i \notin P /\ i - 1 \in Nat
    <3>1. i - 1 \in Nat
      OBVIOUS
    <3> QED BY <1>4, <2>1, <3>1
  <2>3. CASE i \in O
    <3>1. Q = P \cup {i}
      <4>1. \A j \in O : j <= i <=> j <= i - 1 \/ j = i
        BY <1>2a
      <4> QED BY <2>1, <2>3, <4>1
    <3>2. Cardinality(Q) = Cardinality(P) + 1
      BY <2>2, <3>1, FS_AddElement
    <3> QED BY <1>1, <2>1, <2>3, <3>2 DEF RankIn
  <2>4. CASE i \notin O
    <3>1. Q = P
      BY <1>2a, <2>1, <2>4
    <3>2. Cardinality(P) \in Nat
      BY <2>2, FS_CardinalityType
    <3>3. RankIn(fmt, i) = Cardinality(P) /\ RankIn(fmt, i - 1) = Cardinality(P)
      BY <1>1, <2>1, <3>1 DEF RankIn
    <3> QED BY <1>1, <2>4, <3>2, <3>3
  <2> QED BY <2>3, <2>4
<1> QED BY <1>5, <1>6, <1>7

\* The parts are texts, and the reading is their concatenation.
LEMMA ReferenceJoins ==
  ASSUME NEW fmt \in Text, NEW args \in Seq(Text)
  PROVE  /\ \A i \in 1..Len(fmt) : PartOf(fmt, args, i) \in Text
         /\ \E h : /\ h \in [0..Len(fmt) -> Text] /\ h[0] = <<>>
                   /\ \A k \in 1..Len(fmt) : h[k] = h[k - 1] \o PartOf(fmt, args, k)
                   /\ ReferenceMessage(fmt, args) = h[Len(fmt)]
<1>0. PICK n, m : n = Len(fmt) /\ m = Len(args)
  OBVIOUS
<1>1. n \in Nat /\ m \in Nat /\ DOMAIN fmt = 1..n /\ \A i \in 1..n : fmt[i] \in Char
  BY <1>0 DEF Text
<1>2. ASSUME NEW i \in 1..n PROVE PartOf(fmt, args, i) \in Text
  <2>1. <<>> \in Text /\ <<fmt[i]>> \in Text
    BY <1>1 DEF Text
  <2>2. <<"{", "}">> \in Text
    <3>1. "{" \in Char /\ "}" \in Char
      BY CharAssumption
    <3>2. \A a, b \in Char : <<a, b>> \in Text
      BY DEF Text
    <3> QED BY <3>1, <3>2
  <2>3. CASE i \in Opens(fmt) /\ RankIn(fmt, i) <= m
    <3>1. /\ RankIn(fmt, i) = RankIn(fmt, i - 1) + (IF i \in Opens(fmt) THEN 1 ELSE 0)
          /\ RankIn(fmt, i) \in Nat /\ RankIn(fmt, i - 1) \in Nat
      <4>1. i \in Nat \ {0} /\ i \in Nat /\ i - 1 \in Nat
        OBVIOUS
      <4> QED BY <4>1, RankSteps
    <3>2. RankIn(fmt, i) \in 1..m
      BY <1>1, <2>3, <3>1
    <3>3. args[RankIn(fmt, i)] \in Text
      BY <1>0, <3>2
    <3> QED BY <1>0, <2>3, <3>3 DEF PartOf
  <2>4. CASE i \in Opens(fmt) /\ ~(RankIn(fmt, i) <= m)
    BY <1>0, <2>2, <2>4 DEF PartOf
  <2>5. CASE i \notin Opens(fmt)
    BY <2>1, <2>5 DEF PartOf
  <2> QED BY <2>3, <2>4, <2>5
<1>3. PICK parts : parts = [i \in 1..n |-> PartOf(fmt, args, i)]
  OBVIOUS
<1>4. parts \in Seq(Text) /\ Len(parts) = n /\ \A i \in 1..n : parts[i] = PartOf(fmt, args, i)
  <2>1. parts \in [1..n -> Text] /\ \A i \in 1..n : parts[i] = PartOf(fmt, args, i)
    BY <1>2, <1>3
  <2> QED BY <1>1, <2>1
<1>5. ReferenceMessage(fmt, args) = FlattenSeq(parts)
  BY <1>1, <1>3 DEF ReferenceMessage, PartOf, RankIn, Opens
<1>6. PICK h : Joins(h, parts, n) /\ FlattenSeq(parts) = h[n]
  BY <1>4, FlattenJoins
<1> QED BY <1>0, <1>2, <1>4, <1>5, <1>6 DEF Joins

\* format_message computes the positional reading: after any prefix that does not
\* cut a pair, the parts so far and what the scan still produces make the message.
LEMMA MessageIsReference ==
  ASSUME NEW fmt \in Text, NEW args \in Seq(Text)
  PROVE  /\ FormatMessage(fmt, args) = ReferenceMessage(fmt, args)
         /\ FormatMessage(fmt, args) \in Text
<1>0. PICK n, m, O : n = Len(fmt) /\ m = Len(args) /\ O = Opens(fmt)
  OBVIOUS
<1>1. n \in Nat /\ m \in Nat
  BY <1>0 DEF Text
<1>2. PICK f : Scans(f, fmt, args) /\ FormatMessage(fmt, args) = f[1][0]
  BY MessageScans
<1>3. \A i \in 1..(n + 2), k \in 0..m : f[i][k] \in Text /\ f[i][k] = StepAt(fmt, args, i, k, f)
  BY <1>0, <1>2 DEF Scans
<1>4. PICK h : /\ h \in [0..Len(fmt) -> Text] /\ h[0] = <<>>
               /\ \A k \in 1..Len(fmt) : h[k] = h[k - 1] \o PartOf(fmt, args, k)
               /\ ReferenceMessage(fmt, args) = h[Len(fmt)]
  BY ReferenceJoins
<1>5. /\ \A k \in 0..n : h[k] \in Text
      /\ h[0] = <<>> /\ ReferenceMessage(fmt, args) = h[n]
      /\ \A k \in 1..n : h[k] = h[k - 1] \o PartOf(fmt, args, k) /\ PartOf(fmt, args, k) \in Text
  BY <1>0, <1>4, ReferenceJoins
<1>6. /\ \A i \in Nat : i \in O <=> (i \in 1..(n - 1) /\ fmt[i] = "{" /\ fmt[i + 1] = "}")
      /\ \A i \in 1..n : PairAt(fmt, i) <=> i \in O
  <2>1. \A i \in Nat : i \in O <=> (i \in 1..(n - 1) /\ fmt[i] = "{" /\ fmt[i + 1] = "}")
    BY <1>0 DEF Opens
  <2>2. ASSUME NEW i \in 1..n PROVE PairAt(fmt, i) <=> i \in O
    <3>1. i \in Nat /\ (i \in 1..(n - 1) <=> i < n)
      BY <1>1
    <3> QED BY <1>0, <2>1, <3>1 DEF PairAt
  <2> QED BY <2>1, <2>2
<1> DEFINE R(i) == RankIn(fmt, i)
           K(i) == IF R(i) <= m THEN R(i) ELSE m
<1>7. /\ R(0) = 0 /\ \A i \in Nat : R(i) \in Nat
      /\ \A i \in Nat \ {0} : R(i) = R(i - 1) + (IF i \in O THEN 1 ELSE 0)
  BY <1>0, RankSteps
<1> HIDE DEF R
<1>8. \A i \in Nat : K(i) \in 0..m
  BY <1>1, <1>7
<1> HIDE DEF K
<1> DEFINE Ok(i) == i \notin O => h[i] \o f[i + 1][K(i)] = f[1][0]
<1>9. Ok(0)
  <2>1. K(0) = 0
    BY <1>1, <1>7 DEF K
  <2>2. f[1][0] \in Text /\ 0 + 1 = 1
    BY <1>1, <1>3
  <2> QED BY <1>5, <2>1, <2>2, TextConcat
<1>10. ASSUME NEW i \in 1..n, Ok(i - 1), i - 1 \notin O PROVE Ok(i)
  <2> SUFFICES ASSUME i \notin O PROVE h[i] \o f[i + 1][K(i)] = f[1][0]
    OBVIOUS
  <2>1. K(i) = K(i - 1) /\ K(i) \in 0..m
    <3>1. i \in Nat \ {0} /\ i - 1 \in Nat /\ i \in Nat
      OBVIOUS
    <3>2. R(i) = R(i - 1)
      BY <1>7, <3>1
    <3> QED BY <1>8, <3>1, <3>2 DEF K
  <2>2. PartOf(fmt, args, i) = <<fmt[i]>>
    BY <1>0, <1>10 DEF PartOf
  <2>3. i \in 1..(n + 2) /\ i + 1 \in 1..(n + 2) /\ ~(i > n) /\ (i - 1) + 1 = i
    BY <1>1
  <2>3a. ~PairAt(fmt, i)
    BY <1>6
  <2>4. f[i][K(i)] = <<fmt[i]>> \o f[i + 1][K(i)]
    BY <1>0, <1>3, <2>1, <2>3, <2>3a DEF StepAt
  <2>5. PICK a, b, c : a = h[i - 1] /\ b = <<fmt[i]>> /\ c = f[i + 1][K(i)]
    OBVIOUS
  <2>6. a \in Text /\ b \in Text /\ c \in Text
    <3>1. i - 1 \in 0..n
      BY <1>1
    <3>2. a \in Text
      BY <1>5, <2>5, <3>1
    <3>3. b \in Text
      BY <1>5, <2>2, <2>5
    <3>4. c \in Text
      BY <1>3, <2>1, <2>3, <2>5
    <3> QED BY <3>2, <3>3, <3>4
  <2>7. a \o (b \o c) = f[1][0]
    BY <1>10, <2>1, <2>3, <2>4, <2>5
  <2>8. h[i] = a \o b
    BY <1>5, <2>2, <2>5
  <2>9. (a \o b) \o c = a \o (b \o c)
    BY <2>6, TextAssociative
  <2> QED BY <2>5, <2>7, <2>8, <2>9
<1>11. ASSUME NEW i \in 2..n, Ok(i - 2), i - 1 \in O PROVE Ok(i)
  <2>1. /\ i \in 1..n /\ i - 1 \in 1..n /\ i - 1 \in 1..(n + 2) /\ i + 1 \in 1..(n + 2) /\ ~(i - 1 > n)
        /\ i \in Nat \ {0} /\ i \in Nat /\ i - 1 \in Nat \ {0} /\ i - 1 \in Nat /\ i - 2 \in Nat
        /\ (i - 1) - 1 = i - 2 /\ (i - 1) + 1 = i /\ (i - 1) + 2 = i + 1 /\ (i - 2) + 1 = i - 1
    BY <1>1
  <2>2. fmt[i] = "}" /\ fmt[i - 1] = "{"
    BY <1>6, <1>11, <2>1
  <2>3. i \notin O /\ i - 2 \notin O /\ PairAt(fmt, i - 1)
    <3>1. i \notin O
      BY <1>6, <2>1, <2>2
    <3>2. i - 2 \notin O
      BY <1>6, <2>1, <2>2
    <3> QED BY <1>6, <1>11, <2>1, <3>1, <3>2
  <2>4. R(i - 1) = R(i - 2) + 1 /\ R(i) = R(i - 1) /\ R(i - 2) \in Nat
    <3>1. R(i - 1) = R((i - 1) - 1) + 1
      BY <1>7, <1>11, <2>1
    <3>2. R(i) = R(i - 1) + 0 /\ R(i - 1) \in Nat
      BY <1>7, <2>1, <2>3
    <3> QED BY <1>7, <2>1, <3>1, <3>2
  <2>5. PICK p, c : p = PartOf(fmt, args, i - 1) /\ c = f[i + 1][K(i)]
    OBVIOUS
  <2>6. K(i) \in 0..m /\ K(i - 2) \in 0..m
    BY <1>8, <2>1
  <2>7. PartOf(fmt, args, i) = <<>>
    BY <1>0, <1>11, <2>3 DEF PartOf
  <2>8. p = IF R(i - 1) <= m THEN args[R(i - 1)] ELSE <<"{", "}">>
    BY <1>0, <1>11, <2>5 DEF PartOf, R
  <2>9. f[i - 1][K(i - 2)] = IF K(i - 2) < m THEN args[K(i - 2) + 1] \o f[i + 1][K(i - 2) + 1]
                             ELSE <<"{", "}">> \o f[i + 1][K(i - 2)]
    BY <1>0, <1>3, <2>1, <2>3, <2>6, ZenonT(60) DEF StepAt
  <2>10. f[i - 1][K(i - 2)] = p \o c
    <3>1. CASE R(i - 1) <= m
      <4>1. K(i - 2) = R(i - 2) /\ K(i - 2) < m /\ K(i - 2) + 1 = R(i - 1) /\ K(i) = R(i - 1)
        BY <1>1, <2>4, <3>1 DEF K
      <4> QED BY <2>5, <2>8, <2>9, <3>1, <4>1
    <3>2. CASE ~(R(i - 1) <= m)
      <4>1. K(i - 2) = m /\ K(i) = m
        BY <1>1, <2>4, <3>2 DEF K
      <4>2. ~(m < m)
        BY <1>1
      <4> QED BY <2>5, <2>8, <2>9, <3>2, <4>1, <4>2
    <3> QED BY <3>1, <3>2
  <2>11. PICK a : a = h[i - 2]
    OBVIOUS
  <2>12. a \in Text /\ p \in Text /\ c \in Text
    <3>1. i - 2 \in 0..n
      BY <1>1
    <3> QED BY <1>3, <1>5, <2>1, <2>5, <2>6, <2>11, <3>1
  <2>13. h[i] = a \o p
    <3>1. h[i - 1] = a \o p
      BY <1>5, <2>1, <2>5, <2>11
    <3>2. h[i] = h[i - 1] \o <<>>
      BY <1>5, <2>1, <2>7
    <3>3. a \o p \in Text
      BY <2>12, TextConcat
    <3> QED BY <3>1, <3>2, <3>3, TextConcat
  <2>14. a \o (p \o c) = f[1][0]
    BY <1>11, <2>1, <2>3, <2>10, <2>11
  <2>15. (a \o p) \o c = a \o (p \o c)
    BY <2>12, TextAssociative
  <2> QED BY <2>5, <2>13, <2>14, <2>15
<1> HIDE DEF Ok
<1>12. \A i \in 0..n : Ok(i)
  <2>1. PICK S : S = {i \in 0..n : Ok(i) /\ (i > 0 => Ok(i - 1))}
    OBVIOUS
  <2>2. 0 \in S
    BY <1>1, <1>9, <2>1
  <2>3. ASSUME NEW i \in 1..n, i - 1 \in S PROVE i \in S
    <3>1. Ok(i - 1) /\ (i - 1 > 0 => Ok((i - 1) - 1)) /\ i \in 0..n
      BY <2>1, <2>3
    <3>2. CASE i - 1 \notin O
      BY <1>10, <2>1, <3>1, <3>2
    <3>3. CASE i - 1 \in O
      <4>1. i - 1 > 0 /\ i \in 2..n /\ (i - 1) - 1 = i - 2
        <5>1. i - 1 \in Nat
          OBVIOUS
        <5>2. i - 1 \in 1..(n - 1)
          BY <1>6, <3>3, <5>1
        <5> QED BY <1>1, <5>2
      <4>2. Ok(i - 2)
        BY <3>1, <4>1
      <4>3. Ok(i)
        BY <1>11, <3>3, <4>1, <4>2
      <4> QED BY <2>1, <3>1, <4>3
    <3> QED BY <3>2, <3>3
  <2>4. 0..n \subseteq S
    BY <1>1, <2>2, <2>3, BoundedInduction
  <2> QED BY <2>1, <2>4
<1>13. h[n] \o f[n + 1][K(n)] = f[1][0]
  <2>1. n \in 0..n /\ n \notin 1..(n - 1)
    BY <1>1
  <2>2. n \notin O
    BY <1>1, <1>6, <2>1
  <2> QED BY <1>12, <2>1, <2>2 DEF Ok
<1>14. f[n + 1][K(n)] = <<>>
  <2>1. n + 1 \in 1..(n + 2) /\ n + 1 > n /\ K(n) \in 0..m
    BY <1>1, <1>8, SMTT(30)
  <2> QED BY <1>0, <1>3, <2>1 DEF StepAt
<1>15. h[n] \in Text
  BY <1>1, <1>5
<1>16. h[n] \o <<>> = h[n]
  BY <1>15, TextConcat
<1> QED BY <1>2, <1>5, <1>13, <1>14, <1>15, <1>16

-----------------------------------------------------------------------------
(* Placeholders.                                                           *)

LEMMA Suffix ==
  ASSUME NEW s \in Text, NEW a \in 1..(Len(s) + 1)
  PROVE  /\ SubSeq(s, a, Len(s)) \in Text
         /\ Len(SubSeq(s, a, Len(s))) = Len(s) - a + 1
         /\ \A i \in 1..(Len(s) - a + 1) : SubSeq(s, a, Len(s))[i] = s[a + i - 1]
<1>1. s \in Seq(Char) /\ Len(s) \in Nat
  BY DEF Text
<1>2. \A i \in a..Len(s) : s[i] \in Char
  BY <1>1
<1> QED BY <1>1, <1>2, SubSeqProperties DEF Text

LEMMA Slice ==
  ASSUME NEW s \in Text, NEW a \in Nat, NEW b \in Nat, 1 <= a, a <= b, b <= Len(s)
  PROVE  /\ SubSeq(s, a, b) \in Text /\ Len(SubSeq(s, a, b)) = b - a + 1
         /\ \A i \in 1..(b - a + 1) : SubSeq(s, a, b)[i] = s[a + i - 1]
<1>1. s \in Seq(Char) /\ Len(s) \in Nat
  BY DEF Text
<1>2. \A i \in a..b : s[i] \in Char
  BY <1>1
<1> QED BY <1>1, <1>2, SubSeqProperties DEF Text

LEMMA FiguresText ==
  ASSUME NEW w \in Text
  PROVE  Figures(w) \in Text /\ Len(Figures(w)) \in Nat /\ DOMAIN Figures(w) = 1..Len(Figures(w))
<1>1. CASE w # <<>> /\ w[1] = "+"
  <2>1. Tail(w) \in Text
    BY <1>1 DEF Text
  <2> QED BY <1>1, <2>1 DEF Figures, Text
<1>2. CASE ~(w # <<>> /\ w[1] = "+")
  BY <1>2 DEF Figures, Text
<1> QED BY <1>1, <1>2

\* A width str::parse accepts.
IsWidth(w) ==
  /\ Figures(w) # <<>> /\ ValueOf(Figures(w)) <= MaxUsize
  /\ \A i \in DOMAIN Figures(w) : IsDigit(Figures(w)[i])

LEMMA UsizeParses ==
  ASSUME NEW w \in Text
  PROVE  ParseUsize(w) = IF IsWidth(w) THEN {ValueOf(Figures(w))} ELSE {}
BY DEF ParseUsize, IsWidth, Figures

LEMMA UsizeRange ==
  ASSUME NEW w \in Text, IsWidth(w)
  PROVE  ValueOf(Figures(w)) \in 0..MaxUsize
<1>0. PICK d : d = Figures(w)
  OBVIOUS
<1>1. Len(d) \in Nat /\ (\A i \in 1..Len(d) : IsDigit(d[i])) /\ ValueOf(d) <= MaxUsize
  BY <1>0, FiguresText DEF IsWidth
<1>2. ValueOf(d) \in Nat
  <2>1. PICK v \in [0..Len(d) -> Nat] : ValueOf(d) = v[Len(d)]
    BY <1>1, ValueRec
  <2> QED BY <1>1, <2>1
<1> QED BY <1>0, <1>1, <1>2, WidthAssumption

\* A leading zero does not count.
LEMMA ValueLeadingZero ==
  ASSUME NEW d, NEW e, Len(d) \in Nat, Len(e) = Len(d) + 1, e[1] = "0",
         \A i \in 1..Len(d) : IsDigit(d[i]) /\ e[i + 1] = d[i]
  PROVE  ValueOf(e) = ValueOf(d)
<1>0. PICK n : n = Len(d)
  OBVIOUS
<1>1. n \in Nat /\ Len(e) = n + 1
  BY <1>0
<1>2. ASSUME NEW i \in 1..(n + 1) PROVE IsDigit(e[i])
  <2>1. CASE i = 1
    BY <2>1, DigitZero
  <2>2. CASE i # 1
    <3>1. i - 1 \in 1..n /\ (i - 1) + 1 = i
      BY <1>1, <2>2
    <3>2. e[(i - 1) + 1] = d[i - 1] /\ IsDigit(d[i - 1])
      BY <1>0, <3>1
    <3> QED BY <3>1, <3>2
  <2> QED BY <2>1, <2>2
<1>3. PICK u \in [0..n -> Nat] :
        ValueOf(d) = u[n] /\ u[0] = 0 /\ \A k \in 1..n : u[k] = 10 * u[k - 1] + DigitOf(d[k])
  BY <1>0, ValueRec
<1>4. PICK v \in [0..(n + 1) -> Nat] :
        ValueOf(e) = v[n + 1] /\ v[0] = 0 /\ \A k \in 1..(n + 1) : v[k] = 10 * v[k - 1] + DigitOf(e[k])
  <2>1. Len(e) \in Nat /\ \A i \in 1..Len(e) : IsDigit(e[i])
    BY <1>1, <1>2
  <2> QED BY <1>1, <2>1, ValueRec
<1>5. PICK S : S = {k \in 0..n : v[k + 1] = u[k]}
  OBVIOUS
<1>6. 0 \in S
  <2>1. v[1] = 10 * v[1 - 1] + DigitOf(e[1])
    BY <1>1, <1>4
  <2>2. v[1] = 0
    BY <1>4, <2>1, DigitZero
  <2> QED BY <1>1, <1>3, <1>5, <2>2
<1>7. ASSUME NEW k \in 1..n, k - 1 \in S PROVE k \in S
  <2>1. k + 1 \in 1..(n + 1) /\ (k + 1) - 1 = k /\ (k - 1) + 1 = k /\ k \in 0..n
    BY <1>1
  <2>2. v[k + 1] = 10 * v[k] + DigitOf(e[k + 1])
    BY <1>4, <2>1
  <2>3. v[k] = u[k - 1]
    BY <1>5, <1>7, <2>1
  <2>4. e[k + 1] = d[k]
    BY <1>0
  <2>5. u[k] = 10 * u[k - 1] + DigitOf(d[k])
    BY <1>3
  <2>6. v[k + 1] = u[k]
    BY <2>2, <2>3, <2>4, <2>5
  <2> QED BY <1>5, <2>1, <2>6
<1>8. 0..n \subseteq S
  BY <1>1, <1>6, <1>7, BoundedInduction
<1>9. v[n + 1] = u[n]
  BY <1>1, <1>5, <1>8
<1> QED BY <1>3, <1>4, <1>9

\* Alignment characters are neither digits nor signs.
LEMMA AlignChars ==
  ASSUME NEW c, IsAlign(c)
  PROVE  /\ ~IsDigit(c) /\ c # "0" /\ c # "+"
         /\ Aligns[c] \in {"Left", "Right", "Center"}
<1>1. c = "<" \/ c = ">" \/ c = "^"
  BY DEF IsAlign, Aligns
<1>2. ~IsDigit(c)
  BY <1>1 DEF IsDigit, Digits
<1>3. Aligns[c] \in {"Left", "Right", "Center"}
  BY <1>1 DEF Aligns
<1> QED BY <1>1, <1>2, <1>3

LEMMA PlusIsNoDigit == ~IsDigit("+")
BY DEF IsDigit, Digits

LEMMA PrefixFacts ==
  ASSUME NEW s \in Text
  PROVE  /\ SpecPrefix(s) \in 0..2 /\ SpecPrefix(s) <= Len(s)
         /\ SpecPrefix(s) > 0 => IsAlign(s[SpecPrefix(s)])
<1>1. Len(s) \in Nat /\ (s # <<>> => Len(s) >= 1)
  BY DEF Text
<1>2. CASE Len(s) >= 2 /\ IsAlign(s[2])
  BY <1>1, <1>2 DEF SpecPrefix
<1>3. CASE ~(Len(s) >= 2 /\ IsAlign(s[2])) /\ s # <<>> /\ IsAlign(s[1])
  <2>1. SpecPrefix(s) = 1
    BY <1>3 DEF SpecPrefix
  <2> QED BY <1>1, <1>3, <2>1
<1>4. CASE ~(Len(s) >= 2 /\ IsAlign(s[2])) /\ ~(s # <<>> /\ IsAlign(s[1]))
  <2>1. SpecPrefix(s) = 0
    BY <1>4 DEF SpecPrefix
  <2> QED BY <1>1, <2>1
<1> QED BY <1>2, <1>3, <1>4

\* The documented and the lenient widths are together what str::parse takes.
LEMMA WidthKinds ==
  ASSUME NEW w \in Text
  PROVE  DocumentedWidth(w) \/ LenientWidth(w) <=> IsWidth(w)
<1>1. IsWidth(w) <=> IsNumber(Figures(w))
  BY DEF IsWidth, IsNumber
<1>2. ASSUME DocumentedWidth(w) PROVE IsWidth(w)
  <2>1. IsNumber(w)
    BY <1>2 DEF DocumentedWidth
  <2>2. IsDigit(w[1])
    <3>1. w # <<>> /\ \A i \in DOMAIN w : IsDigit(w[i])
      BY <2>1 DEF IsNumber
    <3>2. 1 \in DOMAIN w
      BY <3>1 DEF Text
    <3> QED BY <3>1, <3>2
  <2>3. w[1] # "+"
    BY <2>2 DEF IsDigit, Digits
  <2>4. Figures(w) = w
    BY <2>3 DEF Figures
  <2> QED BY <1>1, <2>1, <2>4
<1>3. ASSUME IsWidth(w) PROVE DocumentedWidth(w) \/ LenientWidth(w)
  <2>1. CASE Figures(w) # w
    BY <1>1, <1>3, <2>1 DEF LenientWidth
  <2>2. CASE Figures(w) = w
    <3>1. ValueOf(w) \in 0..MaxUsize
      BY <1>3, <2>2, UsizeRange
    <3>2. ValueOf(w) > 0 \/ ValueOf(w) = 0
      BY <3>1, WidthAssumption
    <3> QED BY <1>1, <1>3, <2>2, <3>2 DEF LenientWidth, DocumentedWidth
  <2> QED BY <2>1, <2>2
<1> QED BY <1>1, <1>2, <1>3 DEF LenientWidth

\* What the grammar derives behind a prefix.
LEMMA DerivesShape ==
  ASSUME NEW s \in Text, NEW p \in 0..2, NEW z \in 0..1
  PROVE  Derives(s, p, z) <=>
           /\ p + z <= Len(s)
           /\ p > 0 => IsAlign(s[p])
           /\ z = 1 => s[p + 1] = "0"
           /\ SubSeq(s, p + z + 1, Len(s)) = <<>> \/ IsWidth(SubSeq(s, p + z + 1, Len(s)))
<1>1. SubSeq(s, p + z + 1, Len(s)) \in Text
  BY DEF Text
<1> QED BY <1>1, WidthKinds DEF Derives

\* The lookahead never takes a wrong turn: a spec has one prefix at most, since
\* nothing behind a prefix aligns.
LEMMA OnePrefix ==
  ASSUME NEW s \in Text, NEW p \in 0..2, NEW z \in 0..1, Derives(s, p, z)
  PROVE  p = SpecPrefix(s)
<1>1. /\ p + z <= Len(s) /\ Len(s) \in Nat
      /\ p > 0 => IsAlign(s[p])
      /\ z = 1 => s[p + 1] = "0"
      /\ SubSeq(s, p + z + 1, Len(s)) = <<>> \/ IsWidth(SubSeq(s, p + z + 1, Len(s)))
  BY DerivesShape DEF Text
<1>2. ASSUME NEW j \in (p + z + 1)..Len(s) PROVE ~IsAlign(s[j])
  <2>1. PICK a : a = p + z + 1
    OBVIOUS
  <2>2. a \in 1..(Len(s) + 1) /\ j \in a..Len(s) /\ a \in Nat /\ j \in Nat
    BY <1>1, <2>1
  <2>3. PICK w : w = SubSeq(s, a, Len(s))
    OBVIOUS
  <2>4. w \in Text /\ Len(w) = Len(s) - a + 1 /\ \A i \in 1..(Len(s) - a + 1) : w[i] = s[a + i - 1]
    BY <2>2, <2>3, Suffix
  <2>5. PICK i : i = j - a + 1
    OBVIOUS
  <2>6. i \in 1..Len(w) /\ w[i] = s[j]
    <3>1. i \in 1..(Len(s) - a + 1) /\ a + i - 1 = j
      BY <1>1, <2>2, <2>5
    <3> QED BY <2>4, <3>1
  <2>7. IsWidth(w)
    <3>1. w # <<>>
      BY <2>6
    <3> QED BY <1>1, <2>1, <2>3, <3>1
  <2>8. CASE w # <<>> /\ w[1] = "+"
    <3>1. Figures(w) = Tail(w)
      BY <2>8 DEF Figures
    <3>2. CASE i = 1
      BY <2>6, <2>8, <3>2, AlignChars
    <3>3. CASE i # 1
      <4>1. i - 1 \in DOMAIN Tail(w) /\ Tail(w)[i - 1] = w[i]
        BY <2>4, <2>6, <2>8, <3>3 DEF Text
      <4>2. IsDigit(w[i])
        BY <2>7, <3>1, <4>1 DEF IsWidth
      <4> QED BY <2>6, <4>2, AlignChars
    <3> QED BY <3>2, <3>3
  <2>9. CASE ~(w # <<>> /\ w[1] = "+")
    <3>1. Figures(w) = w
      BY <2>9 DEF Figures
    <3>2. i \in DOMAIN w
      BY <2>4, <2>6 DEF Text
    <3>3. IsDigit(w[i])
      BY <2>7, <3>1, <3>2 DEF IsWidth
    <3> QED BY <2>6, <3>3, AlignChars
  <2> QED BY <2>8, <2>9
<1>3. ASSUME NEW j \in (p + 1)..Len(s) PROVE ~IsAlign(s[j])
  <2>1. CASE j = p + 1 /\ z = 1
    BY <1>1, <2>1, AlignChars
  <2>2. CASE ~(j = p + 1 /\ z = 1)
    <3>1. j \in (p + z + 1)..Len(s)
      BY <1>1, <2>2
    <3> QED BY <1>2, <3>1
  <2> QED BY <2>1, <2>2
<1>4. s # <<>> <=> Len(s) >= 1
  BY EmptySeq, <1>1 DEF Text
<1>5. CASE p = 2
  <2>1. Len(s) >= 2 /\ IsAlign(s[2])
    BY <1>1, <1>5
  <2> QED BY <1>5, <2>1 DEF SpecPrefix
<1>6. CASE p = 1
  <2>1. ~(Len(s) >= 2 /\ IsAlign(s[2])) /\ s # <<>> /\ IsAlign(s[1])
    BY <1>1, <1>3, <1>4, <1>6
  <2> QED BY <1>6, <2>1 DEF SpecPrefix
<1>7. CASE p = 0
  <2>1. ~(Len(s) >= 2 /\ IsAlign(s[2])) /\ ~(s # <<>> /\ IsAlign(s[1]))
    BY <1>1, <1>3, <1>4, <1>7
  <2> QED BY <1>7, <2>1 DEF SpecPrefix
<1> QED BY <1>5, <1>6, <1>7

\* The parser's zero flag, and what is left for the width.
ZeroOf(s) == IF Len(s) > SpecPrefix(s) /\ s[SpecPrefix(s) + 1] = "0" THEN 1 ELSE 0
RestOf(s) == SubSeq(s, SpecPrefix(s) + ZeroOf(s) + 1, Len(s))

LEMMA RestFacts ==
  ASSUME NEW s \in Text
  PROVE  /\ ZeroOf(s) \in 0..1 /\ SpecPrefix(s) + ZeroOf(s) <= Len(s)
         /\ SpecPrefix(s) + ZeroOf(s) + 1 \in 1..(Len(s) + 1)
         /\ RestOf(s) \in Text
<1>1. Len(s) \in Nat /\ SpecPrefix(s) \in 0..2 /\ SpecPrefix(s) <= Len(s)
  BY PrefixFacts DEF Text
<1>2. ZeroOf(s) \in 0..1 /\ (ZeroOf(s) = 1 => Len(s) > SpecPrefix(s))
  BY DEF ZeroOf
<1>3. SpecPrefix(s) + ZeroOf(s) <= Len(s) /\ SpecPrefix(s) + ZeroOf(s) + 1 \in 1..(Len(s) + 1)
  BY <1>1, <1>2
<1>4. RestOf(s) \in Text
  BY <1>3, Suffix DEF RestOf
<1> QED BY <1>2, <1>3, <1>4

\* What parse_format_spec returns for a text that is not empty.
LEMMA SpecParses ==
  ASSUME NEW s \in Text, s # <<>>
  PROVE  /\ \A spec \in ParseFormatSpec(s) : \E w :
              /\ w \in IF RestOf(s) = <<>> THEN {0} ELSE ParseUsize(RestOf(s))
              /\ spec = FormatSpec(IF SpecPrefix(s) = 2 THEN s[1] ELSE " ",
                                   IF SpecPrefix(s) = 0 THEN None ELSE Aligns[s[SpecPrefix(s)]],
                                   Len(s) > SpecPrefix(s) /\ s[SpecPrefix(s) + 1] = "0", w)
         /\ ParseFormatSpec(s) = {} => RestOf(s) # <<>> /\ ParseUsize(RestOf(s)) = {}
<1>1. SpecPrefix(s) \in 0..2
  BY PrefixFacts
<1>2. PICK zero : zero = (Len(s) > SpecPrefix(s) /\ s[SpecPrefix(s) + 1] = "0")
  OBVIOUS
<1>3. PICK rest : rest = SubSeq(s, SpecPrefix(s) + (IF zero THEN 2 ELSE 1), Len(s))
  OBVIOUS
<1>4. PICK fill, align : /\ fill = IF SpecPrefix(s) = 2 THEN s[1] ELSE " "
                         /\ align = IF SpecPrefix(s) = 0 THEN None ELSE Aligns[s[SpecPrefix(s)]]
  OBVIOUS
<1>5. PICK widths : widths = IF rest = <<>> THEN {0} ELSE ParseUsize(rest)
  OBVIOUS
<1>6. ParseFormatSpec(s) = {FormatSpec(fill, align, zero, w) : w \in widths}
  BY <1>2, <1>3, <1>4, <1>5 DEF ParseFormatSpec
<1>7. rest = RestOf(s)
  <2>1. CASE zero
    <3>1. ZeroOf(s) = 1
      BY <1>2, <2>1 DEF ZeroOf
    <3>2. SpecPrefix(s) + 2 = SpecPrefix(s) + 1 + 1
      BY <1>1
    <3> QED BY <1>3, <2>1, <3>1, <3>2 DEF RestOf
  <2>2. CASE ~zero
    <3>1. ZeroOf(s) = 0
      BY <1>2, <2>2 DEF ZeroOf
    <3>2. SpecPrefix(s) + 1 = SpecPrefix(s) + 0 + 1
      BY <1>1
    <3> QED BY <1>3, <2>2, <3>1, <3>2 DEF RestOf
  <2> QED BY <2>1, <2>2
<1>8. ASSUME NEW spec \in ParseFormatSpec(s)
      PROVE  \E w : /\ w \in IF RestOf(s) = <<>> THEN {0} ELSE ParseUsize(RestOf(s))
                    /\ spec = FormatSpec(IF SpecPrefix(s) = 2 THEN s[1] ELSE " ",
                                IF SpecPrefix(s) = 0 THEN None ELSE Aligns[s[SpecPrefix(s)]],
                                Len(s) > SpecPrefix(s) /\ s[SpecPrefix(s) + 1] = "0", w)
  <2>1. PICK w \in widths : spec = FormatSpec(fill, align, zero, w)
    BY <1>6
  <2> QED BY <1>2, <1>4, <1>5, <1>7, <2>1
<1>9. ASSUME ParseFormatSpec(s) = {} PROVE RestOf(s) # <<>> /\ ParseUsize(RestOf(s)) = {}
  <2>1. widths = {}
    BY <1>6, <1>9
  <2> QED BY <1>5, <1>7, <2>1
<1> QED BY <1>8, <1>9

\* What PlaceholdersFollowGrammar says of an accepted spec.
FollowsGrammar(s, spec) ==
  \E p \in 0..2, z \in 0..1 :
    /\ Derives(s, p, z)
    /\ spec.fill = (IF p = 2 THEN s[1] ELSE " ")
    /\ spec.align = (IF p = 0 THEN None ELSE Aligns[s[p]])
    /\ spec.zero_pad <=> z = 1
    /\ spec.zero_pad <=> \E q \in 0..2 : Derives(s, q, 1)
    /\ spec.width = ValueOf(Figures(SubSeq(s, p + z + 1, Len(s))))

FormatSpecs == [fill : Char, align : {None, "Left", "Right", "Center"}, zero_pad : BOOLEAN, width : 0..MaxUsize]

LEMMA SpecAccepted ==
  ASSUME NEW s \in Text, NEW spec \in ParseFormatSpec(s)
  PROVE  FollowsGrammar(s, spec) /\ spec \in FormatSpecs
<1>1. CASE s = <<>>
  <2>1. spec = DefaultSpec
    BY <1>1 DEF ParseFormatSpec
  <2>2. /\ spec.fill = " " /\ spec.align = None /\ spec.width = 0
        /\ ~spec.zero_pad
    BY <2>1 DEF DefaultSpec, FormatSpec
  <2>3. spec \in FormatSpecs
    <3>1. " " \in Char
      BY CharAssumption
    <3>2. 0 \in 0..MaxUsize
      BY WidthAssumption
    <3> QED BY <2>1, <3>1, <3>2 DEF DefaultSpec, FormatSpec, FormatSpecs
  <2>4. Len(s) = 0 /\ SubSeq(s, 1, Len(s)) = <<>>
    BY <1>1
  <2>5. Derives(s, 0, 0)
    BY <2>4, DerivesShape
  <2>6. ASSUME NEW q \in 0..2 PROVE ~Derives(s, q, 1)
    BY <2>4, DerivesShape
  <2>7. ValueOf(Figures(SubSeq(s, 0 + 0 + 1, Len(s)))) = 0
    <3>1. Figures(<<>>) = <<>>
      BY DEF Figures
    <3>2. 0 + 0 + 1 = 1
      OBVIOUS
    <3>3. SubSeq(s, 0 + 0 + 1, Len(s)) = <<>>
      BY <2>4, <3>2
    <3> QED BY <3>1, <3>3, ValueEmpty
  <2>8. (spec.zero_pad <=> 0 = 1) /\ (spec.zero_pad <=> \E q \in 0..2 : Derives(s, q, 1))
    <3>1. 0 # 1
      OBVIOUS
    <3>2. ~\E q \in 0..2 : Derives(s, q, 1)
      BY <2>6
    <3> QED BY <2>2, <3>1, <3>2, Zenon
  <2>9. /\ 0 \in 0..2 /\ 0 \in 0..1 /\ Derives(s, 0, 0)
        /\ spec.fill = (IF 0 = 2 THEN s[1] ELSE " ")
        /\ spec.align = (IF 0 = 0 THEN None ELSE Aligns[s[0]])
        /\ spec.width = ValueOf(Figures(SubSeq(s, 0 + 0 + 1, Len(s))))
    <3>1. 0 \in 0..2 /\ 0 \in 0..1 /\ 0 # 2
      OBVIOUS
    <3>2. spec.fill = (IF 0 = 2 THEN s[1] ELSE " ")
      BY <2>2, <3>1, Zenon
    <3>3. spec.align = (IF 0 = 0 THEN None ELSE Aligns[s[0]])
      BY <2>2, Zenon
    <3> QED BY <2>2, <2>5, <2>7, <3>1, <3>2, <3>3, Zenon
  <2> QED BY <2>3, <2>8, <2>9, Zenon DEF FollowsGrammar
<1>2. CASE s # <<>>
  <2>1. PICK p, z, rest : p = SpecPrefix(s) /\ z = ZeroOf(s) /\ rest = RestOf(s)
    OBVIOUS
  <2>2. /\ p \in 0..2 /\ p <= Len(s) /\ (p > 0 => IsAlign(s[p])) /\ Len(s) \in Nat
        /\ z \in 0..1 /\ p + z <= Len(s) /\ rest \in Text /\ rest = SubSeq(s, p + z + 1, Len(s))
    BY <2>1, PrefixFacts, RestFacts DEF RestOf, Text
  <2>3. z = 1 <=> (Len(s) > p /\ s[p + 1] = "0")
    BY <2>1 DEF ZeroOf
  <2>4. PICK w : /\ w \in IF rest = <<>> THEN {0} ELSE ParseUsize(rest)
                 /\ spec = FormatSpec(IF p = 2 THEN s[1] ELSE " ", IF p = 0 THEN None ELSE Aligns[s[p]],
                                      Len(s) > p /\ s[p + 1] = "0", w)
    BY <1>2, <2>1, SpecParses
  <2>5. /\ spec.fill = (IF p = 2 THEN s[1] ELSE " ")
        /\ spec.align = (IF p = 0 THEN None ELSE Aligns[s[p]])
        /\ spec.width = w
    BY <2>4 DEF FormatSpec
  <2>6. spec.zero_pad <=> z = 1
    BY <2>3, <2>4 DEF FormatSpec
  <2>7. (rest = <<>> \/ IsWidth(rest)) /\ w = ValueOf(Figures(rest)) /\ w \in 0..MaxUsize
    <3>1. CASE rest = <<>>
      <4>1. Figures(<<>>) = <<>>
        BY DEF Figures
      <4>2. w = 0
        BY <2>4, <3>1
      <4>3. 0 \in 0..MaxUsize
        BY WidthAssumption
      <4> QED BY <3>1, <4>1, <4>2, <4>3, ValueEmpty
    <3>2. CASE rest # <<>>
      <4>1. w \in ParseUsize(rest)
        BY <2>4, <3>2
      <4>2. IsWidth(rest) /\ w = ValueOf(Figures(rest))
        BY <2>2, <4>1, UsizeParses
      <4> QED BY <2>2, <4>2, UsizeRange
    <3> QED BY <3>1, <3>2
  <2>8. Derives(s, p, z)
    BY <2>2, <2>3, <2>7, DerivesShape
  <2>9. z = 1 <=> \E q \in 0..2 : Derives(s, q, 1)
    <3>1. ASSUME NEW q \in 0..2, Derives(s, q, 1) PROVE z = 1
      <4>1. q = p
        BY <2>1, <3>1, OnePrefix
      <4>2. q + 1 <= Len(s) /\ s[q + 1] = "0"
        BY <3>1, DerivesShape
      <4> QED BY <2>2, <2>3, <4>1, <4>2
    <3> QED BY <2>2, <2>8, <3>1
  <2>10. FollowsGrammar(s, spec)
    BY <2>2, <2>5, <2>6, <2>7, <2>8, <2>9 DEF FollowsGrammar
  <2>11. spec \in FormatSpecs
    <3>1. PICK fill, align : /\ fill = (IF p = 2 THEN s[1] ELSE " ")
                             /\ align = (IF p = 0 THEN None ELSE Aligns[s[p]])
      OBVIOUS
    <3>2. fill \in Char
      <4>1. " " \in Char
        BY CharAssumption
      <4>2. p = 2 => s[1] \in Char
        BY <2>2 DEF Text
      <4> QED BY <3>1, <4>1, <4>2
    <3>3. align \in {None, "Left", "Right", "Center"}
      <4>1. p # 0 => Aligns[s[p]] \in {"Left", "Right", "Center"}
        BY <2>2, AlignChars
      <4> QED BY <3>1, <4>1
    <3>4. \A b \in BOOLEAN : FormatSpec(fill, align, b, w) \in FormatSpecs
      BY <2>7, <3>2, <3>3 DEF FormatSpec, FormatSpecs
    <3>5. (Len(s) > p /\ s[p + 1] = "0") \in BOOLEAN
      OBVIOUS
    <3> QED BY <2>4, <3>1, <3>4, <3>5
  <2> QED BY <2>10, <2>11
<1> QED BY <1>1, <1>2

\* A refused spec has no derivation: the width overflows or is no number, with or
\* without the leading zero.
LEMMA SpecRefused ==
  ASSUME NEW s \in Text, ParseFormatSpec(s) = {}
  PROVE  ~\E p \in 0..2, z \in 0..1 : Derives(s, p, z)
<1> SUFFICES ASSUME NEW q \in 0..2, NEW y \in 0..1, Derives(s, q, y) PROVE FALSE
  OBVIOUS
<1>1. s # <<>>
  BY DEF ParseFormatSpec
<1>2. PICK p, z, rest : p = SpecPrefix(s) /\ z = ZeroOf(s) /\ rest = RestOf(s)
  OBVIOUS
<1>3. /\ p \in 0..2 /\ p <= Len(s) /\ Len(s) \in Nat
      /\ z \in 0..1 /\ p + z <= Len(s) /\ rest \in Text /\ rest = SubSeq(s, p + z + 1, Len(s))
      /\ p + z + 1 \in 1..(Len(s) + 1)
  BY <1>2, PrefixFacts, RestFacts DEF RestOf, Text
<1>4. rest # <<>> /\ ~IsWidth(rest)
  <2>1. rest # <<>> /\ ParseUsize(rest) = {}
    BY <1>1, <1>2, SpecParses
  <2> QED BY <1>3, <2>1, UsizeParses
<1>5. z = 1 <=> (Len(s) > p /\ s[p + 1] = "0")
  BY <1>2 DEF ZeroOf
<1>6. q = p
  BY <1>2, OnePrefix
<1>7. /\ p + y <= Len(s) /\ (y = 1 => s[p + 1] = "0")
      /\ SubSeq(s, p + y + 1, Len(s)) = <<>> \/ IsWidth(SubSeq(s, p + y + 1, Len(s)))
  BY <1>6, DerivesShape
<1>8. CASE y = z
  BY <1>3, <1>4, <1>7, <1>8
<1>9. CASE y # z
  <2>1. y = 0 /\ z = 1
    BY <1>3, <1>5, <1>7, <1>9
  <2>2. PICK e : e = SubSeq(s, p + 1, Len(s))
    OBVIOUS
  <2>3. /\ e \in Text /\ Len(e) = Len(s) - (p + 1) + 1
        /\ \A i \in 1..(Len(s) - (p + 1) + 1) : e[i] = s[(p + 1) + i - 1]
    <3>1. p + 1 \in 1..(Len(s) + 1)
      BY <1>3
    <3> QED BY <2>2, <3>1, Suffix
  <2>4. /\ Len(rest) = Len(s) - (p + 2) + 1
        /\ \A i \in 1..(Len(s) - (p + 2) + 1) : rest[i] = s[(p + 2) + i - 1]
    <3>1. p + 2 \in 1..(Len(s) + 1) /\ p + z + 1 = p + 2
      BY <1>3, <2>1
    <3> QED BY <1>3, <3>1, Suffix
  <2>5. PICK n : n = Len(rest)
    OBVIOUS
  <2>6. /\ n \in Nat /\ n >= 1 /\ Len(e) = n + 1 /\ n = Len(s) - p - 1
    <3>1. n \in Nat /\ n # 0
      BY <1>3, <1>4, <2>5, EmptySeq DEF Text
    <3> QED BY <1>3, <2>3, <2>4, <2>5, <3>1
  <2>7. e[1] = "0" /\ \A i \in 1..n : e[i + 1] = rest[i]
    <3>1. e[1] = "0"
      <4>1. 1 \in 1..(Len(s) - (p + 1) + 1) /\ (p + 1) + 1 - 1 = p + 1
        BY <1>3, <2>6
      <4> QED BY <1>5, <2>1, <2>3, <4>1
    <3>2. ASSUME NEW i \in 1..n PROVE e[i + 1] = rest[i]
      <4>1. /\ i + 1 \in 1..(Len(s) - (p + 1) + 1) /\ i \in 1..(Len(s) - (p + 2) + 1)
            /\ (p + 1) + (i + 1) - 1 = (p + 2) + i - 1
        BY <1>3, <2>6
      <4>2. e[i + 1] = s[(p + 1) + (i + 1) - 1] /\ rest[i] = s[(p + 2) + i - 1]
        BY <2>3, <2>4, <4>1
      <4> QED BY <4>1, <4>2
    <3> QED BY <3>1, <3>2
  <2>8. IsWidth(e) /\ Figures(e) = e
    <3>1. e # <<>>
      BY <2>6
    <3>2. p + 0 + 1 = p + 1
      BY <1>3
    <3>3. e = SubSeq(s, p + y + 1, Len(s))
      BY <2>1, <2>2, <3>2
    <3>4. IsWidth(e)
      BY <1>7, <3>1, <3>3
    <3>5. Figures(e) = e
      BY <2>7 DEF Figures
    <3> QED BY <3>4, <3>5
  <2>9. (\A i \in 1..(n + 1) : IsDigit(e[i])) /\ ValueOf(e) <= MaxUsize
    <3>1. DOMAIN e = 1..(n + 1)
      BY <2>3, <2>6 DEF Text
    <3> QED BY <2>8, <3>1 DEF IsWidth
  <2>10. \A i \in 1..n : IsDigit(rest[i])
    <3>1. \A i \in 1..n : i + 1 \in 1..(n + 1)
      BY <2>6
    <3> QED BY <2>7, <2>9, <3>1
  <2>11. ValueOf(e) = ValueOf(rest)
    BY <2>5, <2>6, <2>7, <2>10, ValueLeadingZero
  <2>12. Figures(rest) = rest
    <3>1. IsDigit(rest[1])
      BY <2>6, <2>10
    <3>2. rest[1] # "+"
      BY <3>1, PlusIsNoDigit
    <3> QED BY <3>2 DEF Figures
  <2>13. DOMAIN rest = 1..n
    BY <1>3, <2>5 DEF Text
  <2> QED BY <1>4, <2>9, <2>10, <2>11, <2>12, <2>13 DEF IsWidth
<1> QED BY <1>8, <1>9

\* The first colon splits a token.
LEMMA ColonSplits ==
  ASSUME NEW t \in Text, Colon(t) # {}
  PROVE  \E c \in 1..Len(t) :
           /\ t[c] = ":" /\ (\A j \in 1..Len(t) : t[j] = ":" => c <= j)
           /\ Name(t) = SubSeq(t, 1, c - 1) /\ SpecText(t) = SubSeq(t, c + 1, Len(t))
<1>1. PICK c : c = CHOOSE i \in Colon(t) : TRUE
  OBVIOUS
<1>2. c \in Colon(t)
  BY <1>1
<1>3. DOMAIN t = 1..Len(t)
  BY DEF Text
<1> QED BY <1>1, <1>2, <1>3 DEF Colon, Name, SpecText

LEMMA SpecTextIsText ==
  ASSUME NEW t \in Text
  PROVE  SpecText(t) \in Text
<1>1. CASE Colon(t) = {}
  BY <1>1 DEF SpecText, Text
<1>2. CASE Colon(t) # {}
  <2>1. PICK c \in 1..Len(t) : SpecText(t) = SubSeq(t, c + 1, Len(t))
    BY <1>2, ColonSplits
  <2>2. c + 1 \in 1..(Len(t) + 1)
    BY DEF Text
  <2> QED BY <2>1, <2>2, Suffix
<1> QED BY <1>1, <1>2

\* The name of an accepted token is its first character.
LEMMA NameAccepted ==
  ASSUME NEW t \in Text, NEW kind \in ParseFieldKind(Name(t))
  PROVE  kind \in FieldKinds /\ t[1] = kind
<1>1. kind \in FieldKinds /\ Name(t) = <<kind>>
  BY DEF ParseFieldKind
<1>2. CASE Colon(t) = {}
  <2>1. t = <<kind>>
    BY <1>1, <1>2 DEF Name
  <2> QED BY <1>1, <2>1
<1>3. CASE Colon(t) # {}
  <2>1. PICK c \in 1..Len(t) : Name(t) = SubSeq(t, 1, c - 1)
    BY <1>3, ColonSplits
  <2>2. Len(t) \in Nat /\ t \in Seq(Char)
    BY DEF Text
  <2>3. PICK u : u = SubSeq(t, 1, c - 1)
    OBVIOUS
  <2>4. Len(u) = c - 1 /\ \A i \in 1..(c - 1) : u[i] = t[i]
    BY <2>2, <2>3
  <2>5. Len(u) = 1 /\ u[1] = kind
    BY <1>1, <2>1, <2>3, SMTT(30)
  <2> QED BY <1>1, <2>4, <2>5
<1> QED BY <1>2, <1>3

\* A token whose name is refused names no field.
LEMMA NameRefused ==
  ASSUME NEW t \in Text, ParseFieldKind(Name(t)) = {}
  PROVE  ~\E f \in FieldKinds : t = <<f>> \/ (Len(t) > 1 /\ t[1] = f /\ t[2] = ":")
<1> SUFFICES ASSUME NEW f \in FieldKinds, t = <<f>> \/ (Len(t) > 1 /\ t[1] = f /\ t[2] = ":")
             PROVE  Name(t) = <<f>>
  BY DEF ParseFieldKind
<1>1. f # ":"
  BY DEF FieldKinds
<1>2. CASE t = <<f>>
  <2>1. Colon(t) = {}
    <3>1. DOMAIN t = {1} /\ t[1] = f
      BY <1>2
    <3> QED BY <1>1, <3>1 DEF Colon
  <2> QED BY <1>2, <2>1 DEF Name
<1>3. CASE Len(t) > 1 /\ t[1] = f /\ t[2] = ":"
  <2>1. t \in Seq(Char) /\ Len(t) \in Nat /\ DOMAIN t = 1..Len(t)
    BY DEF Text
  <2>2. 2 \in Colon(t)
    <3>1. 2 \in 1..Len(t) /\ \A j \in 1..Len(t) : t[j] = ":" => 2 <= j
      BY <1>1, <1>3, <2>1
    <3> QED BY <1>3, <2>1, <3>1 DEF Colon
  <2>3. PICK c \in 1..Len(t) : /\ t[c] = ":" /\ (\A j \in 1..Len(t) : t[j] = ":" => c <= j)
                               /\ Name(t) = SubSeq(t, 1, c - 1)
    BY <2>2, ColonSplits
  <2>4. c = 2
    BY <1>1, <1>3, <2>1, <2>3
  <2>5. PICK u : u = SubSeq(t, 1, 1)
    OBVIOUS
  <2>6. u \in Seq(Char) /\ Len(u) = 1 /\ u[1] = f
    BY <1>3, <2>1, <2>5
  <2>7. u = <<f>>
    BY <2>6
  <2>8. c - 1 = 1
    BY <2>4
  <2> QED BY <2>3, <2>5, <2>7, <2>8
<1> QED BY <1>2, <1>3

-----------------------------------------------------------------------------
(* The states of the parser and of format.                                 *)

LiteralElements == [kind : {"Literal"}, text : Text, spec : {None}]
FieldElements == [kind : FieldKinds, text : Text, spec : FormatSpecs]
Elements == LiteralElements \cup FieldElements

\* Types, and when a value is waiting to be padded.
FormatInv ==
  /\ pattern \in Patterns /\ pos \in 0..Len(pattern)
  /\ elements \in Seq(Elements) /\ literal \in Text /\ token \in Text
  /\ record \in LogRecords \cup {None} /\ next \in Nat \ {0}
  /\ value \in Text \cup {None} /\ out \in Text
  /\ record # None => state = "ready"
  /\ value # None => AtElement /\ Element.kind # "Literal"

LEMMA ElementFacts ==
  /\ \A e \in Elements : /\ e.kind \in FieldKinds \cup {"Literal"} /\ e.text \in Text
                         /\ e.kind # "Literal" => e.kind \in FieldKinds /\ e.spec \in FormatSpecs
  /\ \A t \in Text : Literal(t) \in Elements /\ Literal(t).kind = "Literal" /\ Literal(t).text = t
  /\ "Literal" \notin FieldKinds
BY DEF Elements, LiteralElements, FieldElements, Literal, FieldKinds

LEMMA FieldFacts ==
  ASSUME NEW kind \in FieldKinds, NEW spec \in FormatSpecs, token \in Text
  PROVE  /\ Field(kind, spec) \in Elements /\ Field(kind, spec).kind = kind
         /\ Field(kind, spec).text = token /\ Field(kind, spec).spec = spec
BY DEF Elements, FieldElements, Field

LEMMA FlushedFacts ==
  ASSUME elements \in Seq(Elements), literal \in Text
  PROVE  Flushed \in Seq(Elements)
BY ElementFacts DEF Flushed

\* Every field of a record renders as text.
LEMMA RenderText ==
  ASSUME NEW r \in LogRecords, NEW kind \in FieldKinds
  PROVE  RenderField(kind, r) \in Text
<1>1. /\ r.level \in Text /\ r.file \in Text /\ r.module \in Text /\ r.logger \in Text
      /\ r.fmt \in Text /\ r.args \in Seq(Text) /\ r.line \in Nat /\ r.timestamp_ns \in Nat
  BY DEF LogRecords
<1>2. Secs(r) \in Nat /\ Millis(r) \in Nat
  BY <1>1 DEF Secs, Millis
<1>3. /\ Display(Secs(r)) \in Text /\ Display(Millis(r)) \in Text /\ Display(r.line) \in Text
      /\ FormatMessage(r.fmt, r.args) \in Text
  BY <1>1, <1>2, DisplayText, MessageIsReference
<1> QED BY <1>1, <1>3 DEF RenderField, FieldKinds

LEMMA RepeatText ==
  ASSUME NEW c \in Char, NEW n \in Nat
  PROVE  Repeat(c, n) \in Text /\ Len(Repeat(c, n)) = n /\ Repeat(c, 0) = <<>>
<1>1. Repeat(c, n) \in [1..n -> Char]
  BY DEF Repeat
<1>2. Repeat(c, n) \in Seq(Char) /\ Len(Repeat(c, n)) = n
  BY <1>1
<1>3. Repeat(c, 0) = <<>>
  BY DEF Repeat
<1> QED BY <1>2, <1>3 DEF Text

\* What apply_format_spec appends: the value between two runs of the fill
\* character, whose lengths follow from the width and the alignment.
Pads(v, spec, numeric) ==
  \E l, r \in 0..MaxUsize :
    /\ ApplyFormatSpec(v, spec, numeric)
         = Repeat(EffectiveFill(spec), l) \o v \o Repeat(EffectiveFill(spec), r)
    /\ IF Len(v) >= spec.width THEN l + r = 0 ELSE l + Len(v) + r = spec.width
    /\ EffectiveAlign(spec, numeric) = "Left" => l = 0
    /\ EffectiveAlign(spec, numeric) = "Right" => r = 0
    /\ EffectiveAlign(spec, numeric) = "Center" => r - l \in {0, 1}

LEMMA Padding ==
  ASSUME NEW v \in Text, NEW spec \in FormatSpecs, NEW numeric \in BOOLEAN
  PROVE  Pads(v, spec, numeric)
<1> USE DEF Pads
<1>1. PICK fill, align, width : /\ fill = EffectiveFill(spec) /\ align = EffectiveAlign(spec, numeric)
                                /\ width = spec.width
  OBVIOUS
<1>2. /\ spec.fill \in Char /\ spec.align \in {None, "Left", "Right", "Center"}
      /\ width \in Nat /\ width <= MaxUsize /\ MaxUsize \in Nat /\ Len(v) \in Nat
  BY <1>1, WidthAssumption DEF FormatSpecs, Text
<1>3. fill \in Char
  <2>1. "0" \in Char
    BY CharAssumption
  <2> QED BY <1>1, <1>2, <2>1 DEF EffectiveFill
<1>4. align \in {"Left", "Right", "Center"}
  BY <1>1, <1>2 DEF EffectiveAlign
<1>5. CASE width = 0 \/ Len(v) >= width
  <2>1. ApplyFormatSpec(v, spec, numeric) = v
    BY <1>1, <1>5 DEF ApplyFormatSpec, CharCount
  <2>2. Repeat(fill, 0) = <<>>
    BY <1>3, RepeatText
  <2>3. v = <<>> \o v \o <<>>
    BY TextConcat
  <2>4. ApplyFormatSpec(v, spec, numeric) = Repeat(fill, 0) \o v \o Repeat(fill, 0)
    BY <2>1, <2>2, <2>3
  <2>5. Len(v) >= width /\ 0 \in 0..MaxUsize /\ 0 + 0 = 0 /\ 0 - 0 \in {0, 1}
    BY <1>2, <1>5
  <2> QED BY <1>1, <2>4, <2>5
<1>6. CASE ~(width = 0 \/ Len(v) >= width)
  <2>1. PICK padding, left : /\ padding = width - Len(v)
                             /\ left = CASE align = "Left" -> 0 [] align = "Right" -> padding
                                         [] align = "Center" -> padding \div 2
    OBVIOUS
  <2>2. ApplyFormatSpec(v, spec, numeric) = Repeat(fill, left) \o v \o Repeat(fill, padding - left)
    BY <1>1, <1>6, <2>1 DEF ApplyFormatSpec, CharCount
  <2>3. padding \in Nat /\ padding > 0 /\ padding <= MaxUsize /\ Len(v) + padding = width
    BY <1>2, <1>6, <2>1
  <2>4. /\ align = "Left" => left = 0
        /\ align = "Right" => left = padding
        /\ align = "Center" => left = padding \div 2
    BY <2>1
  <2>5. padding \div 2 \in Nat /\ padding \div 2 <= padding
        /\ padding - (padding \div 2) - (padding \div 2) \in {0, 1}
    BY <2>3
  <2>6. left \in Nat /\ left <= padding
    BY <1>4, <2>3, <2>4, <2>5
  <2>7. /\ left \in 0..MaxUsize /\ padding - left \in 0..MaxUsize
        /\ left + Len(v) + (padding - left) = width /\ ~(Len(v) >= width)
    BY <1>2, <1>6, <2>3, <2>6
  <2>8. /\ align = "Right" => padding - left = 0
        /\ align = "Center" => (padding - left) - left \in {0, 1}
    BY <2>3, <2>4, <2>5
  <2> QED BY <1>1, <2>2, <2>4, <2>7, <2>8
<1> QED BY <1>5, <1>6

LEMMA PaddedText ==
  ASSUME NEW v \in Text, NEW spec \in FormatSpecs, NEW numeric \in BOOLEAN
  PROVE  ApplyFormatSpec(v, spec, numeric) \in Text
<1>1. PICK l \in 0..MaxUsize, r \in 0..MaxUsize :
        ApplyFormatSpec(v, spec, numeric)
          = Repeat(EffectiveFill(spec), l) \o v \o Repeat(EffectiveFill(spec), r)
  BY Padding DEF Pads
<1>2. EffectiveFill(spec) \in Char
  <2>1. "0" \in Char
    BY CharAssumption
  <2> QED BY <2>1 DEF EffectiveFill, FormatSpecs
<1>3. Repeat(EffectiveFill(spec), l) \in Text /\ Repeat(EffectiveFill(spec), r) \in Text
  BY <1>2, RepeatText, WidthAssumption
<1> QED BY <1>1, <1>3, TextConcat

LEMMA InitFormat == Init => FormatInv
<1> SUFFICES ASSUME Init PROVE FormatInv
  OBVIOUS
<1>1. pattern \in Text /\ Len(pattern) \in Nat
  BY TextAssumption DEF Init, Text
<1>2. <<>> \in Text /\ <<>> \in Seq(Elements)
  BY DEF Text
<1> QED BY <1>1, <1>2 DEF Init, FormatInv

LEMMA StepFormat ==
  ASSUME FormatInv, [Next]_vars
  PROVE  FormatInv'
<1> USE DEF FormatInv
<1>1. /\ pattern \in Text /\ Len(pattern) \in Nat
      /\ \A p \in Patterns : \A r \in RecordsFor(p) : r \in LogRecords
      /\ Existing \in Text
  BY TextAssumption DEF Text
<1>2. \A t \in Text, c \in Char : Append(t, c) \in Text
  BY DEF Text
<1>3. More("literal") \/ More("token") => Ch \in Char /\ pos + 1 \in 0..Len(pattern)
  BY <1>1 DEF More, Ch, Text
<1>4. <<>> \in Text
  BY DEF Text
<1>5. CASE LiteralChar
  BY <1>2, <1>3, <1>5 DEF LiteralChar, More, formatVars, AtElement, Element
<1>6. CASE OpenBrace
  BY <1>3, <1>4, <1>6 DEF OpenBrace, More, formatVars, AtElement, Element
<1>7. CASE TokenChar
  BY <1>2, <1>3, <1>7 DEF TokenChar, More, formatVars, AtElement, Element
<1>8. CASE CloseBrace
  <2>1. state = "token" /\ pos' \in 0..Len(pattern) /\ UNCHANGED <<pattern, token, record, next, value, out>>
    BY <1>3, <1>8 DEF CloseBrace, More, formatVars
  <2>2. record = None /\ value = None
    BY <2>1 DEF AtElement
  <2>3. elements' \in Seq(Elements) /\ literal' \in Text
    <3>1. CASE UNCHANGED <<elements, literal>>
      BY <3>1
    <3>2. ASSUME NEW kind \in ParseFieldKind(Name(token)), NEW spec \in ParseFormatSpec(SpecText(token)),
                 elements' = Append(Flushed, Field(kind, spec)), literal' = <<>>
          PROVE  elements' \in Seq(Elements) /\ literal' \in Text
      <4>1. kind \in FieldKinds /\ spec \in FormatSpecs
        BY SpecTextIsText, SpecAccepted, NameAccepted
      <4>2. Field(kind, spec) \in Elements /\ Flushed \in Seq(Elements)
        BY <4>1, FieldFacts, FlushedFacts
      <4> QED BY <1>4, <3>2, <4>2
    <3> QED BY <1>8, <3>1, <3>2 DEF CloseBrace
  <2> QED BY <2>1, <2>2, <2>3
<1>9. CASE UnclosedBrace
  BY <1>9 DEF UnclosedBrace, formatVars, AtElement, Element
<1>10. CASE PatternEnds
  <2>1. Flushed \in Seq(Elements)
    BY FlushedFacts
  <2> QED BY <1>4, <1>10, <2>1 DEF PatternEnds, formatVars, AtElement, Element
<1>11. ASSUME NEW r \in RecordsFor(pattern), Format(r) PROVE FormatInv'
  <2>1. r \in LogRecords
    BY <1>1
  <2> QED BY <1>1, <1>11, <2>1 DEF Format, parseVars, AtElement, Element
<1>12. CASE EmitLiteral
  <2>1. AtElement /\ value = None /\ Element \in Elements
    BY <1>12 DEF EmitLiteral, AtElement, Element
  <2>2. Element.text \in Text
    BY <2>1, ElementFacts
  <2>3. out \o Element.text \in Text
    BY <2>2, TextConcat
  <2> QED BY <1>12, <2>1, <2>3 DEF EmitLiteral, parseVars
<1>13. CASE RenderStep
  <2>1. AtElement /\ Element \in Elements /\ record \in LogRecords /\ Element.kind # "Literal"
    BY <1>13 DEF RenderStep, AtElement, Element
  <2>2. value' \in Text
    <3>1. Element.kind \in FieldKinds
      BY <2>1, ElementFacts
    <3>2. RenderField(Element.kind, record) \in Text
      BY <2>1, <3>1, RenderText
    <3> QED BY <1>13, <3>2 DEF RenderStep
  <2>3. UNCHANGED <<pattern, pos, elements, literal, token, state, record, next, out>>
    BY <1>13 DEF RenderStep, parseVars
  <2>4. AtElement' /\ Element' = Element
    BY <2>1, <2>3 DEF AtElement, Element
  <2> QED BY <2>1, <2>2, <2>3, <2>4
<1>14. CASE PadStep
  <2>1. AtElement /\ Element \in Elements /\ Element.kind # "Literal" /\ value \in Text
    BY <1>14 DEF PadStep, AtElement, Element
  <2>2. Element.spec \in FormatSpecs
    BY <2>1, ElementFacts
  <2>3. IsNumeric(Element.kind) \in BOOLEAN
    BY DEF IsNumeric
  <2>4. ApplyFormatSpec(value, Element.spec, IsNumeric(Element.kind)) \in Text
    BY <2>1, <2>2, <2>3, PaddedText
  <2>5. out' \in Text
    <3>1. out \o ApplyFormatSpec(value, Element.spec, IsNumeric(Element.kind)) \in Text
      BY <2>4, TextConcat
    <3> QED BY <1>14, <3>1 DEF PadStep
  <2> QED BY <1>14, <2>5 DEF PadStep, parseVars
<1>15. CASE FormatEnds
  <2>1. value = None
    BY <1>15 DEF FormatEnds, AtElement
  <2> QED BY <1>4, <1>15, <2>1 DEF FormatEnds, parseVars
<1>16. CASE UNCHANGED vars
  BY <1>16 DEF vars, AtElement, Element
<1> QED
  BY <1>5, <1>6, <1>7, <1>8, <1>9, <1>10, <1>11, <1>12, <1>13, <1>14, <1>15, <1>16 DEF Next, Parse

LEMMA FormatInductive == Spec => []FormatInv
<1>1. Init => FormatInv
  BY InitFormat
<1>2. FormatInv /\ [Next]_vars => FormatInv'
  BY StepFormat
<1> QED BY <1>1, <1>2, PTL DEF Spec

-----------------------------------------------------------------------------
(* The messages                                                            *)

LEMMA StepMessage ==
  ASSUME FormatInv, FormatInv', MessagePositional, [Next]_vars
  PROVE  MessagePositional'
<1> SUFFICES ASSUME value' # None, Element'.kind = "message"
             PROVE  value' = ReferenceMessage(record'.fmt, record'.args)
  BY DEF MessagePositional
<1>1. CASE RenderStep
  <2>1. /\ AtElement /\ record' = record /\ Element' = Element
        /\ value' = RenderField(Element.kind, record)
    BY <1>1 DEF RenderStep, parseVars, Element
  <2>2. record \in LogRecords
    BY <2>1 DEF FormatInv, AtElement
  <2>3. record.fmt \in Text /\ record.args \in Seq(Text)
    BY <2>2 DEF LogRecords
  <2>4. value' = FormatMessage(record.fmt, record.args)
    BY <2>1 DEF RenderField
  <2> QED BY <2>1, <2>3, <2>4, MessageIsReference
<1>2. CASE ~RenderStep
  <2>1. value = value' /\ value # None
    BY <1>2 DEF Next, Parse, LiteralChar, OpenBrace, TokenChar, CloseBrace, UnclosedBrace, PatternEnds,
           Format, EmitLiteral, PadStep, FormatEnds, formatVars, vars
  <2>2. AtElement /\ Element.kind # "Literal" /\ state = "ready"
    BY <2>1 DEF FormatInv, AtElement
  <2>3. UNCHANGED <<elements, record, next>>
    BY <1>2, <2>1, <2>2 DEF Next, Parse, LiteralChar, OpenBrace, TokenChar, CloseBrace, UnclosedBrace,
           PatternEnds, More, Format, EmitLiteral, PadStep, FormatEnds, AtElement, parseVars, vars, FormatInv
  <2>4. Element' = Element
    BY <2>3 DEF Element
  <2> QED BY <2>1, <2>3, <2>4 DEF MessagePositional
<1> QED BY <1>1, <1>2

\* Every message a formatter renders is the positional reading of the record's
\* format string (format_message), for every format string and arguments.
THEOREM MessagesPositional == Spec => []MessagePositional
<1>1. Init => MessagePositional
  BY DEF Init, MessagePositional
<1>2. FormatInv /\ FormatInv' /\ MessagePositional /\ [Next]_vars => MessagePositional'
  BY StepMessage
<1> QED BY <1>1, <1>2, FormatInductive, PTL DEF Spec

-----------------------------------------------------------------------------
(* The padding                                                             *)

LEMMA StepPads ==
  ASSUME FormatInv, Next
  PROVE  PadsField
<1> SUFFICES ASSUME value # None, value' = None PROVE PadsField
  BY DEF PadsField
<1>1. PadStep
  BY DEF Next, Parse, LiteralChar, OpenBrace, TokenChar, CloseBrace, UnclosedBrace, PatternEnds,
         Format, EmitLiteral, RenderStep, FormatEnds, formatVars
<1>2. AtElement /\ Element \in Elements /\ Element.kind # "Literal" /\ value \in Text /\ out \in Text
  BY <1>1 DEF PadStep, AtElement, Element, FormatInv
<1>3. PICK spec, numeric, fill : /\ spec = Element.spec /\ numeric = IsNumeric(Element.kind)
                                 /\ fill = EffectiveFill(spec)
  OBVIOUS
<1>4. spec \in FormatSpecs /\ numeric \in BOOLEAN
  BY <1>2, <1>3, ElementFacts DEF IsNumeric
<1>5. fill \in Char
  <2>1. "0" \in Char
    BY CharAssumption
  <2> QED BY <1>3, <1>4, <2>1 DEF EffectiveFill, FormatSpecs
<1>6. PICK l \in 0..MaxUsize, r \in 0..MaxUsize :
        /\ ApplyFormatSpec(value, spec, numeric) = Repeat(fill, l) \o value \o Repeat(fill, r)
        /\ IF Len(value) >= spec.width THEN l + r = 0 ELSE l + Len(value) + r = spec.width
        /\ EffectiveAlign(spec, numeric) = "Left" => l = 0
        /\ EffectiveAlign(spec, numeric) = "Right" => r = 0
        /\ EffectiveAlign(spec, numeric) = "Center" => r - l \in {0, 1}
  <2>1. Pads(value, spec, numeric)
    BY <1>2, <1>4, Padding
  <2> QED BY <1>3, <2>1 DEF Pads
<1>7. out' = out \o Repeat(fill, l) \o value \o Repeat(fill, r)
  <2>1. PICK a, b : a = Repeat(fill, l) /\ b = Repeat(fill, r)
    OBVIOUS
  <2>2. a \in Text /\ b \in Text
    BY <1>5, <2>1, RepeatText, WidthAssumption
  <2>3. a \o value \in Text
    BY <1>2, <2>2, TextConcat
  <2>4. out \o ((a \o value) \o b) = (out \o (a \o value)) \o b
    BY <1>2, <2>2, <2>3, TextAssociative, SMTT(30)
  <2>5. out \o (a \o value) = (out \o a) \o value
    BY <1>2, <2>2, TextAssociative
  <2>6. out' = out \o ((a \o value) \o b)
    BY <1>1, <1>3, <1>6, <2>1 DEF PadStep
  <2> QED BY <2>1, <2>4, <2>5, <2>6
<1>8. LET align == IF spec.zero_pad THEN "Right" ELSE spec.align IN
      /\ align = "Left" => l = 0
      /\ align = "Right" => r = 0
      /\ align = "Center" => r - l \in {0, 1}
      /\ align = None => IF numeric THEN r = 0 ELSE l = 0
  BY <1>4, <1>6, NoneAssumption DEF EffectiveAlign
<1>9. numeric <=> Element.kind \in {"secs", "millis", "line"}
  BY <1>3 DEF IsNumeric
<1> QED BY <1>3, <1>6, <1>7, <1>8, <1>9 DEF PadsField

\* Emitting a field (apply_format_spec) never truncates its value, reaches the width
\* with fill characters only, on the side the spec says: for every spec and value.
THEOREM FieldsPadAround == Spec => PadsAround
<1>1. FormatInv /\ [Next]_vars => [PadsField]_vars
  BY StepPads
<1> QED BY <1>1, FormatInductive, PTL DEF Spec, PadsAround

-----------------------------------------------------------------------------
(* The placeholders                                                        *)

\* The first conjunct of PlaceholdersFollowGrammar, of one element.
Derived(e) ==
  e.kind # "Literal" =>
    e.text[1] = e.kind /\ e.spec.width <= MaxUsize /\ FollowsGrammar(SpecText(e.text), e.spec)
GrammarInv ==
  /\ \A i \in DOMAIN elements : Derived(elements[i])
  /\ state = "UnknownField" =>
       ~\E f \in FieldKinds : token = <<f>> \/ (Len(token) > 1 /\ token[1] = f /\ token[2] = ":")
  /\ state = "InvalidFormatSpec" => ~\E p \in 0..2, z \in 0..1 : Derives(SpecText(token), p, z)

LEMMA GrammarInvImplies == GrammarInv => PlaceholdersFollowGrammar
BY DEF GrammarInv, Derived, FollowsGrammar, PlaceholdersFollowGrammar

LEMMA DerivedAppend ==
  ASSUME NEW es \in Seq(Elements), NEW e \in Elements,
         \A i \in DOMAIN es : Derived(es[i]), Derived(e)
  PROVE  /\ Append(es, e) \in Seq(Elements)
         /\ \A i \in DOMAIN Append(es, e) : Derived(Append(es, e)[i])
<1>1. PICK more : more = Append(es, e)
  OBVIOUS
<1>2. more \in Seq(Elements) /\ DOMAIN more = 1..(Len(es) + 1) /\ Len(es) \in Nat
  BY <1>1
<1>3. \A i \in 1..Len(es) : more[i] = es[i]
  BY <1>1
<1>4. more[Len(es) + 1] = e
  BY <1>1
<1>5. \A i \in DOMAIN more : i \in DOMAIN es \/ i = Len(es) + 1
  BY <1>2
<1>6. \A i \in DOMAIN more : Derived(more[i])
  <2> TAKE i \in DOMAIN more
  <2>1. CASE i \in DOMAIN es
    <3>1. more[i] = es[i]
      BY <1>3, <2>1
    <3> QED BY <2>1, <3>1
  <2>2. CASE i = Len(es) + 1
    BY <1>4, <2>2
  <2> QED BY <1>5, <2>1, <2>2
<1> QED BY <1>1, <1>2, <1>6

\* Collected text put in front of a placeholder is a literal.
LEMMA DerivedFlushed ==
  ASSUME elements \in Seq(Elements), literal \in Text, \A i \in DOMAIN elements : Derived(elements[i])
  PROVE  Flushed \in Seq(Elements) /\ \A i \in DOMAIN Flushed : Derived(Flushed[i])
<1>1. CASE literal = <<>>
  BY <1>1 DEF Flushed
<1>2. CASE literal # <<>>
  <2>1. Literal(literal) \in Elements /\ Derived(Literal(literal))
    BY ElementFacts DEF Derived
  <2> QED BY <1>2, <2>1, DerivedAppend DEF Flushed
<1> QED BY <1>1, <1>2

LEMMA StepGrammar ==
  ASSUME FormatInv, GrammarInv, [Next]_vars
  PROVE  GrammarInv'
<1>1. token \in Text /\ literal \in Text /\ elements \in Seq(Elements)
  BY DEF FormatInv
<1>2. \A i \in DOMAIN elements : Derived(elements[i])
  BY DEF GrammarInv
<1>3. CASE UNCHANGED <<elements, token, state>>
  BY <1>3 DEF GrammarInv
<1>4. CASE OpenBrace \/ TokenChar \/ UnclosedBrace
  <2>1. elements' = elements /\ state' \notin {"UnknownField", "InvalidFormatSpec"}
    BY <1>4 DEF OpenBrace, TokenChar, UnclosedBrace, More
  <2> QED BY <1>2, <2>1 DEF GrammarInv
<1>5. CASE PatternEnds
  <2>1. elements' = Flushed /\ state' = "ready"
    BY <1>5 DEF PatternEnds
  <2>2. \A i \in DOMAIN elements' : Derived(elements'[i])
    BY <1>1, <1>2, <2>1, DerivedFlushed
  <2> QED BY <2>1, <2>2 DEF GrammarInv
<1>6. CASE CloseBrace
  <2>0. token' = token
    BY <1>6 DEF CloseBrace
  <2>1. CASE /\ ParseFieldKind(Name(token)) = {} /\ state' = "UnknownField"
             /\ UNCHANGED <<elements, literal>>
    <3>1. ~\E f \in FieldKinds : token = <<f>> \/ (Len(token) > 1 /\ token[1] = f /\ token[2] = ":")
      BY <1>1, <2>1, NameRefused
    <3> QED BY <1>2, <2>0, <2>1, <3>1 DEF GrammarInv
  <2>2. CASE /\ ParseFormatSpec(SpecText(token)) = {} /\ state' = "InvalidFormatSpec"
             /\ UNCHANGED <<elements, literal>>
    <3>1. ~\E p \in 0..2, z \in 0..1 : Derives(SpecText(token), p, z)
      BY <1>1, <2>2, SpecTextIsText, SpecRefused
    <3> QED BY <1>2, <2>0, <2>2, <3>1 DEF GrammarInv
  <2>3. ASSUME NEW kind \in ParseFieldKind(Name(token)), NEW spec \in ParseFormatSpec(SpecText(token)),
               elements' = Append(Flushed, Field(kind, spec)), state' = "literal"
        PROVE  GrammarInv'
    <3>1. /\ kind \in FieldKinds /\ token[1] = kind
          /\ FollowsGrammar(SpecText(token), spec) /\ spec \in FormatSpecs
      BY <1>1, SpecTextIsText, SpecAccepted, NameAccepted
    <3>2. spec.width <= MaxUsize
      BY <3>1, WidthAssumption DEF FormatSpecs
    <3>3. PICK e : e = Field(kind, spec)
      OBVIOUS
    <3>4. e \in Elements /\ e.kind = kind /\ e.text = token /\ e.spec = spec
      BY <1>1, <3>1, <3>3, FieldFacts
    <3>5. Derived(e)
      BY <3>1, <3>2, <3>4 DEF Derived
    <3>6. Flushed \in Seq(Elements) /\ \A i \in DOMAIN Flushed : Derived(Flushed[i])
      BY <1>1, <1>2, DerivedFlushed
    <3>7. \A i \in DOMAIN elements' : Derived(elements'[i])
      BY <2>3, <3>3, <3>4, <3>5, <3>6, DerivedAppend
    <3> QED BY <2>3, <3>7 DEF GrammarInv
  <2> QED BY <1>6, <2>1, <2>2, <2>3 DEF CloseBrace
<1>7. LiteralChar \/ (\E r \in RecordsFor(pattern) : Format(r)) \/ EmitLiteral \/ RenderStep \/ PadStep
        \/ FormatEnds \/ UNCHANGED vars => UNCHANGED <<elements, token, state>>
  BY DEF LiteralChar, Format, EmitLiteral, RenderStep, PadStep, FormatEnds, parseVars, vars
<1> QED BY <1>3, <1>4, <1>5, <1>6, <1>7 DEF Next, Parse

\* The parser of placeholders accepts exactly what its grammar derives (the
\* documented one, and zeros and numbers behind a plus sign as widths),
\* with the values of the derivation (parse_format_spec, parse_field_kind, and new's
\* split at the first colon), for every pattern.
THEOREM PlaceholdersAreGrammatical == Spec => []PlaceholdersFollowGrammar
<1>1. Init => GrammarInv
  <2>1. DOMAIN <<>> = {}
    OBVIOUS
  <2> QED BY <2>1 DEF Init, GrammarInv
<1>2. FormatInv /\ GrammarInv /\ [Next]_vars => GrammarInv'
  BY StepGrammar
<1> QED BY <1>1, <1>2, GrammarInvImplies, FormatInductive, PTL DEF Spec

-----------------------------------------------------------------------------
(* The elements spell the pattern                                          *)

Spelled(es) == [i \in DOMAIN es |-> Spelling(es[i])]
Flat(es) == FlattenSeq(Spelled(es))
\* The third conjunct of Lossless.
Tidy(es) ==
  \A i \in DOMAIN es : es[i].kind = "Literal" => es[i].text # <<>> /\ (i > 1 => es[i - 1].kind # "Literal")
EndsInField(es) == es = <<>> \/ es[Len(es)].kind # "Literal"

LEMMA BraceTexts == <<"{">> \in Text /\ <<"}">> \in Text
<1>1. "{" \in Char /\ "}" \in Char
  BY CharAssumption
<1>2. \A c \in Char : <<c>> \in Text
  BY DEF Text
<1> QED BY <1>1, <1>2

LEMMA SpellingText == \A e \in Elements : Spelling(e) \in Text
<1> TAKE e \in Elements
<1>1. e.text \in Text
  BY ElementFacts
<1>2. <<"{">> \o e.text \in Text
  BY <1>1, BraceTexts, TextConcat
<1>3. (<<"{">> \o e.text) \o <<"}">> \in Text
  BY <1>2, BraceTexts, TextConcat
<1> QED BY <1>1, <1>3 DEF Spelling

LEMMA FlatText ==
  ASSUME NEW es \in Seq(Elements)
  PROVE  Spelled(es) \in Seq(Text) /\ Flat(es) \in Text
<1>1. \A i \in 1..Len(es) : Spelling(es[i]) \in Text
  BY SpellingText
<1>2. Spelled(es) \in Seq(Text)
  <2>1. DOMAIN es = 1..Len(es) /\ Len(es) \in Nat
    OBVIOUS
  <2>2. Spelled(es) \in [1..Len(es) -> Text]
    BY <1>1, <2>1 DEF Spelled
  <2> QED BY <2>1, <2>2
<1> QED BY <1>2, FlattenText DEF Flat

LEMMA FlatAppend ==
  ASSUME NEW es \in Seq(Elements), NEW e \in Elements
  PROVE  Flat(Append(es, e)) = Flat(es) \o Spelling(e)
<1>1. PICK more, n, t, parts, longer :
        /\ more = Append(es, e) /\ n = Len(es) /\ t = Spelling(e)
        /\ parts = Spelled(es) /\ longer = Spelled(more)
  OBVIOUS
<1>2. /\ n \in Nat /\ more \in Seq(Elements) /\ Len(more) = n + 1 /\ DOMAIN more = 1..(n + 1)
      /\ DOMAIN es = 1..n /\ more[n + 1] = e
  BY <1>1
<1>3. \A i \in 1..n : more[i] = es[i]
  BY <1>1
<1>4. parts \in Seq(Text) /\ longer \in Seq(Text) /\ t \in Text
  BY <1>1, <1>2, FlatText, SpellingText
<1>5. DOMAIN longer = 1..(n + 1) /\ longer[n + 1] = t
  BY <1>1, <1>2 DEF Spelled
<1>6. DOMAIN parts = 1..n /\ \A i \in 1..n : longer[i] = parts[i]
  BY <1>1, <1>2, <1>3 DEF Spelled
<1>7. Len(parts) = n /\ Len(longer) = n + 1
  BY <1>2, <1>4, <1>5, <1>6
<1>8. longer = Append(parts, t)
  <2>1. PICK other : other = Append(parts, t)
    OBVIOUS
  <2>2. /\ other \in Seq(Text) /\ Len(other) = n + 1 /\ other[n + 1] = t
        /\ \A i \in 1..n : other[i] = parts[i]
    BY <1>4, <1>7, <2>1
  <2>3. \A i \in 1..(n + 1) : other[i] = longer[i]
    BY <1>2, <1>5, <1>6, <2>2
  <2>4. other = longer
    BY <1>4, <1>7, <2>2, <2>3, SeqEqual
  <2> QED BY <2>1, <2>4
<1>9. FlattenSeq(longer) = FlattenSeq(parts) \o t
  BY <1>4, <1>8, FlattenAppend
<1> QED BY <1>1, <1>9 DEF Flat

LEMMA TidyAppend ==
  ASSUME NEW es \in Seq(Elements), NEW e \in Elements, Tidy(es),
         e.kind = "Literal" => e.text # <<>> /\ EndsInField(es)
  PROVE  Tidy(Append(es, e))
<1>1. PICK more, n : more = Append(es, e) /\ n = Len(es)
  OBVIOUS
<1>2. /\ n \in Nat /\ DOMAIN more = 1..(n + 1) /\ DOMAIN es = 1..n /\ more[n + 1] = e
  BY <1>1
<1>3. \A i \in 1..n : more[i] = es[i]
  BY <1>1
<1>4. SUFFICES ASSUME NEW i \in DOMAIN more, more[i].kind = "Literal"
               PROVE  more[i].text # <<>> /\ (i > 1 => more[i - 1].kind # "Literal")
  BY <1>1 DEF Tidy
<1>5. CASE i \in 1..n
  <2>1. es[i].text # <<>> /\ (i > 1 => es[i - 1].kind # "Literal") /\ more[i] = es[i]
    BY <1>2, <1>3, <1>4, <1>5 DEF Tidy
  <2>2. i > 1 => i - 1 \in 1..n
    BY <1>2, <1>5
  <2> QED BY <1>3, <2>1, <2>2
<1>6. CASE i = n + 1
  <2>1. e.text # <<>> /\ EndsInField(es)
    BY <1>2, <1>4, <1>6
  <2>2. ASSUME i > 1 PROVE more[i - 1].kind # "Literal"
    <3>1. n \in 1..n /\ i - 1 = n
      BY <1>2, <1>6, <2>2
    <3>2. more[i - 1] = es[n]
      BY <1>3, <3>1
    <3>3. es # <<>>
      BY <1>1, <3>1
    <3> QED BY <1>1, <2>1, <3>2, <3>3 DEF EndsInField
  <2> QED BY <1>2, <1>6, <2>1, <2>2
<1> QED BY <1>2, <1>5, <1>6

\* Writing collected text in front of a placeholder moves it from the literal being
\* collected to the elements, and leaves what the parser holds as it was.
LEMMA FlushKeeps ==
  ASSUME elements \in Seq(Elements), literal \in Text, Tidy(elements), EndsInField(elements)
  PROVE  /\ Flushed \in Seq(Elements) /\ Tidy(Flushed)
         /\ Held = Flat(elements) \o literal /\ Held \in Text /\ Flat(Flushed) = Held
<1>1. Flat(elements) \in Text
  BY FlatText
<1>2. Held = Flat(elements) \o literal
  BY DEF Held, Flat, Spelled
<1>3. Held \in Text
  BY <1>1, <1>2, TextConcat
<1>4. CASE literal = <<>>
  <2>1. Flat(elements) \o <<>> = Flat(elements)
    BY <1>1, TextConcat
  <2> QED BY <1>2, <1>3, <1>4, <2>1 DEF Flushed
<1>5. CASE literal # <<>>
  <2>1. PICK e : e = Literal(literal)
    OBVIOUS
  <2>2. e \in Elements /\ e.kind = "Literal" /\ e.text = literal
    BY <2>1, ElementFacts
  <2>3. Flushed = Append(elements, e) /\ Spelling(e) = literal
    BY <1>5, <2>1, <2>2 DEF Flushed, Spelling
  <2>4. Flat(Flushed) = Flat(elements) \o literal
    BY <2>2, <2>3, FlatAppend
  <2>5. Tidy(Flushed)
    BY <1>5, <2>2, <2>3, TidyAppend
  <2>6. Flushed \in Seq(Elements)
    BY FlushedFacts
  <2> QED BY <1>2, <1>3, <2>4, <2>5, <2>6
<1> QED BY <1>4, <1>5

\* Consuming one more character.
LEMMA PrefixGrows ==
  ASSUME NEW p \in Text, NEW i \in Nat, i < Len(p)
  PROVE  /\ SubSeq(p, 1, i) \in Text /\ p[i + 1] \in Char
         /\ SubSeq(p, 1, i + 1) = Append(SubSeq(p, 1, i), p[i + 1])
<1>1. PICK a, b, c, d : /\ a = SubSeq(p, 1, i) /\ b = SubSeq(p, 1, i + 1) /\ c = p[i + 1]
                        /\ d = Append(a, c)
  OBVIOUS
<1>2. /\ Len(p) \in Nat /\ c \in Char /\ a \in Text /\ b \in Text /\ Len(a) = i /\ Len(b) = i + 1
      /\ (\A j \in 1..i : a[j] = p[j]) /\ (\A j \in 1..(i + 1) : b[j] = p[j])
  BY <1>1 DEF Text
<1>3. d \in Text /\ Len(d) = i + 1 /\ d[i + 1] = c /\ \A j \in 1..i : d[j] = a[j]
  BY <1>1, <1>2 DEF Text
<1>4. \A j \in 1..(i + 1) : b[j] = d[j]
  BY <1>1, <1>2, <1>3
<1>5. b = d
  BY <1>2, <1>3, <1>4, SeqEqual DEF Text
<1> QED BY <1>1, <1>2, <1>5

LEMMA AppendConcat ==
  ASSUME NEW a \in Text, NEW b \in Text, NEW c \in Char
  PROVE  a \o Append(b, c) = Append(a \o b, c) /\ a \o <<c>> = Append(a, c)
<1>1. \A t \in Text : Append(t, c) = t \o <<c>>
  BY AppendIsConcat DEF Text
<1>2. <<c>> \in Text
  BY DEF Text
<1>3. a \o b \in Text
  BY TextConcat
<1>4. a \o (b \o <<c>>) = (a \o b) \o <<c>>
  BY <1>2, TextAssociative
<1>5. Append(b, c) = b \o <<c>> /\ Append(a \o b, c) = (a \o b) \o <<c>> /\ Append(a, c) = a \o <<c>>
  BY <1>1, <1>3
<1> QED BY <1>4, <1>5

SpellInv ==
  /\ state \in {"literal", "ready"} => Held = SubSeq(pattern, 1, pos)
  /\ state \in {"token", "UnclosedBrace"} => Held \o <<"{">> \o token = SubSeq(pattern, 1, pos)
  /\ Tidy(elements)
  /\ state \in {"literal", "token"} => EndsInField(elements)

LEMMA SpellInvImplies == SpellInv => Lossless
BY DEF SpellInv, Lossless, Tidy

\* What holds before a step that consumes a character.
LEMMA Consumes ==
  ASSUME FormatInv, SpellInv, More("literal") \/ More("token")
  PROVE  /\ pattern \in Text /\ pos \in Nat /\ Ch \in Char
         /\ SubSeq(pattern, 1, pos) \in Text
         /\ SubSeq(pattern, 1, pos + 1) = Append(SubSeq(pattern, 1, pos), Ch)
         /\ elements \in Seq(Elements) /\ literal \in Text /\ token \in Text
         /\ Flat(elements) \in Text /\ Held = Flat(elements) \o literal /\ Held \in Text
         /\ Flushed \in Seq(Elements) /\ Tidy(Flushed) /\ Flat(Flushed) = Held
         /\ Tidy(elements) /\ EndsInField(elements)
<1>1. /\ elements \in Seq(Elements) /\ literal \in Text /\ token \in Text /\ Tidy(elements)
      /\ EndsInField(elements)
  BY DEF FormatInv, SpellInv, More
<1>2. pattern \in Text
  BY TextAssumption DEF FormatInv
<1>3. Len(pattern) \in Nat
  BY <1>2 DEF Text
<1>4. pos \in Nat /\ pos < Len(pattern)
  BY <1>3 DEF FormatInv, More
<1>5. /\ Ch \in Char /\ SubSeq(pattern, 1, pos) \in Text
      /\ SubSeq(pattern, 1, pos + 1) = Append(SubSeq(pattern, 1, pos), Ch)
  BY <1>2, <1>4, PrefixGrows DEF Ch
<1>6. Flat(elements) \in Text
  BY <1>1, FlatText
<1>7. /\ Held = Flat(elements) \o literal /\ Held \in Text
      /\ Flushed \in Seq(Elements) /\ Tidy(Flushed) /\ Flat(Flushed) = Held
  BY <1>1, FlushKeeps
<1> QED BY <1>1, <1>2, <1>4, <1>5, <1>6, <1>7

LEMMA StepSpell ==
  ASSUME FormatInv, FormatInv', SpellInv, [Next]_vars
  PROVE  SpellInv'
<1>1. Held' = Flat(elements') \o literal'
  BY DEF Held, Flat, Spelled
<1>2. CASE LiteralChar
  <2>1. /\ More("literal") /\ elements' = elements /\ literal' = Append(literal, Ch)
        /\ pos' = pos + 1 /\ pattern' = pattern /\ state' = state /\ state = "literal"
    BY <1>2 DEF LiteralChar, More
  <2>2. PICK c : c = Ch
    OBVIOUS
  <2>3. Flat(elements) \o Append(literal, c) = Append(Held, c)
    <3>1. Flat(elements) \in Text /\ literal \in Text /\ c \in Char /\ Held = Flat(elements) \o literal
      BY <2>1, <2>2, Consumes
    <3> QED BY <3>1, AppendConcat
  <2>4. Held' = Append(Held, c)
    BY <1>1, <2>1, <2>2, <2>3
  <2>5. Held = SubSeq(pattern, 1, pos)
    BY <2>1 DEF SpellInv
  <2>6. SubSeq(pattern, 1, pos + 1) = Append(SubSeq(pattern, 1, pos), c)
    BY <2>1, <2>2, Consumes
  <2>7. Held' = SubSeq(pattern', 1, pos')
    BY <2>1, <2>4, <2>5, <2>6
  <2>8. Tidy(elements) /\ EndsInField(elements)
    BY <2>1, Consumes
  <2> QED BY <2>1, <2>7, <2>8 DEF SpellInv
<1>3. CASE OpenBrace
  <2>1. /\ More("literal") /\ elements' = elements /\ literal' = literal /\ token' = <<>>
        /\ pos' = pos + 1 /\ pattern' = pattern /\ state' = "token" /\ state = "literal" /\ Ch = "{"
    BY <1>3 DEF OpenBrace, More
  <2>2. PICK h : h = Held
    OBVIOUS
  <2>3. h \in Text /\ Held' = h
    BY <1>1, <2>1, <2>2, Consumes
  <2>4. h = SubSeq(pattern, 1, pos)
    BY <2>1, <2>2 DEF SpellInv
  <2>5. "{" \in Char
    BY CharAssumption
  <2>6. h \o <<"{">> = Append(h, "{")
    BY <2>3, <2>5, AppendConcat
  <2>7. h \o <<"{">> \in Text
    BY <2>3, BraceTexts, TextConcat
  <2>8. h \o <<"{">> \o <<>> = h \o <<"{">>
    BY <2>7, TextConcat
  <2>9. SubSeq(pattern, 1, pos + 1) = Append(SubSeq(pattern, 1, pos), "{")
    BY <2>1, Consumes
  <2>10. Held' \o <<"{">> \o token' = SubSeq(pattern', 1, pos')
    BY <2>1, <2>3, <2>4, <2>6, <2>8, <2>9
  <2>11. Tidy(elements) /\ EndsInField(elements)
    BY <2>1, Consumes
  <2> QED BY <2>1, <2>10, <2>11 DEF SpellInv
<1>4. CASE TokenChar
  <2>1. /\ More("token") /\ elements' = elements /\ literal' = literal /\ token' = Append(token, Ch)
        /\ pos' = pos + 1 /\ pattern' = pattern /\ state' = "token" /\ state = "token"
    BY <1>4 DEF TokenChar, More
  <2>2. PICK h, c : h = Held \o <<"{">> /\ c = Ch
    OBVIOUS
  <2>3. Held \in Text /\ Held' = Held /\ c \in Char /\ token \in Text
    BY <1>1, <2>1, <2>2, Consumes
  <2>4. h \in Text
    BY <2>2, <2>3, BraceTexts, TextConcat
  <2>5. h \o Append(token, c) = Append(h \o token, c)
    BY <2>3, <2>4, AppendConcat
  <2>6. h \o token = SubSeq(pattern, 1, pos)
    BY <2>1, <2>2 DEF SpellInv
  <2>7. SubSeq(pattern, 1, pos + 1) = Append(SubSeq(pattern, 1, pos), c)
    BY <2>1, <2>2, Consumes
  <2>8. Held' \o <<"{">> \o token' = SubSeq(pattern', 1, pos')
    BY <2>1, <2>2, <2>3, <2>5, <2>6, <2>7
  <2>9. Tidy(elements) /\ EndsInField(elements)
    BY <2>1, Consumes
  <2> QED BY <2>1, <2>8, <2>9 DEF SpellInv
<1>5. CASE CloseBrace
  <2>1. /\ More("token") /\ Ch = "}" /\ pos' = pos + 1 /\ pattern' = pattern /\ token' = token
        /\ state = "token"
    BY <1>5 DEF CloseBrace, More
  <2>2. Tidy(elements) /\ token \in Text
    BY <2>1, Consumes
  <2>3. CASE elements' = elements /\ state' \in {"UnknownField", "InvalidFormatSpec"}
    BY <2>2, <2>3 DEF SpellInv
  <2>4. ASSUME NEW kind \in ParseFieldKind(Name(token)), NEW spec \in ParseFormatSpec(SpecText(token)),
               elements' = Append(Flushed, Field(kind, spec)), literal' = <<>>, state' = "literal"
        PROVE  SpellInv'
    <3>1. PICK e, es, h, opened : /\ e = Field(kind, spec) /\ es = Flushed /\ h = Held
                                  /\ opened = h \o <<"{">>
      OBVIOUS
    <3>2. e \in Elements /\ e.kind \in FieldKinds /\ e.kind # "Literal" /\ e.text = token
      <4>1. kind \in FieldKinds /\ spec \in FormatSpecs
        BY <2>2, SpecTextIsText, SpecAccepted, NameAccepted
      <4> QED BY <2>2, <3>1, <4>1, FieldFacts, ElementFacts
    <3>3. es \in Seq(Elements) /\ Tidy(es) /\ Flat(es) = h /\ h \in Text
      BY <2>1, <3>1, Consumes
    <3>4. Tidy(Append(es, e))
      BY <3>2, <3>3, TidyAppend
    <3>5. EndsInField(Append(es, e))
      <4>1. PICK more : more = Append(es, e)
        OBVIOUS
      <4>2. more[Len(more)] = e
        BY <3>2, <3>3, <4>1
      <4> QED BY <3>2, <4>1, <4>2 DEF EndsInField
    <3>6. Spelling(e) = <<"{">> \o token \o <<"}">>
      BY <3>2 DEF Spelling
    <3>7. Flat(Append(es, e)) = h \o (<<"{">> \o token \o <<"}">>)
      BY <3>2, <3>3, <3>6, FlatAppend
    <3>8. h \o ((<<"{">> \o token) \o <<"}">>) = (opened \o token) \o <<"}">>
      <4>1. PICK lb, rb : lb = <<"{">> /\ rb = <<"}">>
        OBVIOUS
      <4>2. lb \in Text /\ rb \in Text
        BY <4>1, BraceTexts
      <4>3. lb \o token \in Text
        BY <2>2, <4>2, TextConcat
      <4>4. h \o ((lb \o token) \o rb) = (h \o (lb \o token)) \o rb
        BY <3>3, <4>2, <4>3, TextAssociative, SMTT(30)
      <4>5. h \o (lb \o token) = (h \o lb) \o token
        BY <2>2, <3>3, <4>2, TextAssociative
      <4> QED BY <3>1, <4>1, <4>4, <4>5
    <3>9. opened \o token = SubSeq(pattern, 1, pos)
      BY <2>1, <3>1 DEF SpellInv
    <3>10. SubSeq(pattern, 1, pos) \in Text /\ SubSeq(pattern, 1, pos + 1) = Append(SubSeq(pattern, 1, pos), "}")
      BY <2>1, Consumes
    <3>11. "}" \in Char
      BY CharAssumption
    <3>12. SubSeq(pattern, 1, pos) \o <<"}">> = Append(SubSeq(pattern, 1, pos), "}")
      BY <3>10, <3>11, AppendConcat
    <3>13. Flat(elements') = SubSeq(pattern, 1, pos + 1)
      BY <2>4, <3>1, <3>7, <3>8, <3>9, <3>10, <3>12
    <3>14. Flat(elements') \in Text
      BY FlatText DEF FormatInv
    <3>15. Held' = Flat(elements')
      <4>1. Flat(elements') \o <<>> = Flat(elements')
        BY <3>14, TextConcat
      <4> QED BY <1>1, <2>4, <4>1
    <3>16. Held' = SubSeq(pattern', 1, pos')
      BY <2>1, <3>13, <3>15
    <3>17. Tidy(elements') /\ EndsInField(elements')
      BY <2>4, <3>1, <3>4, <3>5
    <3> QED BY <2>4, <3>16, <3>17 DEF SpellInv
  <2> QED BY <1>5, <2>3, <2>4 DEF CloseBrace
<1>6. CASE UnclosedBrace
  <2>1. /\ UNCHANGED <<pattern, pos, elements, literal, token>>
        /\ state = "token" /\ state' = "UnclosedBrace"
    BY <1>6 DEF UnclosedBrace
  <2>2. Held' = Held
    BY <2>1 DEF Held
  <2> QED BY <2>1, <2>2 DEF SpellInv
<1>7. CASE PatternEnds
  <2>1. /\ elements' = Flushed /\ literal' = <<>> /\ UNCHANGED <<pattern, pos, token>>
        /\ state = "literal" /\ state' = "ready"
    BY <1>7 DEF PatternEnds
  <2>2. /\ elements \in Seq(Elements) /\ literal \in Text /\ Tidy(elements) /\ EndsInField(elements)
        /\ Held = SubSeq(pattern, 1, pos)
    BY <2>1 DEF FormatInv, SpellInv
  <2>3. Tidy(Flushed) /\ Flat(Flushed) = Held /\ Held \in Text
    BY <2>2, FlushKeeps
  <2>4. Held \o <<>> = Held
    BY <2>3, TextConcat
  <2>5. Held' = Held
    BY <1>1, <2>1, <2>3, <2>4
  <2> QED BY <2>1, <2>2, <2>3, <2>5 DEF SpellInv
<1>8. CASE UNCHANGED parseVars
  <2>1. UNCHANGED <<pattern, pos, elements, literal, token, state>>
    BY <1>8 DEF parseVars
  <2>2. Held' = Held
    BY <2>1 DEF Held
  <2> QED BY <2>1, <2>2 DEF SpellInv
<1>9. (\E r \in RecordsFor(pattern) : Format(r)) \/ EmitLiteral \/ RenderStep \/ PadStep
        \/ FormatEnds \/ UNCHANGED vars => UNCHANGED parseVars
  BY DEF Format, EmitLiteral, RenderStep, PadStep, FormatEnds, parseVars, vars
<1> QED BY <1>2, <1>3, <1>4, <1>5, <1>6, <1>7, <1>8, <1>9 DEF Next, Parse

\* The elements new builds spell the pattern it consumed: no character is lost,
\* invented or moved, and text between two placeholders is one literal, for every
\* pattern and at every step of the scan.
THEOREM PatternLossless == Spec => []Lossless
<1>1. Init => SpellInv
  <2> SUFFICES ASSUME Init PROVE SpellInv
    OBVIOUS
  <2>1. elements = <<>> /\ literal = <<>> /\ state = "literal" /\ pos = 0 /\ pattern \in Text
    BY TextAssumption DEF Init
  <2>2. Spelled(elements) = <<>> /\ DOMAIN elements = {}
    BY <2>1 DEF Spelled
  <2>3. Held = <<>>
    <3>1. Held = FlattenSeq(<<>>) \o <<>>
      BY <2>1, <2>2 DEF Held, Spelled
    <3>2. <<>> \o <<>> = <<>>
      BY TextConcat
    <3> QED BY <3>1, <3>2, FlattenEmpty
  <2>4. SubSeq(pattern, 1, pos) = <<>>
    BY <2>1 DEF Text
  <2> QED BY <2>1, <2>2, <2>3, <2>4 DEF SpellInv, Tidy, EndsInField
<1>2. FormatInv /\ FormatInv' /\ SpellInv /\ [Next]_vars => SpellInv'
  BY StepSpell
<1> QED BY <1>1, <1>2, SpellInvImplies, FormatInductive, PTL DEF Spec

-----------------------------------------------------------------------------
(* The default pattern                                                     *)

LEMMA DefaultChars ==
  /\ Len(DefaultPattern) = 28
  /\ DefaultPattern[1] = "[" /\ DefaultPattern[2] = "{" /\ DefaultPattern[3] = "level"
  /\ DefaultPattern[4] = "}" /\ DefaultPattern[5] = " " /\ DefaultPattern[6] = "{"
  /\ DefaultPattern[7] = "secs" /\ DefaultPattern[8] = "}" /\ DefaultPattern[9] = "."
  /\ DefaultPattern[10] = "{" /\ DefaultPattern[11] = "millis" /\ DefaultPattern[12] = ":"
  /\ DefaultPattern[13] = "0" /\ DefaultPattern[14] = "3" /\ DefaultPattern[15] = "}"
  /\ DefaultPattern[16] = "]" /\ DefaultPattern[17] = " " /\ DefaultPattern[18] = "{"
  /\ DefaultPattern[19] = "file" /\ DefaultPattern[20] = "}" /\ DefaultPattern[21] = ":"
  /\ DefaultPattern[22] = "{" /\ DefaultPattern[23] = "line" /\ DefaultPattern[24] = "}"
  /\ DefaultPattern[25] = " " /\ DefaultPattern[26] = "{" /\ DefaultPattern[27] = "message"
  /\ DefaultPattern[28] = "}"
BY DEF DefaultPattern

\* The default pattern is six times a text and a placeholder: n elements come before
\* the text after character a, the placeholder is from character o to character c.
Segment(a, o, c, n) ==
  \/ a = 0  /\ o = 2  /\ c = 4  /\ n = 0
  \/ a = 4  /\ o = 6  /\ c = 8  /\ n = 2
  \/ a = 8  /\ o = 10 /\ c = 15 /\ n = 4
  \/ a = 15 /\ o = 18 /\ c = 20 /\ n = 6
  \/ a = 20 /\ o = 22 /\ c = 24 /\ n = 8
  \/ a = 24 /\ o = 26 /\ c = 28 /\ n = 10

LEMMA TokenChars ==
  ASSUME NEW a, NEW o, NEW c, NEW n, Segment(a, o, c, n)
  PROVE  \A i \in (o + 1)..(c - 1) : DefaultPattern[i] # "}"
<1>1. \A i \in (o + 1)..(c - 1) : i \in {3, 7, 11, 12, 13, 14, 19, 23, 27}
  BY DEF Segment
<1> QED BY <1>1, DefaultChars

LEMMA SegmentFacts ==
  ASSUME NEW a, NEW o, NEW c, NEW n, Segment(a, o, c, n)
  PROVE  /\ a \in Nat /\ o \in Nat /\ c \in Nat /\ n \in Nat /\ a + 1 < o /\ o + 1 < c /\ c <= 28
         /\ DefaultPattern[o] = "{" /\ DefaultPattern[c] = "}"
         /\ \A i \in (a + 1)..(o - 1) : DefaultPattern[i] # "{"
         /\ (c = 28 /\ n = 10) \/ \E oo, cc \in Nat : Segment(c, oo, cc, n + 2)
<1>1. a \in Nat /\ o \in Nat /\ c \in Nat /\ n \in Nat /\ a + 1 < o /\ o + 1 < c /\ c <= 28
  BY DEF Segment
<1>2. DefaultPattern[o] = "{" /\ DefaultPattern[c] = "}"
  <2>1. o \in {2, 6, 10, 18, 22, 26} /\ c \in {4, 8, 15, 20, 24, 28}
    BY DEF Segment
  <2>2. DefaultPattern[o] = "{"
    BY <2>1, DefaultChars, ZenonT(60)
  <2>3. DefaultPattern[c] = "}"
    BY <2>1, DefaultChars, ZenonT(60)
  <2> QED BY <2>2, <2>3
<1>3. \A i \in (a + 1)..(o - 1) : DefaultPattern[i] # "{"
  <2>1. \A i \in (a + 1)..(o - 1) : i \in {1, 5, 9, 16, 17, 21, 25}
    BY DEF Segment
  <2> QED BY <2>1, DefaultChars
<1>4. (c = 28 /\ n = 10) \/ \E oo, cc \in Nat : Segment(c, oo, cc, n + 2)
  <2>1. /\ Segment(4, 6, 8, 2) /\ Segment(8, 10, 15, 4) /\ Segment(15, 18, 20, 6)
        /\ Segment(20, 22, 24, 8) /\ Segment(24, 26, 28, 10)
    BY DEF Segment
  <2>2. \/ c = 4 /\ n = 0
        \/ c = 8 /\ n = 2
        \/ c = 15 /\ n = 4
        \/ c = 20 /\ n = 6
        \/ c = 24 /\ n = 8
        \/ c = 28 /\ n = 10
    BY DEF Segment
  <2>3. 0 + 2 = 2 /\ 2 + 2 = 4 /\ 4 + 2 = 6 /\ 6 + 2 = 8 /\ 8 + 2 = 10
    OBVIOUS
  <2> QED BY <2>1, <2>2, <2>3
<1> QED BY <1>1, <1>2, <1>3, <1>4

\* t holds the characters after number a, up to number b.
Collects(t, a, b) ==
  t \in Text /\ Len(t) = b - a /\ \A i \in 1..(b - a) : t[i] = DefaultPattern[a + i]

LEMMA CollectsNone ==
  ASSUME NEW a \in Nat
  PROVE  Collects(<<>>, a, a)
<1>1. <<>> \in Text /\ Len(<<>>) = 0 /\ a - a = 0
  BY DEF Text
<1> QED BY <1>1 DEF Collects

LEMMA CollectsMore ==
  ASSUME NEW a \in Nat, NEW b \in Nat, a <= b, NEW t, Collects(t, a, b),
         NEW ch \in Char, ch = DefaultPattern[b + 1]
  PROVE  Collects(Append(t, ch), a, b + 1)
<1>1. PICK n, y : n = b - a /\ y = Append(t, ch)
  OBVIOUS
<1>2. n \in Nat /\ t \in Text /\ Len(t) = n /\ \A i \in 1..n : t[i] = DefaultPattern[a + i]
  BY <1>1 DEF Collects
<1>3. y \in Text /\ Len(y) = n + 1 /\ y[n + 1] = ch /\ \A i \in 1..n : y[i] = t[i]
  <2>1. \A u \in Text : /\ Append(u, ch) \in Text /\ Len(Append(u, ch)) = Len(u) + 1
                        /\ Append(u, ch)[Len(u) + 1] = ch
                        /\ \A i \in 1..Len(u) : Append(u, ch)[i] = u[i]
    BY DEF Text
  <2> QED BY <1>1, <1>2, <2>1
<1>4. (b + 1) - a = n + 1 /\ a + (n + 1) = b + 1
  BY <1>1
<1>5. \A i \in 1..(n + 1) : y[i] = DefaultPattern[a + i]
  <2> TAKE i \in 1..(n + 1)
  <2>1. CASE i \in 1..n
    BY <1>2, <1>3, <2>1
  <2>2. CASE i = n + 1
    BY <1>3, <1>4, <2>2
  <2> QED BY <1>2, <2>1, <2>2
<1>6. Collects(y, a, b + 1)
  BY <1>3, <1>4, <1>5 DEF Collects
<1> QED BY <1>1, <1>6

\* A placeholder that is a field name alone.
LEMMA PlainToken ==
  ASSUME NEW t \in Text, Len(t) = 1, t[1] \in FieldKinds
  PROVE  ParseFieldKind(Name(t)) = {t[1]} /\ ParseFormatSpec(SpecText(t)) = {DefaultSpec}
<1>1. PICK kind : kind = t[1]
  OBVIOUS
<1>2. DOMAIN t = 1..1 /\ kind # ":"
  BY <1>1 DEF FieldKinds, Text
<1>3. Colon(t) = {}
  BY <1>1, <1>2 DEF Colon
<1>4. Name(t) = t /\ SpecText(t) = <<>>
  BY <1>3 DEF Name, SpecText
<1>5. \A f : t = <<f>> <=> f = kind
  BY <1>1 DEF Text
<1>6. ParseFieldKind(t) = {kind}
  BY <1>1, <1>5 DEF ParseFieldKind
<1>7. ParseFormatSpec(<<>>) = {DefaultSpec}
  BY DEF ParseFormatSpec
<1> QED BY <1>1, <1>4, <1>6, <1>7

LEMMA ThreeParses ==
  ASSUME NEW w \in Text, Len(w) = 1, w[1] = "3"
  PROVE  ParseUsize(w) = {3}
<1>1. Digits[3 + 1] = "3"
  BY DEF Digits
<1>2. IsDigit("3") /\ DigitOf("3") = 3
  BY <1>1, DigitValues
<1>3. DOMAIN w = 1..1 /\ w # <<>> /\ w[1] # "+"
  BY DEF Text
<1>4. \A i \in 1..Len(w) : IsDigit(w[i])
  BY <1>2
<1>5. PICK v \in [0..Len(w) -> Nat] :
        ValueOf(w) = v[Len(w)] /\ v[0] = 0 /\ \A k \in 1..Len(w) : v[k] = 10 * v[k - 1] + DigitOf(w[k])
  BY <1>4, ValueRec
<1>6. v[1] = 10 * v[1 - 1] + DigitOf(w[1]) /\ 1 - 1 = 0
  BY <1>5
<1>7. ValueOf(w) = 3
  BY <1>2, <1>5, <1>6
<1>8. 3 <= MaxUsize
  BY WidthAssumption
<1> QED BY <1>3, <1>4, <1>7, <1>8 DEF ParseUsize

\* The placeholder {millis:03}.
LEMMA MillisToken ==
  ASSUME NEW t \in Text, Len(t) = 4, t[1] = "millis", t[2] = ":", t[3] = "0", t[4] = "3"
  PROVE  /\ ParseFieldKind(Name(t)) = {"millis"}
         /\ ParseFormatSpec(SpecText(t)) = {FormatSpec(" ", None, TRUE, 3)}
<1>1. DOMAIN t = 1..4
  BY DEF Text
<1>2. Colon(t) = {2}
  BY <1>1 DEF Colon
<1>3. PICK m, s : m = SubSeq(t, 1, 1) /\ s = SubSeq(t, 3, 4)
  OBVIOUS
<1>4. Name(t) = m /\ SpecText(t) = s
  <2>1. (CHOOSE i \in Colon(t) : TRUE) = 2
    BY <1>2
  <2> QED BY <1>2, <1>3, <2>1 DEF Name, SpecText
<1>5. m \in Text /\ Len(m) = 1 /\ m[1] = "millis"
  <2>1. m \in Text /\ Len(m) = 1 - 1 + 1 /\ \A i \in 1..(1 - 1 + 1) : m[i] = t[1 + i - 1]
    <3>1. 1 \in Nat /\ 1 <= 1 /\ 1 <= Len(t)
      OBVIOUS
    <3> QED BY <1>3, <3>1, Slice, Zenon
  <2>2. m[1] = t[1 + 1 - 1] /\ 1 + 1 - 1 = 1
    BY <2>1
  <2> QED BY <2>1, <2>2
<1>6. s \in Text /\ Len(s) = 2 /\ s[1] = "0" /\ s[2] = "3"
  <2>1. s \in Text /\ Len(s) = 4 - 3 + 1 /\ \A i \in 1..(4 - 3 + 1) : s[i] = t[3 + i - 1]
    <3>1. 3 \in Nat /\ 4 \in Nat /\ 1 <= 3 /\ 3 <= 4 /\ 4 <= Len(t)
      OBVIOUS
    <3> QED BY <1>3, <3>1, Slice, Zenon
  <2>2. s[1] = t[3 + 1 - 1] /\ s[2] = t[3 + 2 - 1] /\ 3 + 1 - 1 = 3 /\ 3 + 2 - 1 = 4
    BY <2>1
  <2> QED BY <2>1, <2>2
<1>7. ParseFieldKind(m) = {"millis"}
  <2>1. \A f : m = <<f>> <=> f = "millis"
    BY <1>5 DEF Text
  <2>2. "millis" \in FieldKinds
    BY DEF FieldKinds
  <2> QED BY <2>1, <2>2 DEF ParseFieldKind
<1>8. ParseFormatSpec(s) = {FormatSpec(" ", None, TRUE, 3)}
  <2>1. ~IsAlign("0") /\ ~IsAlign("3")
    BY DEF IsAlign, Aligns
  <2>2. SpecPrefix(s) = 0 /\ s # <<>>
    BY <1>6, <2>1 DEF SpecPrefix
  <2>3. PICK w : w = SubSeq(s, 2, 2)
    OBVIOUS
  <2>4. w \in Text /\ Len(w) = 1 /\ w[1] = "3"
    <3>1. w \in Text /\ Len(w) = 2 - 2 + 1 /\ \A i \in 1..(2 - 2 + 1) : w[i] = s[2 + i - 1]
      <4>1. 2 \in Nat /\ 1 <= 2 /\ 2 <= 2 /\ 2 <= Len(s)
        BY <1>6
      <4> QED BY <1>6, <2>3, <4>1, Slice, Zenon
    <3>2. w[1] = s[2 + 1 - 1] /\ 2 + 1 - 1 = 2
      BY <3>1
    <3> QED BY <1>6, <3>1, <3>2
  <2>5. w # <<>>
    BY <2>4
  <2>6. ParseUsize(w) = {3}
    BY <2>4, ThreeParses
  <2>7. Len(s) > 0 /\ s[0 + 1] = "0" /\ 0 + 2 = 2
    BY <1>6
  <2>8. ParseFormatSpec(s) = {FormatSpec(" ", None, TRUE, x) : x \in {3}}
    BY <1>6, <2>2, <2>3, <2>5, <2>6, <2>7, ZenonT(60) DEF ParseFormatSpec
  <2> QED BY <2>8
<1> QED BY <1>4, <1>7, <1>8

\* The elements the default pattern parses into, as far as the time depends on them.
Expected(i, e) ==
  /\ i = 1 => e.kind = "Literal" /\ Len(e.text) = 1
  /\ i = 2 => e.kind = "level" /\ e.spec.width = 0
  /\ i = 3 => e.kind = "Literal" /\ Len(e.text) = 1
  /\ i = 4 => e.kind = "secs" /\ e.spec.width = 0
  /\ i = 5 => e.kind = "Literal" /\ Len(e.text) = 1 /\ e.text[1] = "."
  /\ i = 6 => e.kind = "millis" /\ e.spec.width = 3 /\ e.spec.zero_pad = TRUE
  /\ i = 7 => e.kind = "Literal" /\ Len(e.text) = 2 /\ e.text[1] = "]"

LEMMA ExpectedAppend ==
  ASSUME NEW es \in Seq(Elements), NEW e \in Elements,
         \A i \in DOMAIN es : Expected(i, es[i]), Expected(Len(es) + 1, e)
  PROVE  /\ Append(es, e) \in Seq(Elements) /\ Len(Append(es, e)) = Len(es) + 1
         /\ \A i \in DOMAIN Append(es, e) : Expected(i, Append(es, e)[i])
<1>1. PICK more, n : more = Append(es, e) /\ n = Len(es)
  OBVIOUS
<1>2. /\ more \in Seq(Elements) /\ DOMAIN more = 1..(n + 1) /\ n \in Nat /\ Len(more) = n + 1
      /\ DOMAIN es = 1..n /\ more[n + 1] = e
  BY <1>1
<1>3. \A i \in 1..n : more[i] = es[i]
  BY <1>1
<1>4. \A i \in DOMAIN more : Expected(i, more[i])
  <2> TAKE i \in DOMAIN more
  <2>1. CASE i \in 1..n
    <3>1. more[i] = es[i] /\ Expected(i, es[i])
      BY <1>2, <1>3, <2>1
    <3> QED BY <3>1
  <2>2. CASE i = n + 1
    BY <1>1, <1>2, <2>2
  <2> QED BY <1>2, <2>1, <2>2
<1> QED BY <1>1, <1>2, <1>4

LEMMA ClosesExpected ==
  ASSUME FormatInv, CloseBrace, literal # <<>>,
         \A i \in DOMAIN elements : Expected(i, elements[i]),
         NEW kind \in FieldKinds, NEW spec \in FormatSpecs,
         ParseFieldKind(Name(token)) = {kind}, ParseFormatSpec(SpecText(token)) = {spec},
         Expected(Len(elements) + 1, Literal(literal)),
         Expected(Len(elements) + 2, Field(kind, spec))
  PROVE  /\ state' = "literal" /\ literal' = <<>> /\ Len(elements') = Len(elements) + 2
         /\ \A i \in DOMAIN elements' : Expected(i, elements'[i])
<1>1. token \in Text /\ literal \in Text /\ elements \in Seq(Elements)
  BY DEF FormatInv
<1>2. state' = "literal" /\ literal' = <<>> /\ elements' = Append(Flushed, Field(kind, spec))
  BY DEF CloseBrace
<1>3. PICK n, es, e, f : /\ n = Len(elements) /\ es = Flushed
                         /\ e = Literal(literal) /\ f = Field(kind, spec)
  OBVIOUS
<1>4. n \in Nat /\ (n + 1) + 1 = n + 2
  BY <1>1, <1>3
<1>5. e \in Elements /\ f \in Elements
  BY <1>1, <1>3, ElementFacts, FieldFacts
<1>6. es = Append(elements, e)
  BY <1>3 DEF Flushed
<1>7. es \in Seq(Elements) /\ Len(es) = n + 1 /\ \A i \in DOMAIN es : Expected(i, es[i])
  BY <1>1, <1>3, <1>5, <1>6, ExpectedAppend
<1>8. Expected(Len(es) + 1, f)
  BY <1>3, <1>4, <1>7
<1>9. /\ Len(Append(es, f)) = Len(es) + 1
      /\ \A i \in DOMAIN Append(es, f) : Expected(i, Append(es, f)[i])
  BY <1>5, <1>7, <1>8, ExpectedAppend
<1> QED BY <1>2, <1>3, <1>4, <1>7, <1>9

\* Where the scan of the default pattern can be: in a text, in a placeholder, at the end.
InText ==
  \E a, o, c, n \in Nat : /\ Segment(a, o, c, n) /\ Len(elements) = n
                          /\ a <= pos /\ pos < o /\ Collects(literal, a, pos)
InToken ==
  \E a, o, c, n \in Nat : /\ Segment(a, o, c, n) /\ Len(elements) = n /\ Collects(literal, a, o - 1)
                          /\ o <= pos /\ pos < c /\ Collects(token, o, pos)
AtEnd == pos = 28 /\ Len(elements) = 12 /\ literal = <<>>
ScanInv ==
  pattern = DefaultPattern =>
    /\ \A i \in DOMAIN elements : Expected(i, elements[i])
    /\ \/ state = "literal" /\ (InText \/ AtEnd)
       \/ state = "token" /\ InToken
       \/ state = "ready" /\ Len(elements) = 12

LEMMA ScanTypes == FormatInv => pos \in Nat /\ pattern \in Text
<1>1. FormatInv => pattern \in Text
  BY TextAssumption DEF FormatInv
<1>2. pattern \in Text => Len(pattern) \in Nat
  BY DEF Text
<1> QED BY <1>1, <1>2 DEF FormatInv

LEMMA StepLiteralChar ==
  ASSUME FormatInv, InText, LiteralChar, pattern = DefaultPattern
  PROVE  InText'
<1>1. PICK a \in Nat, o \in Nat, c \in Nat, n \in Nat :
        /\ Segment(a, o, c, n) /\ Len(elements) = n
        /\ a <= pos /\ pos < o /\ Collects(literal, a, pos)
  BY DEF InText
<1>2. /\ literal' = Append(literal, Ch) /\ pos' = pos + 1 /\ elements' = elements
      /\ Ch = DefaultPattern[pos + 1] /\ Ch # "{" /\ More("literal") /\ pos \in Nat
  BY <1>1, ScanTypes DEF LiteralChar, Ch
<1>3. Ch \in Char
  BY <1>2, ScanTypes, PrefixGrows DEF Ch, More
<1>4. pos + 1 # o
  BY <1>1, <1>2, SegmentFacts
<1>5. Collects(literal', a, pos + 1)
  BY <1>1, <1>2, <1>3, CollectsMore
<1>6. a <= pos + 1 /\ pos + 1 < o
  <2>1. a \in Nat /\ o \in Nat /\ pos \in Nat /\ a <= pos /\ pos < o
    BY <1>1, <1>2
  <2> QED BY <1>4, <2>1
<1> QED BY <1>1, <1>2, <1>5, <1>6 DEF InText

LEMMA StepOpenBrace ==
  ASSUME FormatInv, InText, OpenBrace, pattern = DefaultPattern
  PROVE  InToken'
<1>1. PICK a \in Nat, o \in Nat, c \in Nat, n \in Nat :
        /\ Segment(a, o, c, n) /\ Len(elements) = n
        /\ a <= pos /\ pos < o /\ Collects(literal, a, pos)
  BY DEF InText
<1>2. /\ literal' = literal /\ pos' = pos + 1 /\ elements' = elements /\ token' = <<>>
      /\ DefaultPattern[pos + 1] = "{" /\ pos \in Nat
  BY <1>1, ScanTypes DEF OpenBrace, Ch
<1>3. pos + 1 = o
  <2>1. \A i \in (a + 1)..(o - 1) : DefaultPattern[i] # "{"
    BY <1>1, SegmentFacts
  <2>2. pos + 1 \notin (a + 1)..(o - 1)
    BY <1>2, <2>1
  <2>3. a \in Nat /\ o \in Nat /\ pos \in Nat /\ a <= pos /\ pos < o
    BY <1>1, <1>2
  <2> QED BY <2>2, <2>3
<1>4. Collects(token', o, o)
  BY <1>2, CollectsNone
<1>5. o - 1 = pos /\ o <= o /\ o < c
  <2>1. o + 1 < c /\ pos \in Nat
    BY <1>1, <1>2, SegmentFacts
  <2> QED BY <1>3, <2>1
<1>6. /\ Segment(a, o, c, n) /\ Len(elements') = n /\ Collects(literal', a, o - 1)
      /\ o <= pos' /\ pos' < c /\ Collects(token', o, pos')
  <2>1. pos' = o /\ literal' = literal /\ elements' = elements
    BY <1>2, <1>3
  <2> QED BY <1>1, <1>4, <1>5, <2>1
<1> QED BY <1>6 DEF InToken

LEMMA StepTokenChar ==
  ASSUME FormatInv, InToken, TokenChar, pattern = DefaultPattern
  PROVE  InToken'
<1>1. PICK a \in Nat, o \in Nat, c \in Nat, n \in Nat :
        /\ Segment(a, o, c, n) /\ Len(elements) = n /\ Collects(literal, a, o - 1)
        /\ o <= pos /\ pos < c /\ Collects(token, o, pos)
  BY DEF InToken
<1>2. /\ token' = Append(token, Ch) /\ pos' = pos + 1 /\ elements' = elements /\ literal' = literal
      /\ Ch = DefaultPattern[pos + 1] /\ Ch # "}" /\ More("token") /\ pos \in Nat
  BY <1>1, ScanTypes DEF TokenChar, Ch
<1>3. Ch \in Char
  BY <1>2, ScanTypes, PrefixGrows DEF Ch, More
<1>4. pos + 1 # c
  BY <1>1, <1>2, SegmentFacts
<1>5. Collects(token', o, pos + 1)
  BY <1>1, <1>2, <1>3, CollectsMore
<1>6. o <= pos + 1 /\ pos + 1 < c
  <2>1. o \in Nat /\ c \in Nat /\ pos \in Nat /\ o <= pos /\ pos < c
    BY <1>1, <1>2
  <2> QED BY <1>4, <2>1
<1> QED BY <1>1, <1>2, <1>5, <1>6 DEF InToken

\* What new makes of the placeholders of the default pattern.
FieldAfter(n, kind, spec) ==
  /\ kind \in FieldKinds /\ spec \in FormatSpecs
  /\ ParseFieldKind(Name(token)) = {kind} /\ ParseFormatSpec(SpecText(token)) = {spec}
  /\ n = 0 => kind = "level" /\ spec.width = 0
  /\ n = 2 => kind = "secs" /\ spec.width = 0
  /\ n = 4 => kind = "millis" /\ spec.width = 3 /\ spec.zero_pad = TRUE

LEMMA DefaultField ==
  ASSUME NEW a, NEW o, NEW c, NEW n, Segment(a, o, c, n), Collects(token, o, c - 1)
  PROVE  \E kind, spec : FieldAfter(n, kind, spec)
<1>1. token \in Text /\ Len(token) = (c - 1) - o /\ \A i \in 1..((c - 1) - o) : token[i] = DefaultPattern[o + i]
  BY DEF Collects
<1>2. CASE o = 10 /\ c = 15 /\ n = 4
  <2>1. (15 - 1) - 10 = 4 /\ 10 + 1 = 11 /\ 10 + 2 = 12 /\ 10 + 3 = 13 /\ 10 + 4 = 14
    OBVIOUS
  <2>2. Len(token) = 4 /\ \A i \in 1..4 : token[i] = DefaultPattern[10 + i]
    BY <1>1, <1>2, <2>1
  <2>3. token[1] = "millis" /\ token[2] = ":" /\ token[3] = "0" /\ token[4] = "3"
    <3>1. /\ token[1] = DefaultPattern[11] /\ token[2] = DefaultPattern[12]
          /\ token[3] = DefaultPattern[13] /\ token[4] = DefaultPattern[14]
      BY <2>1, <2>2
    <3> QED BY <3>1, DefaultChars, ZenonT(60)
  <2>4. PICK spec : spec = FormatSpec(" ", None, TRUE, 3)
    OBVIOUS
  <2>5. ParseFieldKind(Name(token)) = {"millis"} /\ ParseFormatSpec(SpecText(token)) = {spec}
    BY <1>1, <2>2, <2>3, <2>4, MillisToken
  <2>6. spec \in FormatSpecs
    BY <1>1, <2>5, SpecTextIsText, SpecAccepted
  <2>7. spec.zero_pad = TRUE /\ spec.width = 3 /\ "millis" \in FieldKinds
    BY <2>4 DEF FormatSpec, FieldKinds
  <2> QED BY <1>2, <2>5, <2>6, <2>7 DEF FieldAfter
<1>3. CASE ~(o = 10 /\ c = 15 /\ n = 4)
  <2>1. /\ (c - 1) - o = 1 /\ n # 4 /\ o + 1 \in {3, 7, 19, 23, 27}
        /\ (n = 0 => o + 1 = 3) /\ (n = 2 => o + 1 = 7)
    BY <1>3 DEF Segment
  <2>2. Len(token) = 1 /\ token[1] = DefaultPattern[o + 1]
    BY <1>1, <2>1
  <2>3. DefaultPattern[o + 1] \in {"level", "secs", "file", "line", "message"}
    BY <2>1, DefaultChars, ZenonT(60)
  <2>4. token[1] \in FieldKinds
    BY <2>2, <2>3 DEF FieldKinds
  <2>5. ParseFieldKind(Name(token)) = {token[1]} /\ ParseFormatSpec(SpecText(token)) = {DefaultSpec}
    BY <1>1, <2>2, <2>4, PlainToken
  <2>6. DefaultSpec \in FormatSpecs
    BY <1>1, <2>5, SpecTextIsText, SpecAccepted
  <2>7. DefaultSpec.width = 0
    BY DEF DefaultSpec, FormatSpec
  <2>8. (n = 0 => token[1] = "level") /\ (n = 2 => token[1] = "secs")
    BY <2>1, <2>2, DefaultChars, ZenonT(60)
  <2> QED BY <2>1, <2>4, <2>5, <2>6, <2>7, <2>8 DEF FieldAfter
<1> QED BY <1>2, <1>3

\* The texts of the default pattern.
LEMMA DefaultText ==
  ASSUME NEW a, NEW o, NEW c, NEW n, Segment(a, o, c, n), NEW t, Collects(t, a, o - 1)
  PROVE  /\ t # <<>>
         /\ n = 0 \/ n = 2 => Len(t) = 1
         /\ n = 4 => Len(t) = 1 /\ t[1] = "."
         /\ n = 6 => Len(t) = 2 /\ t[1] = "]"
<1>1. Len(t) = (o - 1) - a /\ \A i \in 1..((o - 1) - a) : t[i] = DefaultPattern[a + i]
  BY DEF Collects
<1>2. /\ (o - 1) - a \in {1, 2}
      /\ n \in {0, 2} => (o - 1) - a = 1
      /\ n = 4 => (o - 1) - a = 1 /\ a + 1 = 9
      /\ n = 6 => (o - 1) - a = 2 /\ a + 1 = 16
  BY DEF Segment
<1>3. t[1] = DefaultPattern[a + 1]
  BY <1>1, <1>2
<1>4. (n = 4 => t[1] = ".") /\ (n = 6 => t[1] = "]")
  BY <1>2, <1>3, DefaultChars, ZenonT(60)
<1>5. t # <<>>
  BY <1>1, <1>2
<1> QED BY <1>1, <1>2, <1>4, <1>5

LEMMA StepCloseBrace ==
  ASSUME FormatInv, InToken, CloseBrace, pattern = DefaultPattern,
         \A i \in DOMAIN elements : Expected(i, elements[i])
  PROVE  /\ state' = "literal" /\ (InText \/ AtEnd)'
         /\ \A i \in DOMAIN elements' : Expected(i, elements'[i])
<1>1. PICK a \in Nat, o \in Nat, c \in Nat, n \in Nat :
        /\ Segment(a, o, c, n) /\ Len(elements) = n /\ Collects(literal, a, o - 1)
        /\ o <= pos /\ pos < c /\ Collects(token, o, pos)
  BY DEF InToken
<1>2. pos' = pos + 1 /\ DefaultPattern[pos + 1] = "}" /\ pos \in Nat /\ token \in Text /\ literal \in Text
  BY ScanTypes DEF CloseBrace, Ch, FormatInv
<1>3. Segment(a, o, c, n) /\ o \in Nat /\ c \in Nat /\ n \in Nat /\ pos \in Nat /\ o <= pos /\ pos < c
  BY <1>1, <1>2
<1>4. pos + 1 = c /\ c - 1 = pos
  <2>1. \A i \in (o + 1)..(c - 1) : DefaultPattern[i] # "}"
    BY <1>3, TokenChars
  <2>2. pos + 1 \notin (o + 1)..(c - 1)
    BY <1>2, <2>1
  <2> QED BY <1>3, <2>2
<1>5. PICK kind, spec : FieldAfter(n, kind, spec)
  <2>1. Collects(token, o, c - 1)
    BY <1>1, <1>4
  <2> QED BY <1>3, <2>1, DefaultField
<1>6. /\ literal # <<>>
      /\ n = 0 \/ n = 2 => Len(literal) = 1
      /\ n = 4 => Len(literal) = 1 /\ literal[1] = "."
      /\ n = 6 => Len(literal) = 2 /\ literal[1] = "]"
  BY <1>1, DefaultText
<1>7. PICK e, f : e = Literal(literal) /\ f = Field(kind, spec)
  OBVIOUS
<1>8. e.kind = "Literal" /\ e.text = literal /\ f.kind = kind /\ f.spec = spec
  BY <1>2, <1>5, <1>7, ElementFacts, FieldFacts DEF FieldAfter
<1>9. n \in {0, 2, 4, 6, 8, 10}
  BY <1>1 DEF Segment
<1>10. Expected(n + 1, e)
  BY <1>6, <1>8, <1>9 DEF Expected
<1>11. Expected(n + 2, f)
  BY <1>5, <1>8, <1>9 DEF Expected, FieldAfter
<1>12. /\ state' = "literal" /\ literal' = <<>> /\ Len(elements') = n + 2
       /\ \A i \in DOMAIN elements' : Expected(i, elements'[i])
  BY <1>1, <1>5, <1>6, <1>7, <1>10, <1>11, ClosesExpected DEF FieldAfter
<1>13. pos' = c
  BY <1>2, <1>4
<1>14. ASSUME NEW oo \in Nat, NEW cc \in Nat, Segment(c, oo, cc, n + 2) PROVE InText'
  <2>1. c <= c /\ c < oo /\ n + 2 \in Nat
    <3>1. c + 1 < oo
      BY <1>14, SegmentFacts
    <3> QED BY <1>3, <3>1
  <2>2. Collects(literal', c, c)
    BY <1>3, <1>12, CollectsNone
  <2>3. /\ Segment(c, oo, cc, n + 2) /\ Len(elements') = n + 2
        /\ c <= pos' /\ pos' < oo /\ Collects(literal', c, pos')
    BY <1>12, <1>13, <1>14, <2>1, <2>2
  <2> QED BY <1>3, <2>1, <2>3 DEF InText
<1>15. (c = 28 /\ n = 10) \/ \E oo, cc \in Nat : Segment(c, oo, cc, n + 2)
  BY <1>3, SegmentFacts
<1>16. InText' \/ AtEnd'
  <2>1. CASE c = 28 /\ n = 10
    <3>1. n + 2 = 12
      BY <2>1
    <3> QED BY <1>12, <1>13, <2>1, <3>1 DEF AtEnd
  <2> QED BY <1>14, <1>15, <2>1
<1> QED BY <1>12, <1>16

LEMMA StepScan ==
  ASSUME FormatInv, ScanInv, [Next]_vars
  PROVE  ScanInv'
<1> SUFFICES ASSUME pattern' = DefaultPattern
             PROVE  /\ \A i \in DOMAIN elements' : Expected(i, elements'[i])
                    /\ \/ state' = "literal" /\ (InText \/ AtEnd)'
                       \/ state' = "token" /\ InToken'
                       \/ state' = "ready" /\ Len(elements') = 12
  BY DEF ScanInv
<1>1. pattern = DefaultPattern
  BY DEF Next, Parse, LiteralChar, OpenBrace, TokenChar, CloseBrace, UnclosedBrace, PatternEnds,
         Format, EmitLiteral, RenderStep, PadStep, FormatEnds, parseVars, vars
<1>2. /\ \A i \in DOMAIN elements : Expected(i, elements[i])
      /\ \/ state = "literal" /\ (InText \/ AtEnd)
         \/ state = "token" /\ InToken
         \/ state = "ready" /\ Len(elements) = 12
  BY <1>1 DEF ScanInv
<1>3. Len(pattern) = 28
  BY <1>1, DefaultChars
<1>4. More("literal") => InText
  BY <1>2, <1>3 DEF More, AtEnd
<1>5. CASE LiteralChar
  <2>1. InText'
    BY <1>1, <1>4, <1>5, StepLiteralChar DEF LiteralChar
  <2> QED BY <1>2, <1>5, <2>1 DEF LiteralChar, More
<1>6. CASE OpenBrace
  <2>1. InToken'
    BY <1>1, <1>4, <1>6, StepOpenBrace DEF OpenBrace
  <2> QED BY <1>2, <1>6, <2>1 DEF OpenBrace
<1>7. CASE TokenChar
  <2>1. InToken /\ state' = "token" /\ elements' = elements
    BY <1>2, <1>7 DEF TokenChar, More
  <2>2. InToken'
    BY <1>1, <1>7, <2>1, StepTokenChar
  <2> QED BY <1>2, <2>1, <2>2
<1>8. CASE CloseBrace
  <2>1. InToken
    BY <1>2, <1>8 DEF CloseBrace, More
  <2> QED BY <1>1, <1>2, <1>8, <2>1, StepCloseBrace
<1>9. CASE UnclosedBrace
  <2>1. InToken /\ pos = 28
    BY <1>2, <1>3, <1>9 DEF UnclosedBrace
  <2>2. PICK a \in Nat, o \in Nat, c \in Nat, n \in Nat : Segment(a, o, c, n) /\ pos < c
    BY <2>1 DEF InToken
  <2>3. c <= 28
    BY <2>2, SegmentFacts
  <2>4. FALSE
    BY <2>1, <2>2, <2>3
  <2> QED BY <2>4
<1>10. CASE PatternEnds
  <2>1. (InText \/ AtEnd) /\ pos = 28 /\ elements' = Flushed /\ state' = "ready"
    BY <1>2, <1>3, <1>10 DEF PatternEnds
  <2>2. ~InText
    <3> SUFFICES ASSUME InText PROVE FALSE
      OBVIOUS
    <3>1. PICK a \in Nat, o \in Nat, c \in Nat, n \in Nat : Segment(a, o, c, n) /\ pos < o
      BY DEF InText
    <3>2. c <= 28 /\ o + 1 < c
      BY <3>1, SegmentFacts
    <3> QED BY <2>1, <3>1, <3>2
  <2>3. elements' = elements /\ Len(elements) = 12
    BY <2>1, <2>2 DEF AtEnd, Flushed
  <2> QED BY <1>2, <2>1, <2>3
<1>11. CASE UNCHANGED parseVars
  <2>1. UNCHANGED <<pattern, pos, elements, literal, token, state>>
    BY <1>11 DEF parseVars
  <2>2. (InText => InText') /\ (InToken => InToken') /\ (AtEnd => AtEnd')
    BY <2>1 DEF InText, InToken, AtEnd
  <2> QED BY <1>2, <2>1, <2>2
<1>12. (\E r \in RecordsFor(pattern) : Format(r)) \/ EmitLiteral \/ RenderStep \/ PadStep
        \/ FormatEnds \/ UNCHANGED vars => UNCHANGED parseVars
  BY DEF Format, EmitLiteral, RenderStep, PadStep, FormatEnds, parseVars, vars
<1> QED BY <1>5, <1>6, <1>7, <1>8, <1>9, <1>10, <1>11, <1>12 DEF Next, Parse

LEMMA InitScan == Init => ScanInv
<1> SUFFICES ASSUME Init PROVE ScanInv
  OBVIOUS
<1>1. pos = 0 /\ elements = <<>> /\ literal = <<>> /\ state = "literal"
  BY DEF Init
<1>2. Segment(0, 2, 4, 0) /\ Len(elements) = 0 /\ 0 <= pos /\ pos < 2
  BY <1>1 DEF Segment
<1>3. Collects(literal, 0, pos)
  BY <1>1, CollectsNone
<1>4. InText
  <2>1. 0 \in Nat /\ 2 \in Nat /\ 4 \in Nat
    OBVIOUS
  <2> QED BY <1>2, <1>3, <2>1 DEF InText
<1>5. DOMAIN elements = {}
  BY <1>1
<1> QED BY <1>1, <1>4, <1>5 DEF ScanInv

-----------------------------------------------------------------------------
(* The time in the default pattern's output                                *)

\* m is k in three digits.
ThreeDigits(m, k) ==
  /\ m \in Text /\ Len(m) = 3 /\ IsDigit(m[1]) /\ IsDigit(m[2]) /\ IsDigit(m[3])
  /\ k = 100 * DigitOf(m[1]) + 10 * DigitOf(m[2]) + DigitOf(m[3])

\* What a text of up to three digits stands for.
LEMMA ShortValue ==
  ASSUME NEW t \in Text, AllDigits(t), Len(t) \in 1..3
  PROVE  /\ \A i \in 1..Len(t) : IsDigit(t[i]) /\ DigitOf(t[i]) \in 0..9
         /\ Len(t) = 1 => ValueOf(t) = DigitOf(t[1])
         /\ Len(t) = 2 => ValueOf(t) = 10 * DigitOf(t[1]) + DigitOf(t[2])
         /\ Len(t) = 3 => ValueOf(t) = 100 * DigitOf(t[1]) + 10 * DigitOf(t[2]) + DigitOf(t[3])
<1>1. \A i \in 1..Len(t) : IsDigit(t[i]) /\ DigitOf(t[i]) \in 0..9
  BY DigitRange DEF AllDigits
<1>2. PICK v \in [0..Len(t) -> Nat] :
        ValueOf(t) = v[Len(t)] /\ v[0] = 0 /\ \A k \in 1..Len(t) : v[k] = 10 * v[k - 1] + DigitOf(t[k])
  BY <1>1, ValueRec
<1>3. 1 - 1 = 0 /\ 2 - 1 = 1 /\ 3 - 1 = 2
  OBVIOUS
<1>4. v[1] = DigitOf(t[1])
  <2>1. 1 \in 1..Len(t)
    OBVIOUS
  <2>2. v[1] = 10 * v[0] + DigitOf(t[1])
    BY <1>2, <1>3, <2>1
  <2> QED BY <1>1, <1>2, <2>1, <2>2, SMTT(30)
<1>5. Len(t) >= 2 => v[2] = 10 * v[1] + DigitOf(t[2])
  BY <1>2, <1>3
<1>6. Len(t) >= 3 => v[3] = 10 * v[2] + DigitOf(t[3])
  BY <1>2, <1>3
<1>7. CASE Len(t) = 1
  BY <1>1, <1>2, <1>4, <1>7
<1>8. CASE Len(t) = 2
  BY <1>1, <1>2, <1>4, <1>5, <1>8
<1>9. CASE Len(t) = 3
  <2>1. PICK x, y, z : x = DigitOf(t[1]) /\ y = DigitOf(t[2]) /\ z = DigitOf(t[3])
    OBVIOUS
  <2>2. x \in Nat /\ y \in Nat /\ z \in Nat
    BY <1>1, <1>9, <2>1
  <2>3. v[2] = 10 * x + y /\ v[3] = 10 * v[2] + z
    BY <1>4, <1>5, <1>6, <1>9, <2>1
  <2>4. v[3] = 100 * x + 10 * y + z
    BY <2>2, <2>3
  <2> QED BY <1>1, <1>2, <1>9, <2>1, <2>4
<1> QED BY <1>7, <1>8, <1>9

\* {millis:03} is three digits: the value, or zeros in front of it.
LEMMA PaddedMillis ==
  ASSUME NEW k \in Nat, k < 1000, NEW spec \in FormatSpecs, spec.width = 3, spec.zero_pad = TRUE,
         NEW numeric \in BOOLEAN
  PROVE  ThreeDigits(ApplyFormatSpec(Display(k), spec, numeric), k)
<1>1. PICK v, m : v = Display(k) /\ m = ApplyFormatSpec(v, spec, numeric)
  OBVIOUS
<1>2. v \in Text /\ AllDigits(v) /\ ValueOf(v) = k /\ Len(v) > 0 /\ Len(v) <= 3
  <2>1. k \in Nat /\ k < 1000
    OBVIOUS
  <2>2. Numeral(v, k)
    BY <1>1, <2>1, DisplayNumeral
  <2> QED BY <2>1, <2>2 DEF Numeral
<1>3. Len(v) \in 1..3
  <2>1. PICK n : n = Len(v)
    OBVIOUS
  <2>2. n \in Nat /\ n > 0 /\ n <= 3
    BY <1>2, <2>1 DEF Text
  <2>3. n \in 1..3
    BY <2>2
  <2> QED BY <2>1, <2>3
<1>4. EffectiveFill(spec) = "0" /\ EffectiveAlign(spec, numeric) = "Right" /\ "0" \in Char
  BY CharAssumption DEF EffectiveFill, EffectiveAlign
<1>5. PICK l \in 0..MaxUsize, r \in 0..MaxUsize :
        /\ m = Repeat("0", l) \o v \o Repeat("0", r) /\ r = 0
        /\ IF Len(v) >= 3 THEN l + r = 0 ELSE l + Len(v) + r = 3
  <2>1. Pads(v, spec, numeric)
    BY <1>2, Padding
  <2>2. PICK l \in 0..MaxUsize, r \in 0..MaxUsize :
          /\ ApplyFormatSpec(v, spec, numeric)
               = Repeat(EffectiveFill(spec), l) \o v \o Repeat(EffectiveFill(spec), r)
          /\ IF Len(v) >= spec.width THEN l + r = 0 ELSE l + Len(v) + r = spec.width
          /\ EffectiveAlign(spec, numeric) = "Right" => r = 0
    BY <2>1 DEF Pads
  <2>3. m = Repeat("0", l) \o v \o Repeat("0", r)
    BY <1>1, <1>4, <2>2
  <2>4. r = 0 /\ IF Len(v) >= 3 THEN l + r = 0 ELSE l + Len(v) + r = 3
    BY <1>4, <2>2
  <2> QED BY <2>3, <2>4
<1>6. l \in Nat /\ l + Len(v) = 3
  <2>1. l \in Nat
    BY <1>5, WidthAssumption
  <2>2. PICK n : n = Len(v)
    OBVIOUS
  <2>3. n \in 1..3 /\ IF n >= 3 THEN l + 0 = 0 ELSE l + n + 0 = 3
    BY <1>3, <1>5, <2>2
  <2>4. l + n = 3
    BY <2>1, <2>3
  <2> QED BY <2>1, <2>2, <2>4
<1>7. PICK z : z = Repeat("0", l)
  OBVIOUS
<1>8. z \in Text /\ Len(z) = l /\ Repeat("0", 0) = <<>> /\ \A i \in 1..l : z[i] = "0"
  BY <1>4, <1>6, <1>7, RepeatText DEF Repeat
<1>9. z \o v \in Text /\ Len(z \o v) = 3
  BY <1>2, <1>6, <1>8, TextConcat
<1>10. m = z \o v
  BY <1>5, <1>7, <1>8, <1>9, TextConcat
<1>11. \A i \in 1..3 : m[i] = IF i <= l THEN "0" ELSE v[i - l]
  <2>1. \A i \in 1..3 : m[i] = IF i <= Len(z) THEN z[i] ELSE v[i - Len(z)]
    BY <1>2, <1>8, <1>9, <1>10 DEF Text
  <2> QED BY <1>6, <1>8, <2>1
<1>12. IsDigit("0") /\ DigitOf("0") = 0
  BY DigitZero
<1>13. /\ \A i \in 1..Len(v) : IsDigit(v[i]) /\ DigitOf(v[i]) \in 0..9
       /\ Len(v) = 1 => k = DigitOf(v[1])
       /\ Len(v) = 2 => k = 10 * DigitOf(v[1]) + DigitOf(v[2])
       /\ Len(v) = 3 => k = 100 * DigitOf(v[1]) + 10 * DigitOf(v[2]) + DigitOf(v[3])
  BY <1>2, <1>3, ShortValue
<1>14. m \in Text /\ Len(m) = 3
  BY <1>9, <1>10
<1>15. CASE l = 0
  <2>1. m[1] = v[1] /\ m[2] = v[2] /\ m[3] = v[3] /\ Len(v) = 3
    BY <1>6, <1>11, <1>15
  <2> QED BY <1>1, <1>13, <1>14, <2>1 DEF ThreeDigits
<1>16. CASE l = 1
  <2>1. m[1] = "0" /\ m[2] = v[1] /\ m[3] = v[2] /\ Len(v) = 2
    <3>1. PICK n : n = Len(v)
      OBVIOUS
    <3>2. n \in Nat /\ 1 + n = 3
      BY <1>3, <1>6, <1>16, <3>1
    <3>3. n = 2 /\ 2 - 1 = 1 /\ 3 - 1 = 2
      BY <3>2
    <3> QED BY <1>11, <1>16, <3>1, <3>3
  <2>2. IsDigit(v[1]) /\ IsDigit(v[2]) /\ DigitOf(v[1]) \in Nat /\ DigitOf(v[2]) \in Nat
    BY <1>13, <2>1
  <2>3. k = 100 * 0 + 10 * DigitOf(v[1]) + DigitOf(v[2])
    BY <1>13, <2>1, <2>2
  <2> QED BY <1>1, <1>12, <1>14, <2>1, <2>2, <2>3 DEF ThreeDigits
<1>17. CASE l = 2
  <2>1. m[1] = "0" /\ m[2] = "0" /\ m[3] = v[1] /\ Len(v) = 1
    <3>1. PICK n : n = Len(v)
      OBVIOUS
    <3>2. n \in Nat /\ 2 + n = 3
      BY <1>3, <1>6, <1>17, <3>1
    <3>3. n = 1 /\ 3 - 2 = 1
      BY <3>2
    <3> QED BY <1>11, <1>17, <3>1, <3>3
  <2>2. IsDigit(v[1]) /\ DigitOf(v[1]) \in Nat
    BY <1>13, <2>1
  <2>3. k = 100 * 0 + 10 * 0 + DigitOf(v[1])
    BY <1>13, <2>1, <2>2
  <2> QED BY <1>1, <1>12, <1>14, <2>1, <2>2, <2>3 DEF ThreeDigits
<1>18. l \in {0, 1, 2}
  BY <1>3, <1>6
<1> QED BY <1>15, <1>16, <1>17, <1>18

\* What follows the level and a blank in the output before element n is emitted: the
\* digits d of the seconds, a point, k in three digits, a bracket.
Tells(t, n, d, k) ==
  /\ t \in Text
  /\ n = 4 => Len(t) = 0
  /\ n = 5 => Len(t) = Len(d)
  /\ n = 6 => Len(t) = Len(d) + 1
  /\ n = 7 => Len(t) = Len(d) + 4
  /\ n >= 5 => Len(t) >= Len(d) /\ \A i \in 1..Len(d) : t[i] = d[i]
  /\ n >= 6 => Len(t) >= Len(d) + 1 /\ t[Len(d) + 1] = "."
  /\ n >= 7 => /\ Len(t) >= Len(d) + 4
               /\ IsDigit(t[Len(d) + 2]) /\ IsDigit(t[Len(d) + 3]) /\ IsDigit(t[Len(d) + 4])
               /\ k = 100 * DigitOf(t[Len(d) + 2]) + 10 * DigitOf(t[Len(d) + 3]) + DigitOf(t[Len(d) + 4])
  /\ n >= 8 => Len(t) >= Len(d) + 5 /\ t[Len(d) + 5] = "]"
\* What emitting element n of the default pattern appends.
PieceOf(n, piece, r) ==
  /\ piece \in Text
  /\ n = 1 \/ n = 3 => Len(piece) = 1
  /\ n = 2 => piece = r.level
  /\ n = 4 => piece = Display(Secs(r))
  /\ n = 5 => Len(piece) = 1 /\ piece[1] = "."
  /\ n = 6 => ThreeDigits(piece, Millis(r))
  /\ n = 7 => Len(piece) = 2 /\ piece[1] = "]"

LEMMA ConcatChars ==
  ASSUME NEW a \in Text, NEW b \in Text
  PROVE  /\ a \o b \in Text /\ Len(a \o b) = Len(a) + Len(b) /\ Len(a) \in Nat /\ Len(b) \in Nat
         /\ \A i \in 1..Len(a) : (a \o b)[i] = a[i]
         /\ \A i \in 1..Len(b) : (a \o b)[Len(a) + i] = b[i]
<1>1. a \o b \in Text /\ Len(a \o b) = Len(a) + Len(b) /\ Len(a) \in Nat /\ Len(b) \in Nat
  BY TextConcat DEF Text
<1>2. \A i \in 1..Len(a) : (a \o b)[i] = a[i]
  BY ConcatProperties DEF Text
<1>3. \A i \in 1..Len(b) : (a \o b)[Len(a) + i] = b[i]
  <2> TAKE i \in 1..Len(b)
  <2>1. Len(a) + i \in (Len(a) + 1)..(Len(a) + Len(b)) /\ (Len(a) + i) - Len(a) = i
    BY <1>1
  <2> QED BY <1>1, <2>1, ConcatProperties DEF Text
<1> QED BY <1>1, <1>2, <1>3

\* Emitting element n brings the output after the level one element further.
LEMMA TellsMore ==
  ASSUME NEW r, NEW t, NEW n \in Nat, n >= 4, Tells(t, n, Display(Secs(r)), Millis(r)),
         NEW piece, PieceOf(n, piece, r), Display(Secs(r)) \in Text
  PROVE  Tells(t \o piece, n + 1, Display(Secs(r)), Millis(r))
<1>1. PICK d, k, y, s, m, q : /\ d = Display(Secs(r)) /\ k = Millis(r) /\ y = t \o piece
                              /\ s = Len(d) /\ m = Len(t) /\ q = Len(piece)
  OBVIOUS
<1>2. /\ d \in Text /\ t \in Text /\ piece \in Text
      /\ s \in Nat
  BY <1>1 DEF Tells, PieceOf, Text
<1>3. /\ m \in Nat /\ q \in Nat /\ y \in Text /\ Len(y) = m + q
      /\ \A i \in 1..m : y[i] = t[i]
      /\ \A i \in 1..q : y[m + i] = piece[i]
  <2>1. /\ t \o piece \in Text /\ Len(t \o piece) = Len(t) + Len(piece)
        /\ Len(t) \in Nat /\ Len(piece) \in Nat
        /\ \A i \in 1..Len(t) : (t \o piece)[i] = t[i]
        /\ \A i \in 1..Len(piece) : (t \o piece)[Len(t) + i] = piece[i]
    BY <1>2, ConcatChars, Zenon
  <2> QED BY <1>1, <2>1, Zenon
<1>4. CASE n = 4
  <2>1. m = 0 /\ piece = d
    BY <1>1, <1>4 DEF Tells, PieceOf
  <2>2. q = s /\ Len(y) = s
    BY <1>1, <1>2, <1>3, <2>1
  <2>3. \A i \in 1..s : y[i] = d[i]
    BY <1>2, <1>3, <2>1, <2>2
  <2> QED BY <1>1, <1>2, <1>3, <1>4, <2>2, <2>3 DEF Tells
<1>5. CASE n = 5
  <2>1. m = s /\ q = 1 /\ piece[1] = "." /\ \A i \in 1..s : t[i] = d[i]
    BY <1>1, <1>5 DEF Tells, PieceOf
  <2>2. Len(y) = s + 1 /\ y[s + 1] = "."
    BY <1>2, <1>3, <2>1
  <2>3. \A i \in 1..s : y[i] = d[i]
    BY <1>2, <1>3, <2>1
  <2> QED BY <1>1, <1>2, <1>3, <1>5, <2>2, <2>3 DEF Tells
<1>6. CASE n = 6
  <2>1. /\ m = s + 1 /\ t[s + 1] = "." /\ \A i \in 1..s : t[i] = d[i]
        /\ ThreeDigits(piece, k)
    BY <1>1, <1>6 DEF Tells, PieceOf
  <2>2. /\ q = 3 /\ IsDigit(piece[1]) /\ IsDigit(piece[2]) /\ IsDigit(piece[3])
        /\ k = 100 * DigitOf(piece[1]) + 10 * DigitOf(piece[2]) + DigitOf(piece[3])
    BY <1>1, <2>1 DEF ThreeDigits
  <2>3. /\ Len(y) = s + 4 /\ y[s + 1] = "."
        /\ y[s + 2] = piece[1] /\ y[s + 3] = piece[2] /\ y[s + 4] = piece[3]
    <3>1. /\ m + q = s + 4 /\ s + 1 \in 1..m /\ m + 1 = s + 2 /\ m + 2 = s + 3 /\ m + 3 = s + 4
          /\ 1 \in 1..q /\ 2 \in 1..q /\ 3 \in 1..q
      BY <1>2, <2>1, <2>2
    <3>2. y[m + 1] = piece[1] /\ y[m + 2] = piece[2] /\ y[m + 3] = piece[3] /\ y[s + 1] = t[s + 1]
      BY <1>3, <3>1
    <3> QED BY <1>3, <2>1, <3>1, <3>2
  <2>4. \A i \in 1..s : y[i] = d[i]
    BY <1>2, <1>3, <2>1
  <2>5. /\ IsDigit(y[s + 2]) /\ IsDigit(y[s + 3]) /\ IsDigit(y[s + 4])
        /\ k = 100 * DigitOf(y[s + 2]) + 10 * DigitOf(y[s + 3]) + DigitOf(y[s + 4])
    BY <2>2, <2>3
  <2> QED BY <1>1, <1>2, <1>3, <1>6, <2>3, <2>4, <2>5 DEF Tells
<1>7. CASE n >= 7
  <2>1. /\ m >= s + 4 /\ (n = 7 => m = s + 4) /\ t[s + 1] = "." /\ \A i \in 1..s : t[i] = d[i]
        /\ IsDigit(t[s + 2]) /\ IsDigit(t[s + 3]) /\ IsDigit(t[s + 4])
        /\ k = 100 * DigitOf(t[s + 2]) + 10 * DigitOf(t[s + 3]) + DigitOf(t[s + 4])
        /\ n >= 8 => m >= s + 5 /\ t[s + 5] = "]"
    BY <1>1, <1>7 DEF Tells
  <2>2. /\ s + 1 \in 1..m /\ s + 2 \in 1..m /\ s + 3 \in 1..m /\ s + 4 \in 1..m
        /\ \A i \in 1..s : i \in 1..m
        /\ m + q >= m
    BY <1>2, <1>3, <2>1
  <2>3. /\ y[s + 1] = t[s + 1] /\ y[s + 2] = t[s + 2] /\ y[s + 3] = t[s + 3] /\ y[s + 4] = t[s + 4]
        /\ \A i \in 1..s : y[i] = d[i]
    BY <1>3, <2>1, <2>2
  <2>4. Len(y) >= s + 5 /\ y[s + 5] = "]"
    <3>1. CASE n = 7
      <4>1. q = 2 /\ piece[1] = "]"
        BY <1>1, <3>1 DEF PieceOf
      <4>2. m + 1 = s + 5 /\ 1 \in 1..q /\ m + q >= s + 5
        BY <1>2, <1>3, <2>1, <3>1, <4>1
      <4>3. y[m + 1] = piece[1]
        BY <1>3, <4>2
      <4> QED BY <1>3, <4>1, <4>2, <4>3
    <3>2. CASE n >= 8
      <4>1. s + 5 \in 1..m /\ m + q >= s + 5
        BY <1>2, <1>3, <2>1, <3>2
      <4> QED BY <1>3, <2>1, <3>2, <4>1
    <3> QED BY <1>7, <3>1, <3>2
  <2>5. Len(y) >= s /\ Len(y) >= s + 1 /\ Len(y) >= s + 4
    BY <1>2, <1>3, <2>1
  <2>6. n + 1 # 4 /\ n + 1 # 5 /\ n + 1 # 6 /\ n + 1 # 7
    BY <1>7
  <2> QED BY <1>1, <1>3, <2>1, <2>3, <2>4, <2>5, <2>6 DEF Tells
<1> QED BY <1>4, <1>5, <1>6, <1>7

\* Seconds and milliseconds are the whole time, cut to a millisecond.
LEMMA TimeSplits ==
  ASSUME NEW r \in LogRecords
  PROVE  /\ Secs(r) \in Nat /\ Millis(r) \in Nat /\ Millis(r) < 1000
         /\ 1000 * Secs(r) + Millis(r) = MillisTotal(r)
<1>1. PICK x : x = r.timestamp_ns
  BY SMT
<1>2. x \in Nat
  BY <1>1, SMT DEF LogRecords
<1>3. PICK a, b : a = x \div 1000000000 /\ b = x % 1000000000
  BY SMT
<1>4. a \in Nat /\ b \in Nat /\ b < 1000000000 /\ x = 1000000000 * a + b
  BY <1>2, <1>3, SMT
<1>5. PICK c, e : c = b \div 1000000 /\ e = b % 1000000
  BY SMT
<1>6. c \in Nat /\ e \in Nat /\ e < 1000000 /\ b = 1000000 * c + e
  BY <1>4, <1>5, SMT
<1>7. c < 1000
  BY <1>4, <1>6, SMT
<1>8. x = 1000000 * (1000 * a + c) + e
  BY <1>4, <1>6, SMT
<1>9. PICK w : w = 1000 * a + c
  BY SMT
<1>10. w \in Int /\ x \in Int /\ x = 1000000 * w + e
  BY <1>2, <1>4, <1>6, <1>8, <1>9, SMT
<1>11. x \div 1000000 = w
  BY <1>6, <1>10, SMT
<1>12. Secs(r) = a /\ Millis(r) = c
  BY <1>1, <1>3, <1>5, SMT DEF Secs, Millis
<1>13. MillisTotal(r) = w
  BY <1>1, <1>11, SMT DEF MillisTotal
<1> QED BY <1>4, <1>6, <1>7, <1>9, <1>12, <1>13, SMT

\* The point TimeShown looks for, and what it asks of the figures around it.
PointOf(shown) == CHOOSE i \in DOMAIN shown : shown[i] = "." /\ \A j \in 1..(i - 1) : IsDigit(shown[j])
TimeAt(shown, point, ms) ==
  /\ shown[point + 4] = "]"
  /\ \A i \in 1..3 : IsDigit(shown[point + i])
  /\ ValueOf(SubSeq(shown, 1, point - 1) \o SubSeq(shown, point + 1, point + 3)) = ms

PointAt(shown, i) ==
  i \in DOMAIN shown /\ shown[i] = "." /\ \A j \in 1..(i - 1) : IsDigit(shown[j])

\* The first point after digits only is the one behind the seconds.
LEMMA PointFound ==
  ASSUME NEW shown, NEW n \in Nat, n >= 8, NEW d \in Text, AllDigits(d), NEW k, Tells(shown, n, d, k)
  PROVE  PointOf(shown) = Len(d) + 1
<1>1. PICK m : m = Len(d)
  OBVIOUS
<1>2. /\ m \in Nat /\ shown \in Text /\ Len(shown) \in Nat
      /\ Len(shown) >= m + 1 /\ shown[m + 1] = "."
      /\ \A i \in 1..m : shown[i] = d[i]
  BY <1>1 DEF Tells, Text
<1>3. DOMAIN shown = 1..Len(shown)
  BY <1>2 DEF Text
<1>4. \A i \in 1..m : IsDigit(shown[i])
  BY <1>1, <1>2 DEF AllDigits
<1>5. ~IsDigit(".")
  BY DEF IsDigit, Digits
<1>6. PointAt(shown, m + 1)
  <2>1. m + 1 \in DOMAIN shown /\ (m + 1) - 1 = m
    BY <1>2, <1>3
  <2> QED BY <1>2, <1>4, <2>1 DEF PointAt
<1>7. ASSUME NEW i, PointAt(shown, i) PROVE i = m + 1
  <2>1. i \in 1..Len(shown) /\ shown[i] = "." /\ \A j \in 1..(i - 1) : IsDigit(shown[j])
    BY <1>3, <1>7 DEF PointAt
  <2>2. ~(i \in 1..m)
    BY <1>4, <1>5, <2>1
  <2>3. ~(m + 1 \in 1..(i - 1))
    BY <1>2, <1>5, <2>1
  <2>4. i \in Nat /\ i >= 1 /\ ~(i <= m) /\ ~(m + 1 <= i - 1)
    BY <1>2, <2>1, <2>2, <2>3
  <2> QED BY <1>2, <2>4
<1>8. PICK p : p = PointOf(shown)
  OBVIOUS
<1>9. PointAt(shown, p)
  BY <1>6, <1>8, Zenon DEF PointAt, PointOf
<1> QED BY <1>1, <1>7, <1>8, <1>9

\* Reading the digits on both sides of the point gives seconds and milliseconds.
LEMMA ReadsTime ==
  ASSUME NEW shown, NEW n \in Nat, n >= 8, NEW d, NEW k \in Nat, Tells(shown, n, d, k),
         NEW secs \in Nat, Numeral(d, secs),
         NEW point, point = Len(d) + 1
  PROVE  TimeAt(shown, point, 1000 * secs + k)
<1>1. PICK m : m = Len(d)
  OBVIOUS
<1>2. d \in Text /\ AllDigits(d) /\ ValueOf(d) = secs /\ m \in Nat /\ m > 0
  BY <1>1 DEF Numeral, Text
<1>3. /\ shown \in Text /\ Len(shown) \in Nat /\ Len(shown) >= m + 5 /\ shown[m + 5] = "]"
      /\ \A i \in 1..m : shown[i] = d[i]
      /\ IsDigit(shown[m + 2]) /\ IsDigit(shown[m + 3]) /\ IsDigit(shown[m + 4])
      /\ k = 100 * DigitOf(shown[m + 2]) + 10 * DigitOf(shown[m + 3]) + DigitOf(shown[m + 4])
  BY <1>1 DEF Tells, Text
<1>4. /\ point = m + 1 /\ point + 4 = m + 5 /\ point + 1 = m + 2 /\ point + 2 = m + 3
      /\ point + 3 = m + 4 /\ point - 1 = m
  BY <1>1, <1>2
<1>5. \A i \in 1..3 : IsDigit(shown[point + i])
  <2> TAKE i \in 1..3
  <2>1. i = 1 \/ i = 2 \/ i = 3
    OBVIOUS
  <2> QED BY <1>3, <1>4, <2>1
<1>6. PICK x, z : x = SubSeq(shown, 1, m) /\ z = SubSeq(shown, m + 2, m + 4)
  OBVIOUS
<1>6a. PICK y : y = x \o z
  OBVIOUS
<1>7. x \in Text /\ Len(x) = m /\ \A i \in 1..m : x[i] = shown[i]
  <2>1. x \in Text /\ Len(x) = m - 1 + 1 /\ \A i \in 1..(m - 1 + 1) : x[i] = shown[1 + i - 1]
    <3>1. 1 \in Nat /\ 1 <= 1 /\ 1 <= m /\ m <= Len(shown)
      BY <1>2, <1>3
    <3>2. shown \in Text /\ m \in Nat
      BY <1>2, <1>3
    <3>3. /\ SubSeq(shown, 1, m) \in Text /\ Len(SubSeq(shown, 1, m)) = m - 1 + 1
          /\ \A i \in 1..(m - 1 + 1) : SubSeq(shown, 1, m)[i] = shown[1 + i - 1]
      BY <3>1, <3>2, Slice, Zenon
    <3> QED BY <1>6, <3>3, Zenon
  <2>2. m - 1 + 1 = m /\ \A i \in 1..m : 1 + i - 1 = i
    BY <1>2
  <2> QED BY <2>1, <2>2
<1>8. z \in Text /\ Len(z) = 3 /\ z[1] = shown[m + 2] /\ z[2] = shown[m + 3] /\ z[3] = shown[m + 4]
  <2>1. /\ z \in Text /\ Len(z) = (m + 4) - (m + 2) + 1
        /\ \A i \in 1..((m + 4) - (m + 2) + 1) : z[i] = shown[(m + 2) + i - 1]
    <3>1. PICK a, b : a = m + 2 /\ b = m + 4
      OBVIOUS
    <3>2. shown \in Text /\ a \in Nat /\ b \in Nat /\ 1 <= a /\ a <= b /\ b <= Len(shown)
      BY <1>2, <1>3, <3>1
    <3>3. /\ SubSeq(shown, a, b) \in Text /\ Len(SubSeq(shown, a, b)) = b - a + 1
          /\ \A i \in 1..(b - a + 1) : SubSeq(shown, a, b)[i] = shown[a + i - 1]
      BY <3>2, Slice, Zenon
    <3> QED BY <1>6, <3>1, <3>3, Zenon
  <2>2. /\ (m + 4) - (m + 2) + 1 = 3 /\ (m + 2) + 1 - 1 = m + 2 /\ (m + 2) + 2 - 1 = m + 3
        /\ (m + 2) + 3 - 1 = m + 4
    BY <1>2
  <2>3. /\ z[1] = shown[(m + 2) + 1 - 1] /\ z[2] = shown[(m + 2) + 2 - 1]
        /\ z[3] = shown[(m + 2) + 3 - 1]
    BY <2>1, <2>2
  <2> QED BY <2>1, <2>2, <2>3
<1>9. /\ y \in Text /\ Len(y) = m + 3 /\ \A i \in 1..m : y[i] = d[i]
      /\ y[m + 1] = z[1] /\ y[m + 2] = z[2] /\ y[m + 3] = z[3]
  <2>1. /\ y \in Text /\ Len(y) = Len(x) + Len(z) /\ \A i \in 1..Len(x) : y[i] = x[i]
        /\ \A i \in 1..Len(z) : y[Len(x) + i] = z[i]
    <3>1. x \in Text /\ z \in Text
      BY <1>7, <1>8
    <3>2. /\ x \o z \in Text /\ Len(x \o z) = Len(x) + Len(z)
          /\ \A i \in 1..Len(x) : (x \o z)[i] = x[i]
          /\ \A i \in 1..Len(z) : (x \o z)[Len(x) + i] = z[i]
      BY <3>1, ConcatChars, Zenon
    <3> QED BY <1>6a, <3>2, Zenon
  <2>2. 1 \in 1..3 /\ 2 \in 1..3 /\ 3 \in 1..3
    OBVIOUS
  <2> QED BY <1>3, <1>7, <1>8, <2>1, <2>2
<1>10. AllDigits(y)
  <2>1. \A i \in 1..m : IsDigit(d[i])
    BY <1>1, <1>2 DEF AllDigits
  <2>2. \A i \in 1..(m + 3) : i \in 1..m \/ i = m + 1 \/ i = m + 2 \/ i = m + 3
    BY <1>2
  <2>3. IsDigit(y[m + 1]) /\ IsDigit(y[m + 2]) /\ IsDigit(y[m + 3])
    BY <1>3, <1>8, <1>9
  <2>4. \A i \in 1..(m + 3) : IsDigit(y[i])
    BY <1>9, <2>1, <2>2, <2>3
  <2> QED BY <1>9, <2>4 DEF AllDigits
<1>11. PICK v : Numbers(v, y) /\ v[m] = secs
  <2>1. Len(d) <= Len(y) /\ \A i \in 1..Len(d) : d[i] = y[i]
    BY <1>1, <1>2, <1>9
  <2>2. \E v : Numbers(v, y) /\ v[Len(d)] = ValueOf(d)
    BY <1>2, <1>9, <1>10, <2>1, ValuePrefix
  <2> QED BY <1>1, <1>2, <2>2
<1>12. ValueOf(y) = v[m + 3] /\ \A i \in 1..(m + 3) : v[i] = 10 * v[i - 1] + DigitOf(y[i])
  BY <1>9, <1>11 DEF Numbers
<1>13. PICK e, f, g : e = DigitOf(z[1]) /\ f = DigitOf(z[2]) /\ g = DigitOf(z[3])
  OBVIOUS
<1>14. e \in Nat /\ f \in Nat /\ g \in Nat /\ k = 100 * e + 10 * f + g
  <2>1. DigitOf(z[1]) \in 0..9 /\ DigitOf(z[2]) \in 0..9 /\ DigitOf(z[3]) \in 0..9
    BY <1>3, <1>8, DigitRange
  <2>2. e \in 0..9 /\ f \in 0..9 /\ g \in 0..9
    BY <1>13, <2>1
  <2>3. k = 100 * e + 10 * f + g
    <3>1. DigitOf(shown[m + 2]) = e /\ DigitOf(shown[m + 3]) = f /\ DigitOf(shown[m + 4]) = g
      BY <1>8, <1>13, Zenon
    <3> QED BY <1>3, <3>1
  <2> QED BY <2>2, <2>3
<1>15. v[m + 1] = 10 * v[m] + e /\ v[m + 2] = 10 * v[m + 1] + f /\ v[m + 3] = 10 * v[m + 2] + g
  <2>1. /\ m + 1 \in 1..(m + 3) /\ m + 2 \in 1..(m + 3) /\ m + 3 \in 1..(m + 3)
        /\ (m + 1) - 1 = m /\ (m + 2) - 1 = m + 1 /\ (m + 3) - 1 = m + 2
    BY <1>2
  <2> QED BY <1>9, <1>12, <1>13, <2>1
<1>16. ValueOf(y) = 1000 * secs + k
  <2>1. v[m + 3] = 1000 * secs + (100 * e + 10 * f + g)
    BY <1>11, <1>14, <1>15
  <2> QED BY <1>12, <1>14, <2>1
<1>17. SubSeq(shown, 1, point - 1) \o SubSeq(shown, point + 1, point + 3) = y
  BY <1>4, <1>6, <1>6a, Zenon
<1>18. shown[point + 4] = "]"
  BY <1>3, <1>4
<1>19. PICK ms : ms = 1000 * secs + k
  OBVIOUS
<1>20. ValueOf(SubSeq(shown, 1, point - 1) \o SubSeq(shown, point + 1, point + 3)) = ms
  BY <1>16, <1>17, <1>19
<1>21. TimeAt(shown, point, ms)
  BY <1>5, <1>18, <1>20, Zenon DEF TimeAt
<1> QED BY <1>19, <1>21

\* A field without a width is appended as it is.
LEMMA PlainWidth ==
  ASSUME NEW v, NEW spec, NEW numeric, spec.width = 0
  PROVE  ApplyFormatSpec(v, spec, numeric) = v
BY DEF ApplyFormatSpec

\* Emitting a literal of the default pattern, and a padded field of it.
LEMMA LiteralPiece ==
  ASSUME NEW n, NEW e \in Elements, Expected(n, e), e.kind = "Literal", NEW r
  PROVE  PieceOf(n, e.text, r)
<1>1. e.text \in Text
  BY ElementFacts
<1>2. n # 2 /\ n # 4 /\ n # 6
  BY DEF Expected
<1> QED BY <1>1, <1>2 DEF Expected, PieceOf

LEMMA FieldPiece ==
  ASSUME NEW n, NEW e \in Elements, Expected(n, e), e.kind # "Literal",
         NEW r \in LogRecords, NEW v \in Text, v = RenderField(e.kind, r)
  PROVE  PieceOf(n, ApplyFormatSpec(v, e.spec, IsNumeric(e.kind)), r)
<1>1. PICK piece, numeric : /\ numeric = IsNumeric(e.kind)
                            /\ piece = ApplyFormatSpec(v, e.spec, numeric)
  OBVIOUS
<1>2. e.spec \in FormatSpecs /\ numeric \in BOOLEAN
  BY <1>1, ElementFacts DEF IsNumeric
<1>3. piece \in Text
  BY <1>1, <1>2, PaddedText
<1>4. n # 1 /\ n # 3 /\ n # 5 /\ n # 7
  BY DEF Expected
<1>5. ASSUME n = 2 PROVE piece = r.level
  <2>1. e.kind = "level" /\ e.spec.width = 0
    BY <1>5 DEF Expected
  <2>2. v = r.level
    BY <2>1 DEF RenderField
  <2> QED BY <1>1, <2>1, <2>2, PlainWidth
<1>6. ASSUME n = 4 PROVE piece = Display(Secs(r))
  <2>1. e.kind = "secs" /\ e.spec.width = 0
    BY <1>6 DEF Expected
  <2>2. v = Display(Secs(r))
    BY <2>1 DEF RenderField
  <2> QED BY <1>1, <2>1, <2>2, PlainWidth
<1>7. ASSUME n = 6 PROVE ThreeDigits(piece, Millis(r))
  <2>1. e.kind = "millis" /\ e.spec.width = 3 /\ e.spec.zero_pad = TRUE
    BY <1>7 DEF Expected
  <2>2. v = Display(Millis(r))
    BY <2>1 DEF RenderField
  <2>3. Millis(r) \in Nat /\ Millis(r) < 1000
    BY TimeSplits
  <2> QED BY <1>1, <1>2, <2>1, <2>2, <2>3, PaddedMillis
<1>8. PieceOf(n, piece, r)
  BY <1>3, <1>4, <1>5, <1>6, <1>7, Zenon DEF PieceOf
<1> QED BY <1>1, <1>8

\* The output before element n of the default pattern is emitted.
AfterLevel(o, n, r) ==
  \E h, t \in Text : /\ o = h \o t /\ Len(h) = Len(Existing) + Len(r.level) + 2
                     /\ Tells(t, n, Display(Secs(r)), Millis(r))
Written(o, n, r) ==
  /\ n = 1 => Len(o) = Len(Existing)
  /\ n = 2 => Len(o) = Len(Existing) + 1
  /\ n = 3 => Len(o) = Len(Existing) + 1 + Len(r.level)
  /\ n >= 4 => AfterLevel(o, n, r)

\* One emitted element keeps the output as described.
LEMMA WritesPiece ==
  ASSUME NEW o \in Text, NEW n \in Nat, n >= 1, NEW r \in LogRecords, Written(o, n, r),
         NEW piece, PieceOf(n, piece, r)
  PROVE  Written(o \o piece, n + 1, r)
<1>1. PICK b, m, q, x : b = Len(Existing) /\ m = Len(o) /\ q = Len(piece) /\ x = Len(r.level)
  OBVIOUS
<1>2. b \in Nat /\ m \in Nat /\ q \in Nat /\ x \in Nat /\ piece \in Text
  <2>1. Existing \in Text /\ piece \in Text /\ r.level \in Text
    BY TextAssumption DEF PieceOf, LogRecords
  <2> QED BY <1>1, <2>1 DEF Text
<1>3. PICK y : y = o \o piece
  OBVIOUS
<1>4. y \in Text /\ Len(y) = m + q
  BY <1>1, <1>2, <1>3, TextConcat
<1>5. Secs(r) \in Nat
  BY TimeSplits
<1>6. Display(Secs(r)) \in Text
  BY <1>5, DisplayNumeral DEF Numeral
<1>7. CASE n = 1
  <2>1. m = b /\ q = 1
    BY <1>1, <1>7 DEF Written, PieceOf
  <2>2. Len(y) = b + 1
    BY <1>2, <1>4, <2>1
  <2> QED BY <1>1, <1>3, <1>7, <2>2 DEF Written
<1>8. CASE n = 2
  <2>1. m = b + 1 /\ q = x
    BY <1>1, <1>8 DEF Written, PieceOf
  <2>2. Len(y) = b + 1 + x
    BY <1>2, <1>4, <2>1
  <2> QED BY <1>1, <1>3, <1>8, <2>2 DEF Written
<1>9. CASE n = 3
  <2>1. m = b + 1 + x /\ q = 1
    BY <1>1, <1>9 DEF Written, PieceOf
  <2>2. Len(y) = Len(Existing) + Len(r.level) + 2
    <3>1. Len(y) = b + x + 2
      BY <1>2, <1>4, <2>1
    <3> QED BY <1>1, <3>1
  <2>3. <<>> \in Text /\ Len(<<>>) = 0 /\ y \o <<>> = y
    BY <1>4, TextConcat
  <2>4. Tells(<<>>, 4, Display(Secs(r)), Millis(r))
    BY <2>3 DEF Tells
  <2>5. AfterLevel(y, 4, r)
    BY <1>4, <2>2, <2>3, <2>4, Zenon DEF AfterLevel
  <2>6. n + 1 = 4
    BY <1>9
  <2>7. Written(y, 4, r)
    BY <2>5 DEF Written
  <2> QED BY <1>3, <2>6, <2>7
<1>10. CASE n >= 4
  <2>1. PICK h \in Text, t \in Text :
          /\ o = h \o t /\ Len(h) = Len(Existing) + Len(r.level) + 2
          /\ Tells(t, n, Display(Secs(r)), Millis(r))
    BY <1>10 DEF Written, AfterLevel
  <2>2. Tells(t \o piece, n + 1, Display(Secs(r)), Millis(r))
    BY <1>6, <1>10, <2>1, TellsMore
  <2>3. t \o piece \in Text /\ y = h \o (t \o piece)
    BY <1>2, <1>3, <2>1, TextConcat, TextAssociative, SMTT(30)
  <2>4. AfterLevel(y, n + 1, r)
    BY <2>1, <2>2, <2>3, Zenon DEF AfterLevel
  <2>5. n + 1 # 1 /\ n + 1 # 2 /\ n + 1 # 3
    BY <1>10
  <2> QED BY <1>3, <2>4, <2>5 DEF Written
<1> QED BY <1>7, <1>8, <1>9, <1>10

\* The output of a default-pattern formatter, element by element, and the value rendered
\* last: this is what holds between two steps of format, and implies TimeShown at the end.
OutInv ==
  pattern = DefaultPattern /\ record # None =>
    /\ Written(out, next, record)
    /\ value # None => value = RenderField(Element.kind, record)

LEMMA InitOut == Init => OutInv
BY DEF Init, OutInv

LEMMA StepOut ==
  ASSUME FormatInv, FormatInv', ScanInv, OutInv, [Next]_vars
  PROVE  OutInv'
<1> SUFFICES ASSUME pattern' = DefaultPattern, record' # None
             PROVE  /\ Written(out', next', record')
                    /\ value' # None => value' = RenderField(Element'.kind, record')
  BY DEF OutInv
<1>1. pattern = DefaultPattern
  BY DEF Next, Parse, LiteralChar, OpenBrace, TokenChar, CloseBrace, UnclosedBrace, PatternEnds,
         Format, EmitLiteral, RenderStep, PadStep, FormatEnds, parseVars, vars
<1>2. CASE Parse
  <2>1. state # "ready" /\ record' = record
    BY <1>2 DEF Parse, LiteralChar, OpenBrace, TokenChar, CloseBrace, UnclosedBrace, PatternEnds,
                More, formatVars
  <2> QED BY <2>1 DEF FormatInv
<1>3. CASE \E r \in RecordsFor(pattern) : Format(r)
  <2>1. PICK r \in RecordsFor(pattern) : Format(r)
    BY <1>3
  <2>2. record = None /\ record' = r /\ next' = 1 /\ out' = Existing /\ value' = value
    BY <2>1 DEF Format
  <2>3. value = None
    BY <2>2 DEF FormatInv, AtElement
  <2>4. Written(out', next', record')
    BY <2>2 DEF Written
  <2> QED BY <2>2, <2>3, <2>4
<1>4. ASSUME AtElement
      PROVE  /\ record \in LogRecords /\ next \in Nat /\ next >= 1 /\ out \in Text
             /\ Element \in Elements /\ Expected(next, Element)
             /\ Written(out, next, record)
             /\ value # None => value = RenderField(Element.kind, record)
  <2>1. record # None /\ next \in Nat /\ next >= 1 /\ next <= Len(elements) /\ elements \in Seq(Elements)
    BY <1>4 DEF AtElement, FormatInv
  <2>2. next \in DOMAIN elements
    BY <2>1
  <2>3. Element \in Elements /\ Expected(next, Element)
    BY <1>1, <2>1, <2>2 DEF ScanInv, Element
  <2> QED BY <1>1, <2>1, <2>3 DEF OutInv, FormatInv
<1>5. CASE EmitLiteral
  <2>1. /\ AtElement /\ Element.kind = "Literal" /\ out' = out \o Element.text
        /\ next' = next + 1 /\ record' = record /\ value' = value
    BY <1>5 DEF EmitLiteral
  <2>2. PieceOf(next, Element.text, record)
    BY <1>4, <2>1, LiteralPiece
  <2>3. Written(out \o Element.text, next + 1, record)
    BY <1>4, <2>1, <2>2, WritesPiece
  <2>4. value = None
    BY <2>1 DEF FormatInv
  <2> QED BY <2>1, <2>3, <2>4
<1>6. CASE RenderStep
  <2>1. /\ AtElement /\ value' = RenderField(Element.kind, record)
        /\ record' = record /\ next' = next /\ out' = out /\ elements' = elements
    BY <1>6 DEF RenderStep, parseVars
  <2>2. Element' = Element
    BY <2>1 DEF Element
  <2> QED BY <1>4, <2>1, <2>2
<1>7. CASE PadStep
  <2>1. PICK piece : piece = ApplyFormatSpec(value, Element.spec, IsNumeric(Element.kind))
    OBVIOUS
  <2>2. /\ AtElement /\ value # None /\ out' = out \o piece
        /\ next' = next + 1 /\ record' = record /\ value' = None
    BY <1>7, <2>1 DEF PadStep
  <2>3. Element.kind # "Literal" /\ value \in Text
    BY <2>2 DEF FormatInv
  <2>4. PieceOf(next, piece, record)
    BY <1>4, <2>1, <2>2, <2>3, FieldPiece
  <2>5. Written(out \o piece, next + 1, record)
    BY <1>4, <2>2, <2>4, WritesPiece
  <2> QED BY <2>2, <2>5
<1>8. CASE FormatEnds
  BY <1>8 DEF FormatEnds
<1>9. CASE UNCHANGED vars
  <2>1. /\ record' = record /\ next' = next /\ out' = out /\ elements' = elements /\ value' = value
    BY <1>9 DEF vars
  <2>2. Element' = Element
    BY <2>1 DEF Element
  <2> QED BY <1>1, <2>1, <2>2 DEF OutInv
<1> QED BY <1>2, <1>3, <1>5, <1>6, <1>7, <1>8, <1>9 DEF Next

\* Cutting off the first part of a concatenation.
LEMMA DropHead ==
  ASSUME NEW h \in Text, NEW t \in Text, Len(t) > 0
  PROVE  SubSeq(h \o t, Len(h) + 1, Len(h \o t)) = t
<1>1. PICK o, a, b : o = h \o t /\ a = Len(h) + 1 /\ b = Len(o)
  OBVIOUS
<1>2. PICK m, n : m = Len(h) /\ n = Len(t)
  OBVIOUS
<1>3. /\ m \in Nat /\ n \in Nat /\ n > 0 /\ o \in Text /\ b = m + n /\ a = m + 1
      /\ \A i \in 1..n : o[m + i] = t[i]
  BY <1>1, <1>2, ConcatChars
<1>4. PICK x : x = SubSeq(o, a, b)
  OBVIOUS
<1>5. x \in Text /\ Len(x) = b - a + 1 /\ \A i \in 1..(b - a + 1) : x[i] = o[a + i - 1]
  <2>1. o \in Text /\ a \in Nat /\ b \in Nat /\ 1 <= a /\ a <= b /\ b <= Len(o)
    BY <1>1, <1>3
  <2>2. /\ SubSeq(o, a, b) \in Text /\ Len(SubSeq(o, a, b)) = b - a + 1
        /\ \A i \in 1..(b - a + 1) : SubSeq(o, a, b)[i] = o[a + i - 1]
    BY <2>1, Slice, Zenon
  <2> QED BY <1>4, <2>2, Zenon
<1>6. b - a + 1 = n /\ \A i \in 1..n : a + i - 1 = m + i
  BY <1>3
<1>7. Len(x) = n /\ \A i \in 1..n : x[i] = t[i]
  BY <1>3, <1>5, <1>6
<1>8. x = t
  BY <1>2, <1>5, <1>7 DEF Text
<1> QED BY <1>1, <1>4, <1>8

\* The second conjunct of TimeShown, of output o.
ShowsTime(o, r) ==
  LET shown == SubSeq(o, Len(Existing) + Len(r.level) + 3, Len(o))
  IN  TimeAt(shown, PointOf(shown), MillisTotal(r))

\* Once the bracket is out, the output shows the time.
LEMMA WrittenShows ==
  ASSUME NEW o \in Text, NEW r \in LogRecords, NEW n \in Nat, n >= 8, AfterLevel(o, n, r)
  PROVE  ShowsTime(o, r)
<1>1. PICK d, secs, k : d = Display(secs) /\ secs = Secs(r) /\ k = Millis(r)
  OBVIOUS
<1>2. secs \in Nat /\ k \in Nat
  BY <1>1, TimeSplits
<1>3. Numeral(d, secs)
  BY <1>1, <1>2, DisplayNumeral
<1>4. d \in Text /\ AllDigits(d)
  BY <1>3 DEF Numeral
<1>5. PICK h \in Text, t \in Text :
        /\ o = h \o t /\ Len(h) = Len(Existing) + Len(r.level) + 2
        /\ Tells(t, n, d, k)
  BY <1>1, Zenon DEF AfterLevel
<1>6. Len(t) > 0
  <2>1. Len(d) \in Nat /\ Len(t) \in Nat
    BY <1>4, <1>5 DEF Text
  <2>2. Len(t) >= Len(d) + 5
    BY <1>5 DEF Tells
  <2> QED BY <2>1, <2>2
<1>7. Len(Existing) + Len(r.level) + 3 = Len(h) + 1
  <2>1. Existing \in Text /\ r.level \in Text
    BY TextAssumption DEF LogRecords
  <2>2. Len(Existing) \in Nat /\ Len(r.level) \in Nat
    BY <2>1 DEF Text
  <2>3. PICK a, b, c : a = Len(Existing) /\ b = Len(r.level) /\ c = Len(h)
    OBVIOUS
  <2>4. a \in Nat /\ b \in Nat /\ c = a + b + 2
    BY <1>5, <2>2, <2>3
  <2>5. a + b + 3 = c + 1
    BY <2>4
  <2> QED BY <2>3, <2>5
<1>8. SubSeq(h \o t, Len(h) + 1, Len(h \o t)) = t
  BY <1>6, DropHead, Zenon
<1>9. SubSeq(o, Len(Existing) + Len(r.level) + 3, Len(o)) = t
  BY <1>5, <1>7, <1>8, Zenon
<1>10. PICK p : p = PointOf(t)
  OBVIOUS
<1>11. p = Len(d) + 1
  <2>1. Tells(t, n, d, k) /\ d \in Text /\ AllDigits(d) /\ n \in Nat /\ n >= 8
    BY <1>4, <1>5
  <2>2. PointOf(t) = Len(d) + 1
    BY <2>1, PointFound, Zenon
  <2> QED BY <1>10, <2>2
<1>12. TimeAt(t, p, 1000 * secs + k)
  BY <1>2, <1>3, <1>5, <1>11, ReadsTime
<1>13. TimeAt(t, p, MillisTotal(r))
  BY <1>1, <1>12, TimeSplits
<1> QED BY <1>9, <1>10, <1>13, Zenon DEF ShowsTime

LEMMA ScanOutImply ==
  ASSUME FormatInv, ScanInv, OutInv
  PROVE  TimeShown
<1>1. pattern = DefaultPattern => state \notin Errors
  BY DEF ScanInv, Errors
<1>2. ASSUME pattern = DefaultPattern, record # None, next > Len(elements)
      PROVE  ShowsTime(out, record)
  <2>1. record \in LogRecords /\ next \in Nat /\ out \in Text /\ state = "ready" /\ Len(elements) = 12
    BY <1>2 DEF FormatInv, ScanInv
  <2>2. next >= 8
    BY <1>2, <2>1
  <2>3. AfterLevel(out, next, record)
    BY <1>2, <2>1, <2>2 DEF OutInv, Written
  <2> QED BY <2>1, <2>2, <2>3, WrittenShows
<1> QED BY <1>1, <1>2, Zenon DEF TimeShown, ShowsTime, TimeAt, PointOf

\* With the default pattern the parser ends with its twelve elements, whatever Patterns
\* holds besides it, and the decimal number a formatted record shows between its level
\* and the bracket is its timestamp in milliseconds, for every timestamp and any level.
THEOREM TimeIsShown == Spec => []TimeShown
<1>1. FormatInv /\ ScanInv /\ [Next]_vars => ScanInv'
  BY StepScan
<1>2. FormatInv /\ FormatInv' /\ ScanInv /\ OutInv /\ [Next]_vars => OutInv'
  BY StepOut
<1>3. FormatInv /\ ScanInv /\ OutInv => TimeShown
  BY ScanOutImply
<1> QED BY <1>1, <1>2, <1>3, InitScan, InitOut, FormatInductive, PTL DEF Spec
=============================================================================
