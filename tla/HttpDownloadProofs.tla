------------------------- MODULE HttpDownloadProofs -------------------------
(***************************************************************************)
(* What main and download_page of wgetX.c make of a URL and keep of a     *)
(* response, for all URLs, responses and sizes of the buffers, and for all *)
(* ways in which send and recv cut the stream.                             *)
(***************************************************************************)
EXTENDS HttpDownload, CStringsProofs

-----------------------------------------------------------------------------
\* Parts of a sequence.

\* Text a is the end of text b.
LEMMA SuffixIs ==
    ASSUME NEW a \in Seq(Octet), NEW b \in Seq(Octet), Len(a) <= Len(b),
           \A x \in 1 .. Len(a) : a[x] = b[Len(b) - Len(a) + x]
    PROVE  IsSuffix(a, b)
<1> DEFINE ra == Reverse(a)
           rb == Reverse(b)
           n == Len(a)
<1>1. /\ ra \in Seq(Octet) /\ Len(ra) = n
      /\ \A x \in 1 .. n : ra[x] = a[n - x + 1]
  <2>1. ra \in [1 .. n -> Octet] /\ \A x \in 1 .. n : ra[x] = a[n - x + 1]
    BY DEF Reverse
  <2>2. n \in Nat
    OBVIOUS
  <2> HIDE DEF ra, n
  <2> QED BY <2>1, <2>2, FunctionIsSeq
<1>2. /\ rb \in Seq(Octet) /\ Len(rb) = Len(b)
      /\ \A x \in 1 .. Len(b) : rb[x] = b[Len(b) - x + 1]
  <2>1. rb \in [1 .. Len(b) -> Octet] /\ \A x \in 1 .. Len(b) : rb[x] = b[Len(b) - x + 1]
    BY DEF Reverse
  <2>2. Len(b) \in Nat
    OBVIOUS
  <2> HIDE DEF rb
  <2> QED BY <2>1, <2>2, FunctionIsSeq
<1> HIDE DEF ra, rb
<1>3. \A x \in 1 .. n : ra[x] = rb[x]
  <2> SUFFICES ASSUME NEW x \in 1 .. n PROVE ra[x] = rb[x]
    OBVIOUS
  <2>1. n - x + 1 \in 1 .. n /\ Len(b) - n + (n - x + 1) = Len(b) - x + 1
    OBVIOUS
  <2>2. ra[x] = a[n - x + 1] /\ rb[x] = b[Len(b) - x + 1]
    BY <1>1, <1>2
  <2>3. a[n - x + 1] = b[Len(b) - n + (n - x + 1)]
    BY <2>1
  <2> QED BY <2>1, <2>2, <2>3
<1>4. SubSeq(ra, 1, n) = SubSeq(rb, 1, n)
  <2>1. n \in 0 .. Len(ra) /\ n <= Len(rb)
    BY <1>1, <1>2
  <2> QED BY <1>1, <1>2, <1>3, <2>1, SamePrefix
<1> QED BY <1>1, <1>2, <1>4 DEF IsSuffix, IsPrefix, ra, rb

\* Where a separator begins.
LEMMA SeparatorIs ==
    ASSUME NEW r \in Seq(Octet)
    PROVE  /\ SeparatorsIn(r) \subseteq 1 .. Len(r) - 3
           /\ \A s \in 1 .. Len(r) - 3 :
                s \in SeparatorsIn(r) <=>
                    r[s] = 13 /\ r[s + 1] = 10 /\ r[s + 2] = 13 /\ r[s + 3] = 10
<1> SUFFICES ASSUME NEW s \in 1 .. Len(r) - 3
             PROVE  SubSeq(r, s, s + 3) = Separator <=>
                        r[s] = 13 /\ r[s + 1] = 10 /\ r[s + 2] = 13 /\ r[s + 3] = 10
  BY DEF SeparatorsIn
<1> DEFINE q == SubSeq(r, s, s + 3)
<1>1. /\ q \in Seq(Octet) /\ Len(q) = 4
      /\ q[1] = r[s] /\ q[2] = r[s + 1] /\ q[3] = r[s + 2] /\ q[4] = r[s + 3]
  <2>1. s \in Nat \ {0} /\ s + 3 \in 0 .. Len(r) /\ s <= s + 3 + 1 /\ s + 3 - s + 1 = 4
    OBVIOUS
  <2> DEFINE e == s + 3
  <2>2. /\ q \in Seq(Octet) /\ Len(q) = e - s + 1
        /\ \A x \in 1 .. e - s + 1 : q[x] = r[s + x - 1]
    <3> HIDE DEF e
    <3>1. q = SubSeq(r, s, e)
      BY DEF q, e
    <3>2. s \in Nat \ {0} /\ e \in 0 .. Len(r) /\ s <= e + 1
      BY <2>1 DEF e
    <3> HIDE DEF q
    <3> QED BY <3>1, <3>2, Part
  <2>3. q[1] = r[s + 1 - 1] /\ q[2] = r[s + 2 - 1] /\ q[3] = r[s + 3 - 1] /\ q[4] = r[s + 4 - 1]
    BY <2>2
  <2> QED BY <2>2, <2>3
<1> HIDE DEF q
<1>2. /\ Separator \in Seq(Octet) /\ Len(Separator) = 4
      /\ Separator[1] = 13 /\ Separator[2] = 10 /\ Separator[3] = 13 /\ Separator[4] = 10
  BY DEF Separator, Octet
<1>3. q = Separator <=> q[1] = 13 /\ q[2] = 10 /\ q[3] = 13 /\ q[4] = 10
  <2>1. ASSUME q[1] = 13, q[2] = 10, q[3] = 13, q[4] = 10
        PROVE  q = Separator
    <3>1. \A x \in 1 .. Len(q) : q[x] = Separator[x]
      BY <1>1, <1>2, <2>1
    <3> QED BY <1>1, <1>2, <3>1, SameText
  <2> QED BY <1>2, <2>1
<1> QED BY <1>1, <1>3 DEF q

\* The separators of a part are those of the text that lie in it.
LEMMA SeparatorsOfPart ==
    ASSUME NEW r \in Seq(Octet), NEW p \in Nat, NEW k \in Nat, p + k <= Len(r),
           NEW s \in 1 .. k - 3
    PROVE  s \in SeparatorsIn(SubSeq(r, p + 1, p + k)) <=> p + s \in SeparatorsIn(r)
<1> DEFINE q == SubSeq(r, p + 1, p + k)
<1>1. q \in Seq(Octet) /\ Len(q) = k /\ \A x \in 1 .. k : q[x] = r[p + x]
  <2>1. p + 1 \in Nat \ {0} /\ p + k \in 0 .. Len(r) /\ p + 1 <= p + k + 1
        /\ p + k - (p + 1) + 1 = k
    OBVIOUS
  <2>2. q \in Seq(Octet) /\ Len(q) = k /\ \A x \in 1 .. k : q[x] = r[p + 1 + x - 1]
    BY <2>1, Part
  <2> QED BY <2>2
<1> HIDE DEF q
<1>2. q[s] = r[p + s] /\ q[s + 1] = r[p + s + 1] /\ q[s + 2] = r[p + s + 2]
      /\ q[s + 3] = r[p + s + 3]
  <2>1. q[s + 1] = r[p + (s + 1)] /\ q[s + 2] = r[p + (s + 2)] /\ q[s + 3] = r[p + (s + 3)]
    BY <1>1
  <2> QED BY <1>1, <2>1
<1>3. s \in 1 .. Len(q) - 3 /\ p + s \in 1 .. Len(r) - 3
  BY <1>1
<1> QED BY <1>1, <1>2, <1>3, SeparatorIs DEF q

-----------------------------------------------------------------------------
\* The URL.

\* How many digits are in front.
LEMMA NoDigitAt ==
    ASSUME NEW text \in Seq(Octet)
    PROVE  LET k == FindNonDigit(text)
           IN  /\ k \in 0 .. Len(text)
               /\ k = 0 => \A i \in 1 .. Len(text) : text[i] \in Digit
               /\ k # 0 => text[k] \notin Digit /\ \A i \in 1 .. k - 1 : text[i] \in Digit
<1> DEFINE I == {i \in 1 .. Len(text) : text[i] \notin Digit}
           k == IF I # {} THEN Min(I) ELSE 0
<1>1. k \in 0 .. Len(text) /\ (k = 0 => I = {}) /\ (k # 0 => k \in I /\ \A i \in I : k <= i)
  <2>1. I \in SUBSET (1 .. Len(text)) /\ Len(text) \in Nat
    OBVIOUS
  <2> HIDE DEF I
  <2> QED BY <2>1, LeastIndex
<1> HIDE DEF k
<1>2. FindNonDigit(text) = k
  BY DEF FindNonDigit, SelectInSeq, k
<1> QED BY <1>1, <1>2

\* Decimal is what its definition says, a text.
LEMMA DecimalIs ==
    /\ Decimal \in [Nat -> Seq(Octet)]
    /\ \A n \in Nat : Decimal[n] =
           IF n < 10 THEN <<48 + n>> ELSE Append(Decimal[n \div 10], 48 + (n % 10))
<1> DEFINE S == Seq(Octet)
           F == [f \in [Nat -> S] |-> [n \in Nat |->
                   IF n < 10 THEN <<48 + n>> ELSE Append(f[n \div 10], 48 + (n % 10))]]
<1>1. \A n \in Nat : n < 10 => <<48 + n>> \in S
  BY DEF Octet
<1>2. \A n \in Nat : 48 + (n % 10) \in Octet /\ n \div 10 \in Nat /\ (n >= 10 => n \div 10 < n)
  BY DEF Octet
<1>3. F \in [[Nat -> S] -> [Nat -> S]]
  <2>1. ASSUME NEW f \in [Nat -> S], NEW n \in Nat
        PROVE  (IF n < 10 THEN <<48 + n>> ELSE Append(f[n \div 10], 48 + (n % 10))) \in S
    <3>1. f[n \div 10] \in Seq(Octet) /\ 48 + (n % 10) \in Octet
      BY <1>2
    <3>2. \A b \in Octet : Append(f[n \div 10], b) \in S
      BY <3>1
    <3> QED BY <1>1, <3>1, <3>2
  <2> QED BY <2>1
<1>4. ASSUME NEW f \in [Nat -> S], NEW g \in [Nat -> S], NEW n \in Nat,
             \A i \in Nat : i < n => f[i] = g[i]
      PROVE  F[f][n] = F[g][n]
  <2>1. n >= 10 => f[n \div 10] = g[n \div 10]
    BY <1>2, <1>4
  <2> QED BY <2>1
<1>5. \E f \in [Nat -> S] : f = F[f]
  <2>1. S # {}
    <3>1. 0 \in Nat /\ 0 < 10
      OBVIOUS
    <3> QED BY <1>1, <3>1
  <2> HIDE DEF S, F
  <2> QED BY <1>3, <1>4, <2>1, RecursionExists
<1>6. PICK f \in [Nat -> S] : f = [n \in Nat |->
                   IF n < 10 THEN <<48 + n>> ELSE Append(f[n \div 10], 48 + (n % 10))]
  BY <1>5
<1>7. Decimal = [n \in Nat |->
           IF n < 10 THEN <<48 + n>> ELSE Append(Decimal[n \div 10], 48 + (n % 10))]
  BY <1>6 DEF Decimal
<1>8. \A n \in Nat : Decimal[n] =
           IF n < 10 THEN <<48 + n>> ELSE Append(Decimal[n \div 10], 48 + (n % 10))
  BY <1>7
<1>9. \A n \in Nat : Decimal[n] \in Seq(Octet)
  <2> DEFINE D == {n \in Nat : Decimal[n] \notin Seq(Octet)}
  <2> SUFFICES ASSUME D # {} PROVE FALSE
    OBVIOUS
  <2>1. PICK m \in D : \A n \in D : m <= n
    <3> D \in SUBSET Nat
      OBVIOUS
    <3> HIDE DEF D
    <3> QED BY LeastNumber
  <2>2. m \in Nat /\ (m >= 10 => Decimal[m \div 10] \in Seq(Octet))
    <3>1. m \in Nat /\ \A n \in Nat : n < m => Decimal[n] \in Seq(Octet)
      <4>1. m \in Nat
        BY <2>1, Zenon
      <4>2. \A n \in Nat : Decimal[n] \notin Seq(Octet) => m <= n
        BY <2>1, Zenon
      <4>3. \A n \in Nat : m <= n => ~(n < m)
        BY <4>1
      <4> HIDE DEF D
      <4> QED BY <4>1, <4>2, <4>3, Zenon
    <3> DEFINE q == m \div 10
    <3>2. m >= 10 => q \in Nat /\ q < m
      <4>1. m \in Nat
        BY <3>1
      <4> QED BY <1>2, <4>1, Zenon
    <3> HIDE DEF q
    <3>3. m >= 10 => Decimal[q] \in Seq(Octet)
      BY <3>1, <3>2
    <3> QED BY <3>1, <3>3 DEF q
  <2>3. CASE m < 10
    <3>1. Decimal[m] = <<48 + m>> /\ <<48 + m>> \in Seq(Octet)
      BY <1>1, <1>8, <2>2, <2>3
    <3> QED BY <2>1, <3>1
  <2>4. CASE m >= 10
    <3>1. Decimal[m] = Append(Decimal[m \div 10], 48 + (m % 10))
      <4>1. ~(m < 10)
        BY <2>2, <2>4
      <4> QED BY <1>8, <2>2, <4>1
    <3>2. Append(Decimal[m \div 10], 48 + (m % 10)) \in Seq(Octet)
      <4>1. \A s \in Seq(Octet) : \A b \in Octet : Append(s, b) \in Seq(Octet)
        OBVIOUS
      <4> QED BY <1>2, <2>2, <2>4, <4>1
    <3> QED BY <2>1, <3>1, <3>2
  <2> QED BY <2>2, <2>3, <2>4
<1>10. Decimal \in [Nat -> Seq(Octet)]
  <2>1. Decimal = [n \in Nat |-> Decimal[n]]
    BY <1>7
  <2> QED BY <1>9, <2>1
<1> QED BY <1>8, <1>10

\* atoi on a text that is a number and ends there or in front of another character.
LEMMA AtoiIs ==
    ASSUME NEW text \in Seq(Octet)
    PROVE  \E d \in 0 .. Len(text) : \E v \in [0 .. d -> Nat] :
             /\ \A i \in 1 .. d : text[i] \in Digit
             /\ d < Len(text) => text[d + 1] \notin Digit
             /\ v[0] = 0
             /\ \A k \in 1 .. d : v[k] = 10 * v[k - 1] + text[k] - 48
             /\ atoi(text) = v[d]
<1> DEFINE other == FindNonDigit(text)
           d == IF other = 0 THEN Len(text) ELSE other - 1
           S == Nat
           F == [f \in [Nat -> S] |-> [k \in Nat |->
                    IF k = 0 THEN 0 ELSE IF k > d THEN 0 ELSE 10 * f[k - 1] + text[k] - 48]]
<1>1. /\ d \in 0 .. Len(text)
      /\ \A i \in 1 .. d : text[i] \in Digit
      /\ d < Len(text) => text[d + 1] \notin Digit
  <2>1. /\ other \in 0 .. Len(text)
        /\ other = 0 => \A i \in 1 .. Len(text) : text[i] \in Digit
        /\ other # 0 => text[other] \notin Digit /\ \A i \in 1 .. other - 1 : text[i] \in Digit
    BY NoDigitAt
  <2> HIDE DEF other
  <2> QED BY <2>1
<1> HIDE DEF d
<1>0. \A x \in Nat : \A y \in 48 .. 57 : 10 * x + y - 48 \in Nat
  OBVIOUS
<1>2. F \in [[Nat -> S] -> [Nat -> S]]
  <2>1. ASSUME NEW f \in [Nat -> S], NEW k \in Nat, k # 0, ~(k > d)
        PROVE  10 * f[k - 1] + text[k] - 48 \in S
    <3>1. k - 1 \in Nat /\ k \in 1 .. d
      BY <1>1, <2>1
    <3>2. f[k - 1] \in Nat
      BY <3>1
    <3>3. text[k] \in 48 .. 57
      BY <1>1, <3>1 DEF Digit
    <3> QED BY <1>0, <3>2, <3>3
  <2> QED BY <2>1
<1>3. ASSUME NEW f \in [Nat -> S], NEW g \in [Nat -> S], NEW k \in Nat,
             \A i \in Nat : i < k => f[i] = g[i]
      PROVE  F[f][k] = F[g][k]
  <2>1. k # 0 => f[k - 1] = g[k - 1]
    BY <1>3
  <2> QED BY <2>1
<1>4. \E f \in [Nat -> S] : f = F[f]
  <2>1. S # {}
    OBVIOUS
  <2> HIDE DEF S, F
  <2> QED BY <1>2, <1>3, <2>1, RecursionExists
<1>5. PICK h \in [Nat -> S] : h = [k \in Nat |->
                    IF k = 0 THEN 0 ELSE IF k > d THEN 0 ELSE 10 * h[k - 1] + text[k] - 48]
  BY <1>4
<1> DEFINE Sol(g) == g = [k \in 0 .. d |-> IF k = 0 THEN 0 ELSE 10 * g[k - 1] + text[k] - 48]
           value == CHOOSE g : Sol(g)
           w == [k \in 0 .. d |-> h[k]]
<1>6. Sol(w)
  <2>1. ASSUME NEW k \in 0 .. d
        PROVE  h[k] = IF k = 0 THEN 0 ELSE 10 * w[k - 1] + text[k] - 48
    <3>1. k \in Nat /\ ~(k > d) /\ (k # 0 => k - 1 \in 0 .. d)
      BY <1>1
    <3> QED BY <1>5, <3>1
  <2> QED BY <2>1
<1>7. Sol(value)
  <2> HIDE DEF Sol, w
  <2> QED BY <1>6
<1>8. atoi(text) = value[d]
  BY Zenon DEF atoi, d, other, value, Sol
<1> HIDE DEF value, F, w
<1>9. value[0] = 0 /\ \A k \in 1 .. d : value[k] = 10 * value[k - 1] + text[k] - 48
  <2>1. \A k \in 0 .. d : value[k] = IF k = 0 THEN 0 ELSE 10 * value[k - 1] + text[k] - 48
    BY <1>7, Zenon
  <2>2. 0 \in 0 .. d /\ \A k \in 1 .. d : k \in 0 .. d /\ k # 0
    BY <1>1
  <2> QED BY <2>1, <2>2, Zenon
<1>10. \A k \in Nat : k <= d => value[k] \in Nat
  <2> DEFINE P == {k \in Nat : k <= d => value[k] \in Nat}
  <2>1. 0 \in P
    BY <1>9
  <2>2. ASSUME NEW k \in Nat, k \in P
        PROVE  k + 1 \in P
    <3> SUFFICES ASSUME k + 1 <= d PROVE value[k + 1] \in Nat
      OBVIOUS
    <3>1. k + 1 \in 1 .. d /\ k + 1 - 1 = k /\ value[k] \in Nat
      BY <1>1, <2>2
    <3>2. text[k + 1] \in 48 .. 57
      BY <1>1, <3>1 DEF Digit
    <3>3. value[k + 1] = 10 * value[k] + text[k + 1] - 48
      BY <1>9, <3>1
    <3> QED BY <1>0, <3>1, <3>2, <3>3
  <2> HIDE DEF P
  <2>3. \A k \in Nat : k \in P
    BY <2>1, <2>2, AllNumbers
  <2> QED BY <2>3 DEF P
<1>11. value \in [0 .. d -> Nat]
  <2>1. value = [k \in 0 .. d |-> value[k]]
    BY <1>7
  <2>2. \A k \in 0 .. d : value[k] \in Nat
    BY <1>1, <1>10
  <2> QED BY <2>1, <2>2
<1> QED BY <1>1, <1>8, <1>9, <1>11

\* v[k] is the number that the first k digits of a text are.
Counts(text, v) ==
    /\ v \in [0 .. Len(text) -> Nat]
    /\ v[0] = 0
    /\ \A k \in 1 .. Len(text) : v[k] = 10 * v[k - 1] + text[k] - 48

\* The digits of a number are digits, and are that number.
LEMMA DecimalCounts ==
    ASSUME NEW p \in Nat
    PROVE  /\ Decimal[p] \in Seq(Octet) /\ Decimal[p] # <<>>
           /\ \A i \in 1 .. Len(Decimal[p]) : Decimal[p][i] \in Digit
           /\ \A v : Counts(Decimal[p], v) => v[Len(Decimal[p])] = p
<1> DEFINE Good(n) == /\ Decimal[n] # <<>>
                      /\ \A i \in 1 .. Len(Decimal[n]) : Decimal[n][i] \in Digit
                      /\ \A v : Counts(Decimal[n], v) => v[Len(Decimal[n])] = n
           D == {n \in Nat : ~Good(n)}
<1>1. ASSUME NEW n \in Nat, n < 10
      PROVE  Good(n)
  <2>1. Decimal[n] = <<48 + n>>
    BY <1>1, DecimalIs
  <2>2. 48 + n \in Digit /\ 1 \in 1 .. 1 /\ 1 - 1 = 0
    BY <1>1 DEF Digit
  <2>3. ASSUME NEW v, Counts(<<48 + n>>, v)
        PROVE  v[1] = n
    <3>1. v[0] = 0 /\ \A k \in 1 .. 1 : v[k] = 10 * v[k - 1] + <<48 + n>>[k] - 48
      BY <2>3 DEF Counts
    <3>2. v[1] = 10 * v[0] + (48 + n) - 48
      BY <2>2, <3>1
    <3> QED BY <3>1, <3>2
  <2> QED BY <2>1, <2>2, <2>3
<1>2. ASSUME NEW n \in Nat, n >= 10, NEW h \in Nat, h = n \div 10, Good(h)
      PROVE  Good(n)
  <2> DEFINE s == Decimal[h]
             x == 48 + (n % 10)
             t == Append(s, x)
             m == Len(s)
  <2>1. Decimal[n] = t
    <3>1. ~(n < 10)
      BY <1>2
    <3> QED BY <1>2, <3>1, DecimalIs
  <2>2. x \in Digit /\ x \in Octet /\ 10 * h + x - 48 = n
    BY <1>2 DEF Digit, Octet
  <2>3. s \in Seq(Octet)
    BY DecimalIs
  <2> HIDE DEF s, x
  <2>4. /\ t \in Seq(Octet) /\ Len(t) = m + 1 /\ t[m + 1] = x /\ \A i \in 1 .. m : t[i] = s[i]
        /\ m \in Nat
    BY <2>2, <2>3, AppendProperties
  <2>5. t # <<>>
    BY <2>4
  <2> HIDE DEF t
  <2>6. \A i \in 1 .. Len(t) : t[i] \in Digit
    <3> SUFFICES ASSUME NEW i \in 1 .. m + 1 PROVE t[i] \in Digit
      BY <2>4
    <3>1. CASE i = m + 1
      BY <2>2, <2>4, <3>1
    <3>2. CASE i # m + 1
      <4>1. i \in 1 .. m
        BY <2>4, <3>2
      <4>2. s[i] \in Digit
        BY <1>2, <4>1 DEF s
      <4> QED BY <2>4, <4>1, <4>2
    <3> QED BY <3>1, <3>2
  <2>7. ASSUME NEW v, Counts(t, v)
        PROVE  v[m + 1] = n
    <3> DEFINE w == [k \in 0 .. m |-> v[k]]
    <3>1. /\ v \in [0 .. m + 1 -> Nat] /\ v[0] = 0
          /\ \A k \in 1 .. m + 1 : v[k] = 10 * v[k - 1] + t[k] - 48
      BY <2>4, <2>7 DEF Counts
    <3> HIDE DEF m
    <3>2. Counts(s, w)
      <4>1. \A k \in 0 .. m : k \in 0 .. m + 1 /\ v[k] \in Nat
        BY <2>4, <3>1
      <4>2. w \in [0 .. m -> Nat]
        BY <4>1
      <4>3. w[0] = 0
        BY <2>4, <3>1
      <4>4. ASSUME NEW k \in 1 .. m PROVE w[k] = 10 * w[k - 1] + s[k] - 48
        <5>1. k \in 0 .. m /\ k - 1 \in 0 .. m /\ k \in 1 .. m + 1
          BY <2>4
        <5>2. w[k] = v[k] /\ w[k - 1] = v[k - 1] /\ t[k] = s[k]
          BY <2>4, <5>1
        <5>3. v[k] = 10 * v[k - 1] + t[k] - 48
          BY <3>1, <5>1
        <5> HIDE DEF w
        <5> QED BY <5>2, <5>3
      <4> HIDE DEF w
      <4> QED BY <4>2, <4>3, <4>4 DEF Counts, m
    <3>3. w[m] = h
      <4> HIDE DEF w
      <4> QED BY <1>2, <3>2 DEF s, m
    <3>4. v[m] = h
      BY <2>4, <3>3
    <3>5. v[m + 1] = 10 * v[m] + x - 48
      <4>1. m + 1 \in 1 .. m + 1 /\ m + 1 - 1 = m
        BY <2>4
      <4> QED BY <2>4, <3>1, <4>1
    <3> QED BY <2>2, <3>4, <3>5
  <2> QED BY <2>1, <2>4, <2>5, <2>6, <2>7 DEF m
<1>3. D = {}
  <2> SUFFICES ASSUME D # {} PROVE FALSE
    OBVIOUS
  <2>1. PICK m \in D : \A n \in D : m <= n
    <3> D \in SUBSET Nat
      OBVIOUS
    <3> HIDE DEF D
    <3> QED BY LeastNumber
  <2> HIDE DEF Good
  <2>2. m \in Nat /\ ~Good(m) /\ \A n \in Nat : n < m => Good(n)
    BY <2>1
  <2>3. PICK h \in Nat : h = m \div 10 /\ (m >= 10 => h < m)
    BY <2>2
  <2>4. m >= 10
    BY <1>1, <2>2
  <2> QED BY <1>2, <2>2, <2>3, <2>4
<1> HIDE DEF Good
<1>4. Good(p)
  BY <1>3
<1>5. Decimal[p] \in Seq(Octet)
  BY DecimalIs
<1> QED BY <1>4, <1>5 DEF Good

\* atoi reads the digits of a number as that number.
LEMMA AtoiReadsDecimal ==
    ASSUME NEW p \in Nat
    PROVE  atoi(Decimal[p]) = p
<1> DEFINE t == Decimal[p]
<1>1. /\ t \in Seq(Octet)
      /\ \A i \in 1 .. Len(t) : t[i] \in Digit
      /\ \A v : Counts(t, v) => v[Len(t)] = p
  BY DecimalCounts
<1> HIDE DEF t
<1>2. PICK d \in 0 .. Len(t) : \E v \in [0 .. d -> Nat] :
             /\ d < Len(t) => t[d + 1] \notin Digit
             /\ v[0] = 0
             /\ \A k \in 1 .. d : v[k] = 10 * v[k - 1] + t[k] - 48
             /\ atoi(t) = v[d]
  <2>1. \E d \in 0 .. Len(t) : \E v \in [0 .. d -> Nat] :
             /\ \A i \in 1 .. d : t[i] \in Digit
             /\ d < Len(t) => t[d + 1] \notin Digit
             /\ v[0] = 0
             /\ \A k \in 1 .. d : v[k] = 10 * v[k - 1] + t[k] - 48
             /\ atoi(t) = v[d]
    BY <1>1, AtoiIs
  <2> QED BY <2>1
<1>3. d = Len(t)
  <2> SUFFICES ASSUME d # Len(t) PROVE FALSE
    OBVIOUS
  <2>1. d < Len(t) /\ d + 1 \in 1 .. Len(t)
    BY <1>1
  <2> QED BY <1>1, <1>2, <2>1
<1>4. PICK v \in [0 .. d -> Nat] :
             /\ v[0] = 0
             /\ \A k \in 1 .. d : v[k] = 10 * v[k - 1] + t[k] - 48
             /\ atoi(t) = v[d]
  BY <1>2
<1>5. Counts(t, v)
  BY <1>3, <1>4 DEF Counts
<1> QED BY <1>1, <1>3, <1>4, <1>5 DEF t

\* atoi returns a number.
LEMMA AtoiType ==
    ASSUME NEW text \in Seq(Octet)
    PROVE  atoi(text) \in Nat
<1>1. PICK d \in 0 .. Len(text) : \E v \in [0 .. d -> Nat] : atoi(text) = v[d]
  BY AtoiIs
<1>2. d \in 0 .. d
  OBVIOUS
<1> QED BY <1>1, <1>2

LEMMA CharOfBoth ==
    ASSUME NEW a \in Seq(Octet), NEW b \in Seq(Octet), NEW c
    PROVE  c \in ToSet(a \o b) <=> c \in ToSet(a) \/ c \in ToSet(b)
<1> DEFINE t == a \o b
           n == Len(a)
           m == Len(b)
<1>1. /\ t \in Seq(Octet) /\ Len(t) = n + m
      /\ \A x \in 1 .. n + m : t[x] = IF x <= n THEN a[x] ELSE b[x - n]
  BY ConcatProperties
<1>2. n \in Nat /\ m \in Nat
  OBVIOUS
<1>3. /\ c \in ToSet(t) <=> \E x \in 1 .. n + m : t[x] = c
      /\ c \in ToSet(a) <=> \E x \in 1 .. n : a[x] = c
      /\ c \in ToSet(b) <=> \E x \in 1 .. m : b[x] = c
  <2> HIDE DEF t
  <2> QED BY <1>1, CharOf
<1> HIDE DEF t, n, m
<1>4. ASSUME NEW x \in 1 .. n + m, t[x] = c
      PROVE  (\E y \in 1 .. n : a[y] = c) \/ (\E y \in 1 .. m : b[y] = c)
  <2>1. CASE x <= n
    <3>1. x \in 1 .. n /\ a[x] = c
      BY <1>1, <1>2, <1>4, <2>1
    <3> QED BY <3>1
  <2>2. CASE ~(x <= n)
    <3> DEFINE y == x - n
    <3>1. y \in 1 .. m
      BY <1>2, <2>2
    <3>2. b[y] = c
      BY <1>1, <1>4, <2>2
    <3> HIDE DEF y
    <3> QED BY <3>1, <3>2
  <2> QED BY <2>1, <2>2
<1>5. ASSUME NEW x \in 1 .. n, a[x] = c
      PROVE  \E y \in 1 .. n + m : t[y] = c
  <2>1. x \in 1 .. n + m /\ x <= n
    BY <1>2
  <2> QED BY <1>1, <1>5, <2>1
<1>6. ASSUME NEW x \in 1 .. m, b[x] = c
      PROVE  \E y \in 1 .. n + m : t[y] = c
  <2> DEFINE y == x + n
  <2>1. y \in 1 .. n + m /\ ~(y <= n) /\ y - n = x
    BY <1>2
  <2> HIDE DEF y
  <2> QED BY <1>1, <1>6, <2>1
<1>7. (\E x \in 1 .. n + m : t[x] = c) <=>
          (\E x \in 1 .. n : a[x] = c) \/ (\E x \in 1 .. m : b[x] = c)
  BY <1>4, <1>5, <1>6
<1> QED BY <1>3, <1>7 DEF t

\* What is behind a text.
LEMMA BehindText ==
    ASSUME NEW a \in Seq(Octet), NEW b \in Seq(Octet)
    PROVE  SubSeq(a \o b, Len(a) + 1, Len(a \o b)) = b
<1> DEFINE t == a \o b
           n == Len(a)
           m == Len(b)
           i == n + 1
           j == Len(t)
           z == SubSeq(t, i, j)
<1>1. /\ t \in Seq(Octet) /\ Len(t) = n + m
      /\ \A x \in 1 .. n + m : t[x] = IF x <= n THEN a[x] ELSE b[x - n]
  BY ConcatProperties
<1>2. n \in Nat /\ m \in Nat
  OBVIOUS
<1> HIDE DEF t, n, m
<1>3. i \in Nat \ {0} /\ j \in 0 .. Len(t) /\ i <= j + 1 /\ j - i + 1 = m
      /\ \A x \in 1 .. m : i + x - 1 = n + x
  <2>1. Len(t) = n + m
    BY <1>1
  <2> QED BY <1>2, <2>1
<1> HIDE DEF i, j
<1>4. z \in Seq(Octet) /\ Len(z) = m /\ \A x \in 1 .. m : z[x] = t[i + x - 1]
  <2>1. t \in Seq(Octet)
    BY <1>1
  <2> QED BY <1>3, <2>1, Part
<1>5. \A x \in 1 .. m : z[x] = b[x]
  <2> SUFFICES ASSUME NEW x \in 1 .. m PROVE z[x] = b[x]
    OBVIOUS
  <2> DEFINE y == i + x - 1
  <2>1. y \in 1 .. n + m /\ ~(y <= n) /\ y - n = x
    BY <1>2, <1>3
  <2>2. z[x] = t[y]
    BY <1>4
  <2> HIDE DEF y, z
  <2> QED BY <1>1, <2>1, <2>2
<1> HIDE DEF z
<1>6. z = b
  BY <1>4, <1>5, SameText DEF m
<1> QED BY <1>6 DEF z, t, i, j, n

\* The first character of its kind.
LEMMA FindIs ==
    ASSUME NEW c \in Octet, NEW a \in Seq(Octet), NEW b \in Seq(Octet), c \notin ToSet(a)
    PROVE  Find(a \o (<<c>> \o b), c) = Len(a) + 1
<1> DEFINE d == <<c>> \o b
           t == a \o d
           n == Len(a)
           k == Find(t, c)
<1>1. d \in Seq(Octet) /\ Len(d) \in Nat \ {0} /\ d[1] = c
  <2>1. <<c>> \in Seq(Octet) /\ Len(<<c>>) = 1 /\ <<c>>[1] = c
    OBVIOUS
  <2> QED BY <2>1, ConcatProperties
<1> HIDE DEF d
<1>2. /\ t \in Seq(Octet) /\ Len(t) = n + Len(d)
      /\ \A x \in 1 .. n + Len(d) : t[x] = IF x <= n THEN a[x] ELSE d[x - n]
  BY <1>1, ConcatProperties
<1>3. n \in Nat /\ \A x \in 1 .. n : a[x] # c
  BY CharOf
<1> HIDE DEF t, n
<1>4. t[n + 1] = c /\ n + 1 \in 1 .. Len(t)
  <2> DEFINE x == n + 1
  <2>1. x \in 1 .. n + Len(d) /\ ~(x <= n) /\ x - n = 1
    BY <1>1, <1>3
  <2> HIDE DEF x
  <2>2. t[x] = c /\ x \in 1 .. Len(t)
    BY <1>1, <1>2, <2>1
  <2> QED BY <2>2 DEF x
<1>5. \A x \in 1 .. n : t[x] # c
  <2> SUFFICES ASSUME NEW x \in 1 .. n PROVE t[x] # c
    OBVIOUS
  <2>1. x \in 1 .. n + Len(d) /\ x <= n
    BY <1>1, <1>3
  <2> QED BY <1>2, <1>3, <2>1
<1>6. /\ k \in 0 .. Len(t)
      /\ k = 0 => \A i \in 1 .. Len(t) : t[i] # c
      /\ k # 0 => t[k] = c /\ \A i \in 1 .. k - 1 : t[i] # c
  BY <1>2, FoundAt
<1> HIDE DEF k
<1>7. k # 0
  BY <1>4, <1>6
<1>8. ~(k < n + 1)
  <2> SUFFICES ASSUME k < n + 1 PROVE FALSE
    OBVIOUS
  <2>1. k \in 1 .. n
    BY <1>3, <1>6, <1>7
  <2> QED BY <1>5, <1>6, <1>7, <2>1
<1>9. ~(n + 1 < k)
  <2> SUFFICES ASSUME n + 1 < k PROVE FALSE
    OBVIOUS
  <2>1. n + 1 \in 1 .. k - 1
    BY <1>3, <1>6
  <2> QED BY <1>4, <1>6, <1>7, <2>1
<1>10. k = n + 1
  BY <1>3, <1>6, <1>8, <1>9
<1> QED BY <1>10 DEF k, t, d, n

\* The URL is a text.
LEMMA WrittenType ==
    ASSUME NEW u \in Urls
    PROVE  /\ Written(u) \in Seq(Octet)
           /\ u.scheme \in Seq(Octet) /\ u.host \in Seq(Octet) /\ u.path \in Seq(Octet)
<1>1. /\ u.scheme \in Seq(Octet) /\ u.host \in Seq(Octet) /\ u.path \in Seq(Octet)
      /\ u.port \in Nat \union {NoPort}
  <2>1. {u.scheme, u.host, u.path} \subseteq Seq(Octet \ {NUL})
        /\ u.port \in Nat \union {NoPort}
    BY UrlsAssumption
  <2>2. Seq(Octet \ {NUL}) \subseteq Seq(Octet)
    BY SeqMonotonic
  <2> QED BY <2>1, <2>2
<1>2. <<>> \in Seq(Octet) /\ <<Colon>> \in Seq(Octet) /\ <<Slash>> \in Seq(Octet)
      /\ <<Colon, Slash, Slash>> \in Seq(Octet)
  BY DEF Colon, Slash, Octet
<1> DEFINE a == IF u.scheme = <<>> THEN <<>> ELSE u.scheme \o <<Colon, Slash, Slash>>
           b == IF u.port = NoPort THEN <<>> ELSE <<Colon>> \o Decimal[u.port]
<1>3. a \in Seq(Octet)
  BY <1>1, <1>2, ConcatProperties
<1>4. b \in Seq(Octet)
  <2>1. u.port # NoPort => Decimal[u.port] \in Seq(Octet)
    BY <1>1, DecimalIs
  <2> QED BY <1>2, <2>1, ConcatProperties
<1>5. Written(u) = a \o u.host \o b \o <<Slash>> \o u.path
  BY Zenon DEF Written
<1> HIDE DEF a, b
<1>6. a \o u.host \in Seq(Octet)
  BY <1>1, <1>3, ConcatProperties
<1>7. a \o u.host \o b \in Seq(Octet)
  BY <1>4, <1>6, ConcatProperties
<1>8. a \o u.host \o b \o <<Slash>> \in Seq(Octet)
  BY <1>2, <1>7, ConcatProperties
<1>9. a \o u.host \o b \o <<Slash>> \o u.path \in Seq(Octet)
  BY <1>1, <1>8, ConcatProperties
<1> QED BY <1>1, <1>5, <1>9

\* What parse_url finds in a text are texts and a number.
LEMMA ParsedType ==
    ASSUME NEW w \in Seq(Octet), ~ParsesNothing(w)
    PROVE  parse_url(w) \in [host : Seq(Octet), port : Nat, path : Seq(Octet)]
<1>1. /\ \A c : \A t \in Seq(Octet) : strtok(t, c).token \in Seq(Octet)
      /\ \A c : \A t \in Seq(Octet) : strtok(t, c).rest \in Seq(Octet)
  BY StrtokType
<1>2. BehindProtocol(w) \in Seq(Octet)
  BY <1>1 DEF BehindProtocol
<1>3. BeforePort(w) \in Seq(Octet) /\ PortText(w) \in Seq(Octet)
  BY <1>1, <1>2 DEF BeforePort, PortText
<1>4. Path(w) \in Seq(Octet)
  <2> DEFINE i == AuthorityStart(w)
             n == Len(w)
  <2>1. strtok(w, Colon).token \in Seq(Octet)
    BY <1>1
  <2>2. i \in Nat \ {0} /\ n \in 0 .. Len(w) /\ i <= n + 1
    BY <2>1 DEF AuthorityStart, ParsesNothing
  <2>3. Rest(w) \in Seq(Octet)
    <3>1. Rest(w) = SubSeq(w, i, n)
      BY DEF Rest
    <3> HIDE DEF i, n
    <3> QED BY <2>2, <3>1, Part
  <2> DEFINE r == Rest(w)
             k == Find(r, Slash)
             j == k + 1
             m == Len(r)
  <2>4. k \in 0 .. Len(r)
    BY <2>3, FoundAt
  <2>5. j \in Nat \ {0} /\ m \in 0 .. Len(r) /\ j <= m + 1
    BY <2>3, <2>4
  <2>6. Path(w) = SubSeq(r, j, m)
    BY DEF Path
  <2> HIDE DEF r, k, j, m
  <2> QED BY <2>3, <2>5, <2>6, Part DEF r
<1>5. CASE HasPort(w)
  <2>1. parse_url(w) = [host |-> strtok(BeforePort(w), Slash).token,
                        port |-> atoi(PortText(w)), path |-> Path(w)]
    BY <1>5 DEF parse_url
  <2>2. atoi(PortText(w)) \in Nat
    BY <1>3, AtoiType
  <2>3. strtok(BeforePort(w), Slash).token \in Seq(Octet)
    BY <1>1, <1>3
  <2> QED BY <1>4, <2>1, <2>2, <2>3
<1>6. CASE ~HasPort(w)
  <2>1. parse_url(w) = [host |-> strtok(BehindProtocol(w), Slash).token,
                        port |-> 80, path |-> Path(w)]
    BY <1>6 DEF parse_url
  <2>2. strtok(BehindProtocol(w), Slash).token \in Seq(Octet)
    BY <1>1, <1>2
  <2> QED BY <1>4, <2>1, <2>2
<1> QED BY <1>5, <1>6

\* The separators of a URL are texts.
LEMMA SeparatorTexts ==
    /\ <<Colon>> \in Seq(Octet) /\ <<Slash>> \in Seq(Octet)
    /\ <<Slash, Slash>> \in Seq(Octet) /\ <<Colon, Slash, Slash>> \in Seq(Octet)
<1>1. Colon \in Octet /\ Slash \in Octet
  BY DEF Colon, Slash, Octet
<1> QED BY <1>1

\* What parse_url makes of a URL with a scheme whose port, if any, is behind its only
\* colon.
LEMMA ReadableUrl ==
    ASSUME NEW u \in Urls, Readable(u)
    PROVE  /\ HasPath(Written(u)) /\ ~ParsesNothing(Written(u))
           /\ Path(Written(u)) = u.path
           /\ parse_url(Written(u)) =
                 [host |-> u.host, path |-> u.path,
                  port |-> IF u.port = NoPort THEN 80 ELSE u.port]
<1> DEFINE w == Written(u)
           s == u.scheme
           h == u.host
           path == u.path
           C == <<Colon>>
           Sl == <<Slash>>
           SS == <<Slash, Slash>>
           CSS == <<Colon, Slash, Slash>>
           d == Decimal[u.port]
           P == IF u.port = NoPort THEN <<>> ELSE C \o d
           q == Sl \o path
           X == h \o (P \o q)
           B == SS \o X
<1>1. /\ s \in Seq(Octet) /\ h \in Seq(Octet) /\ path \in Seq(Octet) /\ w \in Seq(Octet)
  BY WrittenType
<1>2. /\ s # <<>> /\ h # <<>> /\ Slash \notin ToSet(h) /\ Colon \notin ToSet(h)
      /\ Colon \notin ToSet(s)
      /\ u.port \in Nat \union {NoPort}
      /\ u.port = NoPort => Colon \notin ToSet(path)
  <2>1. /\ h # <<>> /\ {Slash, Colon} \cap ToSet(h) = {} /\ {Slash, Colon} \cap ToSet(s) = {}
        /\ u.port \in Nat \union {NoPort}
    <3> HIDE DEF w
    <3> QED BY UrlsAssumption
  <2>2. s # <<>> /\ (u.port = NoPort => Colon \notin ToSet(path))
    BY Zenon DEF Readable
  <2> HIDE DEF w, s, h, path
  <2> QED BY <2>1, <2>2
<1>3. /\ C \in Seq(Octet) /\ Sl \in Seq(Octet) /\ SS \in Seq(Octet) /\ CSS \in Seq(Octet)
  BY SeparatorTexts
<1>29. Len(CSS) = 3 /\ CSS = C \o SS /\ Len(Sl) = 1
  OBVIOUS
<1>27. /\ Colon \in Octet /\ Slash \in Octet /\ Colon # Slash
       /\ ToSet(SS) = {Slash} /\ ToSet(Sl) = {Slash} /\ ToSet(C) = {Colon}
       /\ \A j \in 1 .. Len(SS) : SS[j] = Slash
  BY DEF Colon, Slash, Octet, ToSet
<1>4. u.port # NoPort =>
        /\ u.port \in Nat /\ d \in Seq(Octet) /\ d # <<>> /\ Slash \notin ToSet(d)
        /\ atoi(d) = u.port
  <2> SUFFICES ASSUME u.port # NoPort
               PROVE  /\ u.port \in Nat /\ d \in Seq(Octet) /\ d # <<>> /\ Slash \notin ToSet(d)
                      /\ atoi(d) = u.port
    OBVIOUS
  <2>1. u.port \in Nat
    BY <1>2
  <2>2. d \in Seq(Octet) /\ d # <<>> /\ \A i \in 1 .. Len(d) : d[i] \in Digit
    BY <2>1, DecimalCounts
  <2>3. atoi(d) = u.port
    BY <2>1, AtoiReadsDecimal
  <2> HIDE DEF d
  <2>4. Slash \notin ToSet(d)
    <3>1. Slash \notin Digit
      BY DEF Slash, Digit
    <3> QED BY <2>2, <3>1, CharOf
  <2> QED BY <2>1, <2>2, <2>3, <2>4
<1>5. w = s \o CSS \o h \o P \o Sl \o path
  BY <1>2, Zenon DEF Written
<1> HIDE DEF w, s, h, path, C, Sl, SS, CSS, d
<1>28. <<>> \in Seq(Octet)
  OBVIOUS
<1>6. P \in Seq(Octet)
  BY <1>3, <1>4, <1>28, TextsJoin
<1>7. u.port # NoPort => P = C \o d
  OBVIOUS
<1>8. u.port = NoPort => P = <<>>
  OBVIOUS
<1> HIDE DEF P
<1>9. q \in Seq(Octet)
  BY <1>1, <1>3, <1>29, TextsJoin
<1>10. P \o q \in Seq(Octet)
  <2> HIDE DEF q
  <2> QED BY <1>6, <1>9, TextsJoin
<1>11. X \in Seq(Octet)
  <2> HIDE DEF q
  <2> QED BY <1>1, <1>10, TextsJoin
<1>12. B \in Seq(Octet)
  <2> HIDE DEF X
  <2> QED BY <1>3, <1>11, TextsJoin
<1>13. s \o CSS \in Seq(Octet) /\ Len(s \o CSS) = Len(s) + 3 /\ Len(s) \in Nat
  BY <1>1, <1>3, <1>29, TextsJoin
\* The URL is the scheme, "://" and the rest.
<1>14. w = (s \o CSS) \o X
  <2> DEFINE a == s \o CSS
  <2>1. a \o h \in Seq(Octet)
    BY <1>1, <1>13, TextsJoin
  <2>2. a \o h \o P \in Seq(Octet)
    BY <1>6, <2>1, TextsJoin
  <2>3. w = (a \o h \o P) \o q
    <3> DEFINE b == a \o h \o P
    <3>1. b \in Seq(Octet) /\ Sl \in Seq(Octet) /\ path \in Seq(Octet) /\ w = (b \o Sl) \o path
      BY <1>1, <1>3, <1>5, <2>2
    <3> HIDE DEF b
    <3>2. w = b \o q
      BY <3>1, TextsAssociate
    <3> QED BY <3>2 DEF b
  <2> HIDE DEF q
  <2>4. w = (a \o h) \o (P \o q)
    BY <1>6, <1>9, <2>1, <2>3, TextsAssociate
  <2>5. w = a \o (h \o (P \o q))
    <3> DEFINE b == P \o q
    <3>1. a \in Seq(Octet) /\ h \in Seq(Octet) /\ b \in Seq(Octet) /\ w = (a \o h) \o b
      BY <1>1, <1>10, <1>13, <2>4
    <3> HIDE DEF a, b
    <3>2. w = a \o (h \o b)
      BY <3>1, TextsAssociate
    <3> QED BY <3>2 DEF b
  <2> QED BY <2>5 DEF a
<1>15. w = s \o (C \o B)
  <2>3. s \in Seq(Octet) /\ CSS \in Seq(Octet) /\ X \in Seq(Octet)
    BY <1>1, <1>3, <1>11
  <2> HIDE DEF X
  <2>1. (s \o CSS) \o X = s \o (CSS \o X)
    BY <2>3, TextsAssociate
  <2>2. CSS \o X = C \o (SS \o X)
    BY <1>3, <1>11, <1>29, TextsAssociate
  <2> QED BY <1>14, <2>1, <2>2
<1> HIDE DEF B
<1>16. strtok(w, Colon) = [token |-> s, rest |-> B]
  BY <1>1, <1>2, <1>3, <1>27, <1>12, <1>15, StrtokFirst DEF C
<1>17. BehindProtocol(w) = B /\ AuthorityStart(w) = Len(s \o CSS) + 1
  BY <1>13, <1>16 DEF BehindProtocol, AuthorityStart
<1>18. Rest(w) = X
  <2> DEFINE a == s \o CSS
  <2>1. SubSeq(a \o X, Len(a) + 1, Len(a \o X)) = X
    <3> HIDE DEF a, X
    <3> QED BY <1>11, <1>13, BehindText DEF a
  <2> QED BY <1>14, <1>17, <2>1 DEF Rest
<1>19. AuthorityStart(w) <= Len(w) + 1
  <2> DEFINE a == s \o CSS
  <2>1. Len(w) = Len(a) + Len(X)
    <3> HIDE DEF a, X
    <3> QED BY <1>11, <1>13, <1>14, TextsJoin DEF a
  <2>2. Len(X) \in Nat /\ Len(a) \in Nat
    <3> HIDE DEF a, X
    <3> QED BY <1>11, <1>13 DEF a
  <2> HIDE DEF a, X
  <2> QED BY <1>17, <2>1, <2>2 DEF a
\* The path.
<1>20. h \o P \in Seq(Octet) /\ Slash \notin ToSet(h \o P)
  <2>1. h \o P \in Seq(Octet)
    BY <1>1, <1>6, TextsJoin
  <2>2. Slash \notin ToSet(P)
    <3>1. CASE u.port = NoPort
      BY <1>8, <3>1 DEF ToSet
    <3>2. CASE u.port # NoPort
      BY <1>3, <1>27, <1>4, <1>7, <3>2, CharOfBoth
    <3> QED BY <3>1, <3>2
  <2> QED BY <1>27, <1>1, <1>2, <1>6, <2>1, <2>2, CharOfBoth
<1>21. X = (h \o P) \o q
  <2> HIDE DEF q
  <2>1. h \in Seq(Octet) /\ P \in Seq(Octet) /\ q \in Seq(Octet)
    BY <1>1, <1>6, <1>9
  <2> QED BY <2>1, Zenon, TextsAssociate
<1>22. Find(X, Slash) = Len(h \o P) + 1
  <2> DEFINE a == h \o P
  <2>1. Find(a \o (<<Slash>> \o path), Slash) = Len(a) + 1
    <3> HIDE DEF a
    <3> QED BY <1>1, <1>3, <1>27, <1>20, FindIs DEF a
  <2> QED BY <1>21, <2>1 DEF Sl
<1>23. Path(w) = path
  <2> DEFINE a == h \o P
             b == a \o Sl
  <2>1. b \in Seq(Octet) /\ Len(b) = Len(a) + 1
    <3>1. a \in Seq(Octet) /\ Sl \in Seq(Octet) /\ Len(Sl) = 1
      BY <1>3, <1>20, <1>29
    <3> HIDE DEF a
    <3> QED BY <3>1, TextsJoin
  <2>2. X = b \o path
    <3>1. a \in Seq(Octet) /\ Sl \in Seq(Octet) /\ path \in Seq(Octet) /\ X = a \o (Sl \o path)
      BY <1>1, <1>3, <1>20, <1>21
    <3> HIDE DEF a, X
    <3> QED BY <3>1, TextsAssociate
  <2>3. SubSeq(X, Len(b) + 1, Len(X)) = path
    <3> HIDE DEF b, X
    <3> QED BY <1>1, <2>1, <2>2, BehindText
  <2>4. Path(w) = SubSeq(X, Find(X, Slash) + 1, Len(X))
    BY <1>18, Zenon DEF Path
  <2> HIDE DEF X, a, b
  <2> QED BY <1>22, <2>1, <2>3, <2>4 DEF a
<1>24. HasPath(w)
  <2>1. Slash \in ToSet(q)
    BY <1>1, <1>3, <1>27, CharOfBoth
  <2>2. Slash \in ToSet(X)
    <3> HIDE DEF q, X
    <3> QED BY <1>27, <1>9, <1>20, <1>21, <2>1, CharOfBoth
  <2> QED BY <1>18, <2>2 DEF HasPath
<1>25. CASE u.port # NoPort
  <2>1. P \o q = C \o (d \o q)
    <3>1. C \in Seq(Octet) /\ d \in Seq(Octet) /\ q \in Seq(Octet) /\ P = C \o d
      BY <1>3, <1>4, <1>7, <1>9, <1>25
    <3> HIDE DEF q
    <3> QED BY <3>1, TextsAssociate
  <2>2. d \o q \in Seq(Octet)
    <3> HIDE DEF q
    <3> QED BY <1>4, <1>9, <1>25, TextsJoin
  <2> DEFINE f == d \o q
  <2>3. SS \o h \in Seq(Octet) /\ SS \o h # <<>> /\ Colon \notin ToSet(SS \o h)
    <3>1. SS \o h \in Seq(Octet) /\ Colon \notin ToSet(SS \o h)
      BY <1>1, <1>2, <1>3, <1>27, TextsJoin, CharOfBoth
    <3>2. SS \o h # <<>>
      BY <1>1, <1>2, <1>3, ConcatEqualIffEmpty
    <3> QED BY <3>1, <3>2
  <2>4. B = (SS \o h) \o (C \o f)
    <3> HIDE DEF q, f
    <3>1. C \o f \in Seq(Octet)
      BY <1>3, <2>2, TextsJoin DEF f
    <3>2. B = SS \o (h \o (C \o f))
      BY <2>1 DEF B, f
    <3> DEFINE r == C \o f
    <3>3. SS \in Seq(Octet) /\ h \in Seq(Octet) /\ r \in Seq(Octet) /\ B = SS \o (h \o r)
      BY <1>1, <1>3, <3>1, <3>2
    <3> HIDE DEF r
    <3>4. B = (SS \o h) \o r
      BY <3>3, TextsAssociate
    <3> QED BY <3>4 DEF r
  <2>5. strtok(B, Colon) = [token |-> SS \o h, rest |-> f]
    <3> DEFINE a == SS \o h
    <3>1. a \in Seq(Octet) /\ a # <<>> /\ Colon \notin ToSet(a) /\ f \in Seq(Octet)
          /\ B = a \o (<<Colon>> \o f)
      BY <2>2, <2>3, <2>4 DEF C
    <3> HIDE DEF a, f
    <3>2. strtok(B, Colon) = [token |-> a, rest |-> f]
      BY <1>3, <1>27, <3>1, StrtokFirst
    <3> QED BY <3>2 DEF a
  <2>6. strtok(f, Slash) = [token |-> d, rest |-> path]
    BY <1>1, <1>3, <1>27, <1>4, <1>25, StrtokFirst DEF Sl
  <2>7. BeforePort(w) = SS \o h /\ PortText(w) = d
    <3> HIDE DEF f
    <3> QED BY <1>17, <2>5, <2>6 DEF BeforePort, PortText
  <2>8. strtok(SS \o h, Slash).token = h
    <3>1. \A j \in 1 .. Len(h) : h[j] # Slash
      BY <1>1, <1>2, CharOf
    <3>2. strtok(SS \o h, Slash) = [token |-> h, rest |-> <<>>]
      BY <1>1, <1>2, <1>3, <1>27, <1>28, <3>1, StrtokOf
    <3> QED BY <3>2
  <2>9. HasPort(w)
    <3>1. Colon \in ToSet(C \o f)
      <4> HIDE DEF f
      <4> QED BY <1>3, <1>27, <2>2, CharOfBoth DEF f
    <3>2. Colon \in ToSet(X)
      <4>1. X = h \o (C \o f)
        BY <2>1
      <4>2. C \o f \in Seq(Octet)
        BY <1>10, <2>1
      <4> HIDE DEF f, X
      <4> QED BY <1>27, <1>1, <3>1, <4>1, <4>2, CharOfBoth
    <3> QED BY <1>18, <3>2 DEF HasPort
  <2>10. parse_url(w) = [host |-> h, port |-> u.port, path |-> path]
    BY <1>4, <1>23, <1>25, <2>7, <2>8, <2>9 DEF parse_url
  <2>11. ~ParsesNothing(w)
    <3>1. PortText(w) # <<>> /\ parse_url(w).host # <<>>
      BY <1>2, <1>4, <1>25, <2>7, <2>10
    <3>2. ~(AuthorityStart(w) > Len(w) + 1)
      <4>1. Len(w) \in Nat /\ AuthorityStart(w) \in Nat
        BY <1>1, <1>13, <1>17
      <4> QED BY <1>19, <4>1
    <3> QED BY <3>1, <3>2 DEF ParsesNothing
  <2> QED BY <1>23, <1>24, <1>25, <2>10, <2>11 DEF w, h, path
<1>26. CASE u.port = NoPort
  <2>1. P \o q = q
    <3> HIDE DEF q
    <3> QED BY <1>8, <1>9, <1>26, ConcatEmptySeq
  <2>2. B = SS \o (h \o (<<Slash>> \o path))
    BY <2>1 DEF B, Sl
  <2>3. strtok(B, Slash).token = h
    <3>1. \A j \in 1 .. Len(h) : h[j] # Slash
      BY <1>1, <1>2, CharOf
    <3>2. SS \in Seq(Octet) /\ h \in Seq(Octet) /\ path \in Seq(Octet) /\ h # <<>>
          /\ Slash \in Octet /\ \A j \in 1 .. Len(SS) : SS[j] = Slash
      BY <1>1, <1>2, <1>3, <1>27
    <3>3. strtok(SS \o (h \o (<<Slash>> \o path)), Slash) = [token |-> h, rest |-> path]
      BY <3>1, <3>2, StrtokOf
    <3> QED BY <2>2, <3>3
  <2>4. ~HasPort(w)
    <3>1. Colon \notin ToSet(q)
      BY <1>1, <1>2, <1>3, <1>27, <1>26, CharOfBoth
    <3>2. Colon \notin ToSet(X)
      <4>1. X = h \o q
        BY <2>1
      <4> HIDE DEF q, X
      <4> QED BY <1>27, <1>1, <1>2, <1>9, <3>1, <4>1, CharOfBoth
    <3> QED BY <1>18, <3>2 DEF HasPort
  <2>5. parse_url(w) = [host |-> h, port |-> 80, path |-> path]
    BY <1>17, <1>23, <2>3, <2>4 DEF parse_url
  <2>6. ~ParsesNothing(w)
    <3>1. parse_url(w).host # <<>>
      BY <1>2, <2>5
    <3>2. ~(AuthorityStart(w) > Len(w) + 1)
      <4>1. Len(w) \in Nat /\ AuthorityStart(w) \in Nat
        BY <1>1, <1>13, <1>17
      <4> QED BY <1>19, <4>1
    <3> QED BY <2>4, <3>1, <3>2 DEF ParsesNothing
  <2> QED BY <1>23, <1>24, <1>26, <2>5, <2>6 DEF w, h, path
<1> QED BY <1>25, <1>26

-----------------------------------------------------------------------------
\* The receive buffer.

Cleaned == Filled(MAXRCVLEN + 1, NUL)

\* recv's octets in a clean buffer are a string up to their first NUL, and memset
\* makes the buffer clean again.
LEMMA PieceInBuffer ==
    ASSUME NEW d \in Seq(Octet), Len(d) <= MAXRCVLEN
    PROVE  LET b == Overwrite(Cleaned, d)
           IN  /\ CStr(b) \in Seq(Octet) /\ Len(CStr(b)) <= Len(d)
               /\ \A x \in 1 .. Len(CStr(b)) : CStr(b)[x] = d[x]
               /\ NUL \notin ToSet(d) => Len(CStr(b)) = Len(d)
               /\ Overwrite(b, Filled(Len(d), NUL)) = Cleaned
<1> DEFINE size == MAXRCVLEN + 1
           b == Overwrite(Cleaned, d)
           k == StrLen(b)
<1>1. size \in Nat /\ Len(d) \in Nat /\ Len(d) < size
  BY SizesAssumption
<1>2. Cleaned \in [1 .. size -> Octet] /\ Cleaned \in Seq(Octet) /\ Len(Cleaned) = size
      /\ \A x \in 1 .. size : Cleaned[x] = NUL
  <2>1. Cleaned \in [1 .. size -> Octet] /\ \A x \in 1 .. size : Cleaned[x] = NUL
    BY DEF Cleaned, Filled, NUL, Octet
  <2> HIDE DEF size
  <2> QED BY <1>1, <2>1, FunctionIsSeq
<1> HIDE DEF size
<1>3. /\ b \in Seq(Octet) /\ Len(b) = size
      /\ \A x \in 1 .. Len(d) : b[x] = d[x]
      /\ \A x \in Len(d) + 1 .. size : b[x] = NUL
  <2>1. /\ b \in [1 .. size -> Octet]
        /\ \A x \in 1 .. size : b[x] = IF x <= Len(d) THEN d[x] ELSE NUL
    BY <1>1, <1>2 DEF Overwrite
  <2>2. b \in Seq(Octet) /\ Len(b) = size
    <3> HIDE DEF b
    <3> QED BY <1>1, <2>1, FunctionIsSeq
  <2> QED BY <1>1, <2>1, <2>2
<1> HIDE DEF b
<1>4. Overwrite(b, Filled(Len(d), NUL)) = Cleaned
  <2>1. Len(Filled(Len(d), NUL)) = Len(d)
    <3>1. Filled(Len(d), NUL) \in [1 .. Len(d) -> Octet]
      BY DEF Filled, NUL, Octet
    <3> QED BY <1>1, <3>1, FunctionIsSeq
  <2>2. \A x \in 1 .. Len(d) : Filled(Len(d), NUL)[x] = NUL
    BY DEF Filled
  <2>3. Overwrite(b, Filled(Len(d), NUL)) = [x \in 1 .. size |-> NUL]
    <3>1. Overwrite(b, Filled(Len(d), NUL)) =
              [x \in 1 .. size |-> IF x <= Len(d) THEN Filled(Len(d), NUL)[x] ELSE b[x]]
      BY <1>3, <2>1, Zenon DEF Overwrite
    <3>2. \A x \in 1 .. size :
              (IF x <= Len(d) THEN Filled(Len(d), NUL)[x] ELSE b[x]) = NUL
      BY <1>1, <1>3, <2>2
    <3> QED BY <3>1, <3>2
  <2> QED BY <2>3 DEF Cleaned, Filled, size
<1>5. /\ k \in 0 .. size /\ IsStrLen(b, k)
      /\ CStr(b) \in Seq(Octet) /\ Len(CStr(b)) = k
      /\ \A x \in 1 .. k : CStr(b)[x] = b[x]
  BY <1>3, StrLenType
<1> HIDE DEF k
<1>6. k <= Len(d)
  <2> SUFFICES ASSUME k > Len(d) PROVE FALSE
    BY <1>1, <1>5
  <2>1. Len(d) + 1 \in 1 .. k /\ Len(d) + 1 \in Len(d) + 1 .. size
    BY <1>1, <1>5
  <2> QED BY <1>3, <1>5, <2>1 DEF IsStrLen
<1>7. NUL \notin ToSet(d) => k = Len(d)
  <2> SUFFICES ASSUME k < Len(d) PROVE NUL \in ToSet(d)
    BY <1>1, <1>5, <1>6
  <2>1. k + 1 \in 1 .. Len(d) /\ k < Len(b) /\ DOMAIN d = 1 .. Len(d)
    BY <1>1, <1>3, <1>5
  <2>2. d[k + 1] = NUL
    BY <1>3, <1>5, <2>1 DEF IsStrLen
  <2> QED BY <2>1, <2>2 DEF ToSet
<1> QED BY <1>1, <1>3, <1>4, <1>5, <1>6, <1>7 DEF b

\* ... as parts of the response: the string is what follows the octets received
\* before, and all of the piece if it has no NUL.
LEMMA PieceOfResponse ==
    ASSUME NEW r \in Seq(Octet), NEW p \in 0 .. Len(r), NEW n \in 1 .. MAXRCVLEN,
           p + n <= Len(r)
    PROVE  LET d == SubSeq(SubSeq(r, p + 1, Len(r)), 1, n)
               b == Overwrite(Cleaned, d)
           IN  /\ \E k \in 0 .. n : /\ CStr(b) = SubSeq(r, p + 1, p + k)
                                    /\ NUL \notin ToSet(r) => k = n
               /\ Overwrite(b, Filled(n, NUL)) = Cleaned
<1> DEFINE q == SubSeq(r, p + 1, Len(r))
           d == SubSeq(q, 1, n)
           b == Overwrite(Cleaned, d)
           k == Len(CStr(b))
<1>0. n \in Nat \ {0} /\ n <= MAXRCVLEN /\ p \in Nat /\ Len(r) \in Nat
  BY SizesAssumption
<1>1. q \in Seq(Octet) /\ Len(q) = Len(r) - p /\ \A x \in 1 .. Len(r) - p : q[x] = r[p + x]
  <2>1. p + 1 \in Nat \ {0} /\ Len(r) \in 0 .. Len(r) /\ p + 1 <= Len(r) + 1
        /\ Len(r) - (p + 1) + 1 = Len(r) - p
    BY <1>0
  <2>2. /\ q \in Seq(Octet) /\ Len(q) = Len(r) - p
        /\ \A x \in 1 .. Len(r) - p : q[x] = r[p + 1 + x - 1]
    BY <2>1, Part
  <2> QED BY <1>0, <2>2
<1> HIDE DEF q
<1>2. d \in Seq(Octet) /\ Len(d) = n /\ \A x \in 1 .. n : d[x] = r[p + x]
  <2>1. 1 \in Nat \ {0} /\ n \in 0 .. Len(q) /\ 1 <= n + 1 /\ n - 1 + 1 = n
    BY <1>0, <1>1
  <2>2. d \in Seq(Octet) /\ Len(d) = n /\ \A x \in 1 .. n : d[x] = q[1 + x - 1]
    BY <1>1, <2>1, Part
  <2>3. \A x \in 1 .. n : 1 + x - 1 = x /\ x \in 1 .. Len(r) - p
    BY <1>0
  <2> QED BY <1>1, <2>2, <2>3
<1> HIDE DEF d
<1>3. NUL \notin ToSet(r) => NUL \notin ToSet(d)
  <2> SUFFICES ASSUME NUL \in ToSet(d) PROVE NUL \in ToSet(r)
    OBVIOUS
  <2>1. PICK x \in 1 .. n : d[x] = NUL
    BY <1>2, CharOf
  <2>2. p + x \in 1 .. Len(r) /\ r[p + x] = NUL
    BY <1>0, <1>2, <2>1
  <2> QED BY <2>2, CharOf
<1>4. /\ CStr(b) \in Seq(Octet) /\ k <= n
      /\ \A x \in 1 .. k : CStr(b)[x] = d[x]
      /\ NUL \notin ToSet(r) => k = n
      /\ Overwrite(b, Filled(n, NUL)) = Cleaned
  BY <1>0, <1>2, <1>3, PieceInBuffer
<1> HIDE DEF b
<1>5. k \in 0 .. n
  BY <1>0, <1>4
<1>6. CStr(b) = SubSeq(r, p + 1, p + k)
  <2>1. p + 1 \in Nat \ {0} /\ p + k \in 0 .. Len(r) /\ p + 1 <= p + k + 1
        /\ p + k - (p + 1) + 1 = k
    BY <1>0, <1>5
  <2>2. /\ SubSeq(r, p + 1, p + k) \in Seq(Octet) /\ Len(SubSeq(r, p + 1, p + k)) = k
        /\ \A x \in 1 .. k : SubSeq(r, p + 1, p + k)[x] = r[p + 1 + x - 1]
    BY <2>1, Part
  <2>3. \A x \in 1 .. k : CStr(b)[x] = SubSeq(r, p + 1, p + k)[x]
    <3> SUFFICES ASSUME NEW x \in 1 .. k PROVE CStr(b)[x] = r[p + 1 + x - 1]
      BY <2>2
    <3>1. x \in 1 .. n /\ p + 1 + x - 1 = p + x
      BY <1>0, <1>5
    <3> QED BY <1>2, <1>4, <3>1
  <2> QED BY <1>4, <2>2, <2>3, SameText
<1> QED BY <1>4, <1>5, <1>6 DEF b, d, q, k

\* What is appended of a piece: all of it, nothing, or what is behind its first
\* separator.
LEMMA ContentOfPiece ==
    ASSUME NEW r \in Seq(Octet), NEW p \in Nat, NEW k \in Nat, p + k <= Len(r)
    PROVE  LET t == SubSeq(r, p + 1, p + k)
           IN  /\ htmlstart => Content(t) = t
               /\ ~htmlstart /\ SeparatorsIn(t) = {} => Content(t) = <<>>
               /\ ~htmlstart /\ SeparatorsIn(t) # {} =>
                    \E s \in SeparatorsIn(t) :
                        /\ s \in 1 .. k - 3
                        /\ \A y \in SeparatorsIn(t) : s <= y
                        /\ Content(t) = SubSeq(r, p + s + 4, p + k)
<1> DEFINE t == SubSeq(r, p + 1, p + k)
<1> SUFFICES ASSUME ~htmlstart, SeparatorsIn(t) # {}
             PROVE  \E s \in SeparatorsIn(t) :
                        /\ s \in 1 .. k - 3
                        /\ \A y \in SeparatorsIn(t) : s <= y
                        /\ Content(t) = SubSeq(r, p + s + 4, p + k)
  BY DEF Content
<1>1. t \in Seq(Octet) /\ Len(t) = k
  <2>1. p + 1 \in Nat \ {0} /\ p + k \in 0 .. Len(r) /\ p + 1 <= p + k + 1
        /\ p + k - (p + 1) + 1 = k
    OBVIOUS
  <2> QED BY <2>1, Part
<1> DEFINE s == Min(SeparatorsIn(t))
<1>2. s \in SeparatorsIn(t) /\ s \in 1 .. k - 3 /\ \A y \in SeparatorsIn(t) : s <= y
  <2>1. SeparatorsIn(t) \subseteq 1 .. k - 3
    <3> HIDE DEF t
    <3> QED BY <1>1, SeparatorIs
  <2>2. SeparatorsIn(t) \in SUBSET Nat
    BY <2>1
  <2> HIDE DEF t
  <2> QED BY <2>1, <2>2, MinIs
<1>3. Content(t) = SubSeq(t, s + 4, k)
  BY <1>1 DEF Content
<1> HIDE DEF s
<1>4. SubSeq(t, s + 4, k) = SubSeq(r, p + s + 4, p + k)
  <2> DEFINE i == p + 1
             j == p + k
             x == s + 4
  <2>1. i \in Nat \ {0} /\ j \in 0 .. Len(r) /\ i <= j + 1 /\ x \in 1 .. j - i + 2
        /\ j - i + 1 = k /\ i + x - 1 = p + s + 4
    BY <1>2
  <2>2. SubSeq(SubSeq(r, i, j), x, j - i + 1) = SubSeq(r, i + x - 1, j)
    <3> HIDE DEF i, j, x
    <3> QED BY <2>1, PartOfPart
  <2> QED BY <2>1, <2>2
<1> QED BY <1>2, <1>3, <1>4

\* Two parts that follow each other.
LEMMA Joined ==
    ASSUME NEW r \in Seq(Octet), NEW i \in Nat \ {0}, NEW p \in Nat, NEW j \in Nat,
           i <= p + 1, p <= j, j <= Len(r)
    PROVE  SubSeq(r, i, p) \o SubSeq(r, p + 1, j) = SubSeq(r, i, j)
<1> DEFINE a == SubSeq(r, i, p)
           b == SubSeq(r, p + 1, j)
           c == SubSeq(r, i, j)
           n == p - i + 1
           m == j - p
<1>1. a \in Seq(Octet) /\ Len(a) = n /\ \A x \in 1 .. n : a[x] = r[i + x - 1]
  <2>1. p \in 0 .. Len(r)
    OBVIOUS
  <2> QED BY <2>1, Part
<1>2. b \in Seq(Octet) /\ Len(b) = m /\ \A x \in 1 .. m : b[x] = r[p + 1 + x - 1]
  <2>1. p + 1 \in Nat \ {0} /\ j \in 0 .. Len(r) /\ p + 1 <= j + 1 /\ j - (p + 1) + 1 = m
    OBVIOUS
  <2> QED BY <2>1, Part
<1>3. c \in Seq(Octet) /\ Len(c) = n + m /\ \A x \in 1 .. n + m : c[x] = r[i + x - 1]
  <2>1. j \in 0 .. Len(r) /\ i <= j + 1 /\ j - i + 1 = n + m
    OBVIOUS
  <2> QED BY <2>1, Part
<1>4. n \in Nat /\ m \in Nat
  OBVIOUS
<1> HIDE DEF a, b, c
<1>5. /\ a \o b \in Seq(Octet) /\ Len(a \o b) = n + m
      /\ \A x \in 1 .. n + m : (a \o b)[x] = IF x <= n THEN a[x] ELSE b[x - n]
  <2> HIDE DEF n, m
  <2>1. /\ a \o b \in Seq(Octet) /\ Len(a \o b) = Len(a) + Len(b)
        /\ \A x \in 1 .. Len(a) + Len(b) :
              (a \o b)[x] = IF x <= Len(a) THEN a[x] ELSE b[x - Len(a)]
    BY <1>1, <1>2, ConcatProperties, Zenon
  <2> QED BY <1>1, <1>2, <2>1
<1>6. \A x \in 1 .. n + m : (a \o b)[x] = c[x]
  <2> SUFFICES ASSUME NEW x \in 1 .. n + m PROVE (a \o b)[x] = r[i + x - 1]
    BY <1>3
  <2>1. CASE x <= n
    <3>1. x \in 1 .. n /\ (a \o b)[x] = a[x]
      BY <1>4, <1>5, <2>1
    <3> QED BY <1>1, <3>1
  <2>2. CASE x > n
    <3>1. x - n \in 1 .. m /\ p + 1 + (x - n) - 1 = i + x - 1
      BY <1>4, <2>2
    <3>2. (a \o b)[x] = b[x - n]
      BY <1>4, <1>5, <2>2
    <3>3. b[x - n] = r[p + 1 + (x - n) - 1]
      BY <1>2, <3>1
    <3> QED BY <3>1, <3>2, <3>3
  <2> HIDE DEF n, m
  <2>3. x \in Nat
    BY <1>4
  <2>4. x <= n \/ x > n
    BY <1>4, <2>3
  <2> QED BY <2>1, <2>2, <2>4
<1>7. a \o b = c
  <2> HIDE DEF n, m
  <2> QED BY <1>3, <1>5, <1>6, SameText
<1> QED BY <1>7 DEF a, b, c

-----------------------------------------------------------------------------
\* The inductive invariant.

\* How many octets of the response have been received.
Reached == Len(response) - Len(stream)

\* Where the first separator of the response begins.
First == Min(SeparatorsIn(response))

\* The stream is the rest of the response, and the buffer is clean.
Types ==
    /\ response \in Seq(Octet) /\ page \in Seq(Octet) /\ htmlstart \in BOOLEAN
    /\ Reached \in 0 .. Len(response)
    /\ stream = SubSeq(response, Reached + 1, Len(response))
    /\ Reached \in ends
    /\ buf = Cleaned

\* Before the query is sent, nothing has come.
Early ==
    /\ pc = "parse" => info = NoInfo
    /\ pc \in {"parse", "resolve", "send"} =>
        /\ response = <<>> /\ stream = <<>> /\ page = <<>>
        /\ htmlstart = FALSE /\ ends = {0} /\ errors = FALSE

\* The page begins behind a separator: it is no longer than what has been received
\* behind the first one, NULs or not.
PageInside ==
    IF htmlstart
    THEN SeparatorsIn(response) # {} /\ Len(page) + First + 3 <= Reached
    ELSE page = <<>>

\* Without a NUL, the page is a part of the response that ends where it has been
\* received to.
PageFrom ==
    NUL \notin ToSet(response) =>
        \E from \in 1 .. Reached + 1 : page = SubSeq(response, from, Reached)

\* The separator can be found.
Findable ==
    NUL \notin ToSet(response) /\ SeparatorsIn(response) # {} /\ SeparatorWhole

\* ... and the page is what has been received of the body.
PageOfBody ==
    Findable =>
        IF htmlstart
        THEN First + 3 <= Reached /\ page = SubSeq(response, First + 4, Reached)
        ELSE Reached < First

\* All that is known of the page.
Kept == Types /\ PageInside /\ PageFrom /\ PageOfBody

\* After the connection is closed, nothing is missing.
Ended ==
    /\ pc \in {"write", "saved"} /\ ~errors => stream = <<>>
    /\ pc = "saved" /\ ~errors => file = page

IInv ==
    Types /\ Early /\ PageInside /\ PageFrom /\ PageOfBody /\ Ended /\ FitsBuffer

\* The string in the buffer after recv has returned n octets.
Text(n) == CStr(Overwrite(buf, SubSeq(stream, 1, n)))

\* ... is a part of the response.
LEMMA TextIs ==
    ASSUME Types, NEW n \in 1 .. MAXRCVLEN, n <= Len(stream)
    PROVE  /\ Reached \in Nat /\ Reached + n <= Len(response)
           /\ \E k \in 0 .. n :
                /\ Text(n) = SubSeq(response, Reached + 1, Reached + k)
                /\ NUL \notin ToSet(response) => k = n
           /\ Cleared(Overwrite(buf, SubSeq(stream, 1, n)), n) = Cleaned
<1> DEFINE p == Reached
           b == Overwrite(Cleaned, SubSeq(SubSeq(response, p + 1, Len(response)), 1, n))
<1>1. p \in 0 .. Len(response) /\ p + n <= Len(response) /\ response \in Seq(Octet)
  <2>1. Len(stream) \in Nat
    <3>1. /\ p + 1 \in Nat \ {0} /\ Len(response) \in 0 .. Len(response)
          /\ p + 1 <= Len(response) + 1
      BY DEF Types
    <3>2. SubSeq(response, p + 1, Len(response)) \in Seq(Octet)
      <4> HIDE DEF p
      <4> QED BY <3>1, Part DEF Types
    <3> QED BY <3>2 DEF Types
  <2>2. n \in Nat
    BY SizesAssumption
  <2> QED BY <2>1, <2>2 DEF Types, Reached
<1> HIDE DEF p
<1>2. /\ \E k \in 0 .. n : /\ CStr(b) = SubSeq(response, p + 1, p + k)
                           /\ NUL \notin ToSet(response) => k = n
      /\ Overwrite(b, Filled(n, NUL)) = Cleaned
  <2> HIDE DEF b
  <2> QED BY <1>1, PieceOfResponse DEF b
<1>3. Overwrite(buf, SubSeq(stream, 1, n)) = b
  BY DEF Types, p
<1> HIDE DEF b
<1>4. Text(n) = CStr(b)
  BY <1>3 DEF Text
<1>5. Cleared(Overwrite(buf, SubSeq(stream, 1, n)), n) = Cleaned
  BY <1>2, <1>3 DEF Cleared
<1>6. /\ p \in Nat
      /\ \E k \in 0 .. n : /\ Text(n) = SubSeq(response, p + 1, p + k)
                           /\ NUL \notin ToSet(response) => k = n
  BY <1>1, <1>2, <1>4
<1> QED BY <1>1, <1>5, <1>6, Zenon DEF p

\* The first separator of the response is before all of its separators.
LEMMA FirstIs ==
    ASSUME response \in Seq(Octet), SeparatorsIn(response) # {}
    PROVE  /\ First \in SeparatorsIn(response) /\ First \in 1 .. Len(response) - 3
           /\ \A y \in SeparatorsIn(response) : First <= y
<1>1. SeparatorsIn(response) \subseteq 1 .. Len(response) - 3
  BY SeparatorIs
<1>2. SeparatorsIn(response) \in SUBSET Nat
  BY <1>1
<1> QED BY <1>1, <1>2, MinIs DEF First

\* What a piece adds to the page.
LEMMA PageGrows ==
    ASSUME Types, PageInside, NEW n \in 1 .. MAXRCVLEN, n <= Len(stream)
    PROVE  \E k \in 0 .. n :
             /\ NUL \notin ToSet(response) => k = n
             /\ htmlstart =>
                    Content(Text(n)) = SubSeq(response, Reached + 1, Reached + k)
             /\ ~htmlstart /\ SeparatorsIn(Text(n)) = {} =>
                    /\ Content(Text(n)) = <<>>
                    /\ \A s \in 1 .. k - 3 : Reached + s \notin SeparatorsIn(response)
             /\ ~htmlstart /\ SeparatorsIn(Text(n)) # {} =>
                    \E s \in 1 .. k - 3 :
                        /\ Reached + s \in SeparatorsIn(response)
                        /\ \A y \in 1 .. k - 3 :
                             Reached + y \in SeparatorsIn(response) => s <= y
                        /\ Content(Text(n)) =
                             SubSeq(response, Reached + s + 4, Reached + k)
<1> DEFINE p == Reached
<1>1. p \in Nat /\ p + n <= Len(response) /\ response \in Seq(Octet)
  BY TextIs DEF Types
<1>2. PICK k \in 0 .. n : /\ Text(n) = SubSeq(response, p + 1, p + k)
                          /\ NUL \notin ToSet(response) => k = n
  BY TextIs
<1> DEFINE t == SubSeq(response, p + 1, p + k)
<1> HIDE DEF p
<1>3. k \in Nat /\ p + k <= Len(response)
  BY <1>1, <1>2, SizesAssumption
<1>4. \A s \in 1 .. k - 3 : s \in SeparatorsIn(t) <=> p + s \in SeparatorsIn(response)
  BY <1>1, <1>3, SeparatorsOfPart
<1>5. /\ htmlstart => Content(t) = t
      /\ ~htmlstart /\ SeparatorsIn(t) = {} => Content(t) = <<>>
      /\ ~htmlstart /\ SeparatorsIn(t) # {} =>
            \E s \in SeparatorsIn(t) :
                /\ s \in 1 .. k - 3
                /\ \A y \in SeparatorsIn(t) : s <= y
                /\ Content(t) = SubSeq(response, p + s + 4, p + k)
  BY <1>1, <1>3, ContentOfPiece
<1> HIDE DEF t
<1>6. Text(n) = t
  BY <1>2 DEF t
<1>7. ASSUME ~htmlstart, SeparatorsIn(t) # {}
      PROVE  \E s \in 1 .. k - 3 :
                 /\ p + s \in SeparatorsIn(response)
                 /\ \A y \in 1 .. k - 3 : p + y \in SeparatorsIn(response) => s <= y
                 /\ Content(t) = SubSeq(response, p + s + 4, p + k)
  BY <1>4, <1>5, <1>7
<1>8. ASSUME ~htmlstart, SeparatorsIn(t) = {}
      PROVE  Content(t) = <<>> /\ \A s \in 1 .. k - 3 : p + s \notin SeparatorsIn(response)
  BY <1>4, <1>5, <1>8
<1>9. htmlstart => Content(t) = SubSeq(response, p + 1, p + k)
  BY <1>5 DEF t
<1> QED BY <1>2, <1>6, <1>7, <1>8, <1>9 DEF p

\* A piece of the response leaves the invariant true.
LEMMA RecvKeeps ==
    ASSUME IInv, NEW n \in 1 .. MAXRCVLEN, Recv(n)
    PROVE  IInv'
<1> DEFINE p == Reached
           t == Text(n)
           c == Content(t)
<1> USE DEF IInv
<1>1. /\ pc = "recv" /\ n <= Len(stream)
      /\ page' = page \o c
      /\ htmlstart' = (htmlstart \/ SeparatorsIn(t) # {})
      /\ buf' = Cleared(Overwrite(buf, SubSeq(stream, 1, n)), n)
      /\ stream' = SubSeq(stream, n + 1, Len(stream))
      /\ ends' = ends \union {Len(response) - Len(stream')}
      /\ UNCHANGED <<pc, info, got, file, response, errors>>
  BY Zenon DEF Recv, Text, vars_url
<1>2. /\ p \in Nat /\ p + n <= Len(response) /\ response \in Seq(Octet) /\ n \in Nat \ {0}
      /\ buf' = Cleaned
  BY <1>1, TextIs, SizesAssumption DEF Types
<1>3. PICK k \in 0 .. n :
         /\ NUL \notin ToSet(response) => k = n
         /\ htmlstart => c = SubSeq(response, p + 1, p + k)
         /\ ~htmlstart /\ SeparatorsIn(t) = {} =>
                /\ c = <<>>
                /\ \A s \in 1 .. k - 3 : p + s \notin SeparatorsIn(response)
         /\ ~htmlstart /\ SeparatorsIn(t) # {} =>
                \E s \in 1 .. k - 3 :
                    /\ p + s \in SeparatorsIn(response)
                    /\ \A y \in 1 .. k - 3 : p + y \in SeparatorsIn(response) => s <= y
                    /\ c = SubSeq(response, p + s + 4, p + k)
  BY <1>1, PageGrows
<1> HIDE DEF t, c
<1>4. Reached' = p + n /\ stream' = SubSeq(response, p + n + 1, Len(response))
  <2>1. stream = SubSeq(response, p + 1, Len(response)) /\ Len(stream) = Len(response) - p
    <3>1. Len(stream) \in Nat
      <4>1. p + 1 \in Nat \ {0} /\ Len(response) \in 0 .. Len(response)
            /\ p + 1 <= Len(response) + 1
        BY <1>2
      <4>2. SubSeq(response, p + 1, Len(response)) \in Seq(Octet)
        <5> HIDE DEF p
        <5> QED BY <1>2, <4>1, Part
      <4> QED BY <4>2 DEF Types
    <3> QED BY <1>2, <3>1 DEF Types, Reached
  <2> DEFINE i == p + 1
             j == Len(response)
             x == n + 1
  <2>2. i \in Nat \ {0} /\ j \in 0 .. Len(response) /\ i <= j + 1 /\ x \in 1 .. j - i + 2
        /\ j - i + 1 = Len(stream) /\ i + x - 1 = p + n + 1
    <3> HIDE DEF p
    <3>1. /\ p \in Nat /\ n \in Nat /\ Len(response) \in Nat /\ p + n <= Len(response)
          /\ Len(stream) = Len(response) - p
      BY <1>2, <2>1
    <3> QED BY <3>1
  <2>3. SubSeq(SubSeq(response, i, j), x, j - i + 1) = SubSeq(response, i + x - 1, j)
    <3>1. response \in Seq(Octet)
      BY <1>2
    <3> HIDE DEF i, j, x
    <3>2. /\ i \in Nat \ {0} /\ j \in 0 .. Len(response) /\ i <= j + 1
          /\ x \in 1 .. j - i + 2
      BY <2>2
    <3> QED BY <3>1, <3>2, PartOfPart, Zenon
  <2>4. stream' = SubSeq(response, p + n + 1, Len(response))
    <3> HIDE DEF p
    <3> QED BY <1>1, <2>1, <2>2, <2>3, Zenon DEF i, j, x
  <2>5. Len(stream') = Len(response) - (p + n)
    <3>1. p + n + 1 \in Nat \ {0} /\ Len(response) \in 0 .. Len(response)
          /\ p + n + 1 <= Len(response) + 1
          /\ Len(response) - (p + n + 1) + 1 = Len(response) - (p + n)
      BY <1>2
    <3> DEFINE low == p + n + 1
               high == Len(response)
    <3>2. response \in Seq(Octet) /\ stream' = SubSeq(response, low, high)
      BY <1>2, <2>4
    <3>3. low \in Nat \ {0} /\ high \in 0 .. Len(response) /\ low <= high + 1
      BY <3>1
    <3> HIDE DEF p, low, high
    <3>4. Len(SubSeq(response, low, high)) = high - low + 1
      BY <3>2, <3>3, Part, Zenon
    <3>5. Len(stream') = high - low + 1
      BY <3>2, <3>4, Zenon
    <3> QED BY <3>1, <3>5 DEF low, high
  <2>6. Reached' = Len(response) - Len(stream')
    BY <1>1 DEF Reached
  <2> HIDE DEF p
  <2> QED BY <1>2, <2>4, <2>5, <2>6
<1>5. First' = First /\ SeparatorsIn(response)' = SeparatorsIn(response)
  BY <1>1 DEF First
<1>6. page \in Seq(Octet) /\ htmlstart \in BOOLEAN
  BY DEF Types
<1>7. PageInside /\ PageFrom /\ PageOfBody
  OBVIOUS
<1> HIDE DEF p, IInv
\* What is appended, as a part of the response.
<1>8. \E from \in 1 .. p + k + 1 : c = SubSeq(response, from, p + k)
  <2>1. CASE htmlstart
    <3>1. c = SubSeq(response, p + 1, p + k) /\ p + 1 \in 1 .. p + k + 1
      BY <1>2, <1>3, <2>1
    <3> QED BY <3>1, Zenon
  <2>2. CASE ~htmlstart /\ SeparatorsIn(t) = {}
    <3>1. p + k + 1 \in Nat \ {0} /\ p + k \in 0 .. Len(response)
          /\ p + k + 1 <= p + k + 1 /\ p + k - (p + k + 1) + 1 = 0
      BY <1>2, <1>3
    <3>2. Len(SubSeq(response, p + k + 1, p + k)) = 0
          /\ SubSeq(response, p + k + 1, p + k) \in Seq(Octet)
      BY <1>2, <3>1, Part
    <3>3. SubSeq(response, p + k + 1, p + k) = <<>>
      BY <3>2, EmptySeq
    <3> DEFINE from == p + k + 1
    <3>4. from \in 1 .. p + k + 1 /\ c = SubSeq(response, from, p + k)
      <4>1. from \in 1 .. p + k + 1
        BY <3>1
      <4>2. c = SubSeq(response, from, p + k)
        BY <1>3, <2>2, <3>3, Zenon
      <4> QED BY <4>1, <4>2
    <3> HIDE DEF from
    <3> QED BY <3>4, Zenon
  <2>3. CASE ~htmlstart /\ SeparatorsIn(t) # {}
    <3>1. PICK s \in 1 .. k - 3 : c = SubSeq(response, p + s + 4, p + k)
      BY <1>3, <2>3
    <3> DEFINE from == p + s + 4
    <3>2. from \in 1 .. p + k + 1
      BY <1>2, <1>3
    <3>3. c = SubSeq(response, from, p + k)
      BY <3>1
    <3> HIDE DEF from
    <3> QED BY <3>2, <3>3
  <2> QED BY <2>1, <2>2, <2>3
<1>9. c \in Seq(Octet)
  <2>1. PICK from \in 1 .. p + k + 1 : c = SubSeq(response, from, p + k)
    BY <1>8
  <2>2. from \in Nat \ {0} /\ p + k \in 0 .. Len(response) /\ from <= p + k + 1
    BY <1>2, <1>3
  <2> QED BY <1>2, <2>1, <2>2, Part
<1>10. page \o c \in Seq(Octet) /\ Len(page \o c) = Len(page) + Len(c)
       /\ (page = <<>> => page \o c = c) /\ (c = <<>> => page \o c = page)
  BY <1>6, <1>9, ConcatProperties, ConcatEmptySeq
<1>11. Types'
  <2>1. htmlstart' \in BOOLEAN
    BY <1>1, Zenon
  <2>2. page' \in Seq(Octet)
    BY <1>1, <1>10
  <2>3. p + n \in 0 .. Len(response)
    BY <1>2
  <2>4. Reached' \in ends'
    BY <1>1 DEF Reached
  <2>5. response' = response
    BY <1>1
  <2> QED BY <1>2, <1>4, <2>1, <2>2, <2>3, <2>4, <2>5 DEF Types
\* The page stays behind the first separator.
<1>12. PageInside'
  <2>1. CASE htmlstart
    <3>1. p + 1 \in Nat \ {0} /\ p + k \in 0 .. Len(response) /\ p + 1 <= p + k + 1
          /\ p + k - (p + 1) + 1 = k
      BY <1>2, <1>3
    <3>2. Len(c) = k
      BY <1>2, <1>3, <2>1, <3>1, Part
    <3>3. SeparatorsIn(response) # {} /\ Len(page) + First + 3 <= p
      BY <1>7, <2>1 DEF PageInside, p
    <3>4. First \in Nat /\ Len(page) \in Nat
      BY <1>2, <1>6, <3>3, FirstIs
    <3>5. Len(page') + First + 3 <= p + n
      BY <1>1, <1>2, <1>3, <1>10, <3>2, <3>3, <3>4
    <3> QED BY <1>1, <1>4, <1>5, <2>1, <3>3, <3>5 DEF PageInside
  <2>2. CASE ~htmlstart /\ SeparatorsIn(t) = {}
    <3>1. page = <<>> /\ page' = <<>> /\ ~htmlstart'
      BY <1>1, <1>3, <1>7, <1>10, <2>2 DEF PageInside
    <3> QED BY <3>1 DEF PageInside
  <2>3. CASE ~htmlstart /\ SeparatorsIn(t) # {}
    <3>1. PICK s \in 1 .. k - 3 : /\ p + s \in SeparatorsIn(response)
                                  /\ c = SubSeq(response, p + s + 4, p + k)
      BY <1>3, <2>3
    <3>2. p + s + 4 \in Nat \ {0} /\ p + k \in 0 .. Len(response)
          /\ p + s + 4 <= p + k + 1 /\ p + k - (p + s + 4) + 1 = k - s - 3
      BY <1>2, <1>3
    <3> DEFINE i == p + s + 4
               j == p + k
    <3>3. Len(c) = k - s - 3
      <4>1. c = SubSeq(response, i, j)
        BY <3>1
      <4>2. i \in Nat \ {0} /\ j \in 0 .. Len(response)
        BY <3>2
      <4>3. i <= j + 1 /\ j - i + 1 = k - s - 3
        BY <1>2, <1>3, <3>2
      <4> HIDE DEF i, j
      <4> QED BY <1>2, <4>1, <4>2, <4>3, Part
    <3>4. page' = c /\ htmlstart'
      BY <1>1, <1>7, <1>10, <2>3 DEF PageInside
    <3>5. First \in Nat /\ First <= p + s
      BY <1>2, <3>1, FirstIs
    <3>6. Len(page') + First + 3 <= p + n
      BY <1>2, <1>3, <3>3, <3>4, <3>5
    <3> QED BY <1>4, <1>5, <3>1, <3>4, <3>6 DEF PageInside
  <2> QED BY <2>1, <2>2, <2>3
\* The page stays the end of what has been received.
<1>13. PageFrom'
  <2> SUFFICES ASSUME NUL \notin ToSet(response)
               PROVE  \E from \in 1 .. p + n + 1 : page' = SubSeq(response, from, p + n)
    BY <1>1, <1>4 DEF PageFrom
  <2>1. k = n
    BY <1>3
  <2>2. CASE htmlstart
    <3>1. PICK from \in 1 .. p + 1 : page = SubSeq(response, from, p)
      BY <1>7 DEF PageFrom, p
    <3>2. /\ from \in Nat \ {0} /\ p + n \in Nat /\ from <= p + 1 /\ p <= p + n
          /\ from \in 1 .. p + n + 1
      BY <1>2
    <3>3. SubSeq(response, from, p) \o SubSeq(response, p + 1, p + n) =
              SubSeq(response, from, p + n)
      BY <1>2, <3>2, Joined
    <3>4. page' = SubSeq(response, from, p + n)
      BY <1>1, <1>3, <2>1, <2>2, <3>1, <3>3
    <3> QED BY <3>2, <3>4
  <2>3. CASE ~htmlstart
    <3>1. page' = c
      BY <1>1, <1>7, <1>10, <2>3 DEF PageInside
    <3> QED BY <1>8, <2>1, <3>1
  <2> QED BY <2>2, <2>3
\* ... and of the body.
<1>14. PageOfBody'
  <2> SUFFICES ASSUME Findable'
               PROVE  IF htmlstart'
                      THEN First + 3 <= p + n /\ page' = SubSeq(response, First + 4, p + n)
                      ELSE p + n < First
    BY <1>1, <1>4, <1>5 DEF PageOfBody
  <2>1. /\ NUL \notin ToSet(response) /\ SeparatorsIn(response) # {}
        /\ (First .. First + 2) \cap ends' = {}
    BY <1>1 DEF Findable, SeparatorWhole, First
  <2>2. Findable
    BY <1>1, <2>1 DEF Findable, SeparatorWhole, First
  <2>3. k = n /\ p + n \notin First .. First + 2 /\ p \notin First .. First + 2
    <3>1. p + n \in ends'
      BY <1>4, <1>11 DEF Types
    <3>2. p \in ends'
      <4>1. p \in ends
        BY DEF IInv, Types, p
      <4> QED BY <1>1, <4>1
    <3> QED BY <1>3, <2>1, <3>1, <3>2
  <2>4. First \in Nat /\ First <= Len(response) - 3 /\ First \in SeparatorsIn(response)
        /\ \A y \in SeparatorsIn(response) : First <= y
    BY <1>2, <2>1, FirstIs
  <2>5. CASE htmlstart
    <3>1. First + 3 <= p /\ page = SubSeq(response, First + 4, p)
      BY <1>7, <2>2, <2>5 DEF PageOfBody, p
    <3>2. First + 4 \in Nat \ {0} /\ p + n \in Nat /\ First + 4 <= p + 1 /\ p <= p + n
      BY <1>2, <2>4, <3>1
    <3>3. SubSeq(response, First + 4, p) \o SubSeq(response, p + 1, p + n) =
              SubSeq(response, First + 4, p + n)
      BY <1>2, <3>2, Joined
    <3>4. page' = SubSeq(response, First + 4, p + n) /\ htmlstart'
      BY <1>1, <1>3, <2>3, <2>5, <3>1, <3>3
    <3> QED BY <1>2, <2>4, <3>1, <3>4
  <2>6. CASE ~htmlstart
    <3>1. p < First
      BY <1>7, <2>2, <2>6 DEF PageOfBody, p
    <3>2. page' = c
      BY <1>1, <1>7, <1>10, <2>6 DEF PageInside
    <3>3. CASE SeparatorsIn(t) = {}
      <4>1. First - p \notin 1 .. n - 3
        <5>1. \A s \in 1 .. n - 3 : p + s # First
          BY <1>3, <2>3, <2>4, <2>6, <3>3
        <5>2. p + (First - p) = First
          BY <1>2, <2>4
        <5> QED BY <5>1, <5>2
      <4>2. p + n < First
        BY <1>2, <2>3, <2>4, <3>1, <4>1
      <4> QED BY <1>1, <2>6, <3>3, <4>2
    <3>4. CASE SeparatorsIn(t) # {}
      <4>1. PICK s \in 1 .. n - 3 :
                /\ p + s \in SeparatorsIn(response)
                /\ \A y \in 1 .. n - 3 : p + y \in SeparatorsIn(response) => s <= y
                /\ c = SubSeq(response, p + s + 4, p + n)
        BY <1>3, <2>3, <2>6, <3>4
      <4>2. First <= p + s
        BY <2>4, <4>1
      <4>3. First - p \in 1 .. n - 3 /\ p + (First - p) = First
        BY <1>2, <2>4, <3>1, <4>2
      <4>4. s <= First - p
        BY <2>4, <4>1, <4>3
      <4>5. p + s = First
        BY <1>2, <2>4, <4>2, <4>4
      <4>6. page' = SubSeq(response, First + 4, p + n)
        BY <3>2, <4>1, <4>5
      <4>7. First + 3 <= p + n
        BY <1>2, <4>5
      <4> QED BY <1>1, <3>4, <4>6, <4>7
    <3> QED BY <3>3, <3>4
  <2> QED BY <2>5, <2>6
<1>15. Early' /\ Ended' /\ FitsBuffer'
  BY <1>1 DEF Early, Ended, FitsBuffer
<1> QED BY <1>11, <1>12, <1>13, <1>14, <1>15 DEF IInv

\* Nothing of a response has come.
Nothing ==
    /\ response \in Seq(Octet) /\ stream = response /\ ends = {0}
    /\ page = <<>> /\ htmlstart = FALSE /\ buf = Cleaned

LEMMA NothingYet == Nothing => Kept
<1> SUFFICES ASSUME Nothing PROVE Kept
  OBVIOUS
<1> USE DEF Nothing
<1>1. Reached = 0
  BY DEF Reached
<1>2. SubSeq(response, 1, Len(response)) = response
  <2> DEFINE q == SubSeq(response, 1, Len(response))
  <2>1. 1 \in Nat \ {0} /\ Len(response) \in 0 .. Len(response) /\ 1 <= Len(response) + 1
    OBVIOUS
  <2>2. /\ q \in Seq(Octet) /\ Len(q) = Len(response) - 1 + 1
        /\ \A x \in 1 .. Len(response) - 1 + 1 : q[x] = response[1 + x - 1]
    BY <2>1, Part
  <2> HIDE DEF q
  <2>3. Len(q) = Len(response) /\ \A x \in 1 .. Len(q) : q[x] = response[x]
    BY <2>2
  <2>4. q = response
    BY <2>2, <2>3, SameText
  <2> QED BY <2>4 DEF q
<1>3. Types
  <2>1. <<>> \in Seq(Octet) /\ 0 \in 0 .. Len(response) /\ 0 + 1 = 1
    OBVIOUS
  <2> QED BY <1>1, <1>2, <2>1 DEF Types
<1>4. PageInside
  BY DEF PageInside
<1>5. PageFrom
  <2>1. SubSeq(response, 1, 0) = <<>>
    <3>1. SubSeq(response, 1, 0) \in Seq(Octet) /\ Len(SubSeq(response, 1, 0)) = 0
      BY Part
    <3> QED BY <3>1, EmptySeq
  <2>2. 1 \in 1 .. Reached + 1
    BY <1>1
  <2> QED BY <1>1, <2>1, <2>2 DEF PageFrom
<1>6. PageOfBody
  <2> SUFFICES ASSUME Findable PROVE Reached < First
    BY DEF PageOfBody
  <2>1. First \in 1 .. Len(response) - 3
    BY FirstIs DEF Findable
  <2> QED BY <1>1, <2>1
<1> QED BY <1>3, <1>4, <1>5, <1>6 DEF Kept

\* A page that would not fit belongs to a body that does not fit.
LEMMA OverrunFits ==
    ASSUME IInv, NEW n \in 1 .. MAXRCVLEN, Overrun(n)
    PROVE  FitsBuffer'
<1> DEFINE p == Reached
           t == Text(n)
           c == Content(t)
<1> USE DEF IInv
<1>1. n <= Len(stream) /\ Len(page) + Len(c) >= B_SIZE /\ response' = response
  BY Zenon DEF Overrun, Text, vars_recv
<1>2. /\ p \in Nat /\ p + n <= Len(response) /\ response \in Seq(Octet) /\ n \in Nat \ {0}
      /\ page \in Seq(Octet) /\ B_SIZE \in Nat \ {0}
  BY <1>1, TextIs, SizesAssumption DEF Types
<1>3. PICK k \in 0 .. n :
         /\ htmlstart => c = SubSeq(response, p + 1, p + k)
         /\ ~htmlstart /\ SeparatorsIn(t) = {} => c = <<>>
         /\ ~htmlstart /\ SeparatorsIn(t) # {} =>
                \E s \in 1 .. k - 3 :
                    /\ p + s \in SeparatorsIn(response)
                    /\ c = SubSeq(response, p + s + 4, p + k)
  BY <1>1, PageGrows
<1> HIDE DEF t, c
<1>4. PageInside
  OBVIOUS
<1> HIDE DEF p, IInv
<1>5. SeparatorsIn(response) # {} /\ Len(page) + Len(c) + First + 3 <= p + n
  <2>1. CASE htmlstart
    <3>1. p + 1 \in Nat \ {0} /\ p + k \in 0 .. Len(response) /\ p + 1 <= p + k + 1
          /\ p + k - (p + 1) + 1 = k
      BY <1>2, <1>3
    <3>2. Len(c) = k
      <4> QED BY <1>2, <1>3, <2>1, <3>1, Part
    <3>3. SeparatorsIn(response) # {} /\ Len(page) + First + 3 <= p
      BY <1>4, <2>1 DEF PageInside, p
    <3>4. First \in Nat /\ Len(page) \in Nat
      BY <1>2, <3>3, FirstIs
    <3> QED BY <1>2, <1>3, <3>2, <3>3, <3>4
  <2>2. CASE ~htmlstart
    <3>1. page = <<>>
      BY <1>4, <2>2 DEF PageInside
    <3>2. SeparatorsIn(t) # {}
      BY <1>1, <1>2, <1>3, <2>2, <3>1
    <3>3. PICK s \in 1 .. k - 3 : /\ p + s \in SeparatorsIn(response)
                                  /\ c = SubSeq(response, p + s + 4, p + k)
      BY <1>3, <2>2, <3>2
    <3> DEFINE i == p + s + 4
               j == p + k
    <3>4. i \in Nat \ {0} /\ j \in 0 .. Len(response)
          /\ i <= j + 1 /\ j - i + 1 = k - s - 3
      BY <1>2, <1>3
    <3>5. c = SubSeq(response, i, j)
      BY <3>3
    <3>6. Len(c) = k - s - 3
      <4> HIDE DEF i, j
      <4> QED BY <1>2, <3>4, <3>5, Part
    <3>7. First \in Nat /\ First <= p + s
      BY <1>2, <3>3, FirstIs
    <3> QED BY <1>2, <1>3, <3>1, <3>3, <3>6, <3>7
  <2> QED BY <2>1, <2>2
<1>6. Len(Body) = Len(response) - First - 3
  <2> DEFINE i == First + 4
             j == Len(response)
  <2>1. i \in Nat \ {0} /\ j \in 0 .. Len(response) /\ i <= j + 1
        /\ j - i + 1 = Len(response) - First - 3
    BY <1>2, <1>5, FirstIs
  <2>2. Body = SubSeq(response, i, j)
    BY DEF Body, First
  <2> HIDE DEF i, j
  <2> QED BY <1>2, <2>1, <2>2, Part
<1>7. Len(page) \in Nat /\ Len(c) \in Int /\ First \in Nat
  <2>1. First \in Nat
    BY <1>2, <1>5, FirstIs
  <2>2. Len(c) \in Int
    OBVIOUS
  <2> QED BY <1>2, <2>1, <2>2
<1>8. Len(Body) >= B_SIZE
  <2> QED BY <1>1, <1>2, <1>5, <1>6, <1>7
<1> QED BY <1>1, <1>5, <1>8 DEF FitsBuffer, Body

\* The invariant holds in every state.
THEOREM PageIsPart == Spec => []IInv
<1>1. Init => IInv
  <2> SUFFICES ASSUME Init PROVE IInv
    OBVIOUS
  <2>1. response = <<>> /\ stream = response /\ page = <<>> /\ htmlstart = FALSE
        /\ ends = {0} /\ buf = Cleaned /\ pc = "parse" /\ errors = FALSE /\ info = NoInfo
    BY DEF Init, Cleaned
  <2>2. response \in Seq(Octet)
    BY <2>1
  <2>3. Types /\ PageInside /\ PageFrom /\ PageOfBody
    BY <2>1, <2>2, NothingYet DEF Nothing, Kept
  <2>4. Early /\ Ended /\ FitsBuffer
    BY <2>1 DEF Early, Ended, FitsBuffer
  <2> QED BY <2>3, <2>4 DEF IInv
<1>2. IInv /\ [Next]_vars => IInv'
  <2> SUFFICES ASSUME IInv, [Next]_vars PROVE IInv'
    OBVIOUS
  <2>1. Kept
    BY DEF IInv, Kept
  <2>2. ASSUME UNCHANGED vars_recv PROVE Kept'
    BY <2>1, <2>2 DEF Kept, vars_recv, Types, PageInside, PageFrom, PageOfBody, Reached, First,
                      Findable, SeparatorWhole
  <2>3. CASE Parse \/ ParseFails \/ ParseUndefined \/ Connect \/ ConnectFails
              \/ Send \/ SendFails
    <3>1. UNCHANGED vars_recv /\ errors' = errors /\ file' = file
      BY <2>3 DEF Parse, ParseFails, ParseUndefined, Connect, ConnectFails, Send, SendFails
    <3>2. Early'
      BY <2>3, <3>1 DEF IInv, Early, Parse, ParseFails, ParseUndefined, Connect,
            ConnectFails, Send, SendFails, vars_recv, vars_url
    <3>3. Ended' /\ FitsBuffer'
      BY <2>3 DEF IInv, Early, Ended, FitsBuffer, Parse, ParseFails, ParseUndefined,
            Connect, ConnectFails, Send, SendFails, vars_recv, vars_url
    <3> QED BY <2>2, <3>1, <3>2, <3>3 DEF IInv, Kept
  <2>4. CASE QuerySent
    <3>1. response' \in Seq(Octet)
      <4>1. response' \in Answers(got)
        BY <2>4 DEF QuerySent
      <4>2. <<>> \in Seq(Octet)
        OBVIOUS
      <4> QED BY <4>1, <4>2, ResponsesAssumption DEF Answers
    <3>2. /\ stream' = response' /\ page' = <<>> /\ htmlstart' = FALSE /\ ends' = {0}
          /\ buf' = Cleaned /\ pc' = "recv"
      BY <2>4 DEF QuerySent, IInv, Early, Types
    <3>3. Kept'
      <4>1. Nothing'
        BY <3>1, <3>2 DEF Nothing, Cleaned
      <4> QED BY <4>1, NothingYet, PTL
    <3>4. Early' /\ Ended' /\ FitsBuffer'
      BY <3>2 DEF Early, Ended, FitsBuffer
    <3> QED BY <3>3, <3>4 DEF IInv, Kept
  <2>5. ASSUME NEW n \in 1 .. MAXRCVLEN, Recv(n) PROVE IInv'
    BY <2>5, RecvKeeps
  <2>6. ASSUME NEW n \in 1 .. MAXRCVLEN, Overrun(n) PROVE IInv'
    <3>1. FitsBuffer'
      BY <2>6, OverrunFits
    <3>2. UNCHANGED vars_recv /\ pc' = "undefined"
      BY <2>6 DEF Overrun
    <3>3. Early' /\ Ended'
      BY <3>2 DEF Early, Ended
    <3> QED BY <2>2, <3>1, <3>2, <3>3 DEF IInv, Kept
  <2>7. CASE RecvEnds \/ RecvFails \/ WriteData \/ WriteFails
    <3>1. UNCHANGED vars_recv /\ pc' \in {"write", "saved"}
      BY <2>7 DEF RecvEnds, RecvFails, WriteData, WriteFails
    <3>2. Early' /\ FitsBuffer'
      BY <3>1 DEF Early, FitsBuffer
    <3>3. Ended'
      BY <2>7 DEF IInv, Ended, RecvEnds, RecvFails, WriteData, WriteFails, vars_recv
    <3> QED BY <2>2, <3>1, <3>2, <3>3 DEF IInv, Kept
  <2>8. CASE UNCHANGED vars
    <3>1. UNCHANGED vars_recv
      BY <2>8 DEF vars
    <3>2. Early' /\ Ended' /\ FitsBuffer'
      BY <2>8 DEF IInv, Early, Ended, FitsBuffer, Body, vars, vars_recv, vars_url
    <3> QED BY <2>2, <3>1, <3>2 DEF IInv, Kept
  <2> QED BY <2>3, <2>4, <2>5, <2>6, <2>7, <2>8 DEF Next
<1> QED BY <1>1, <1>2, PTL DEF Spec

\* The page is always the end of what has been received, however recv cuts the
\* response (wgetX.c:96-117).
THEOREM PageIsTheTail == Spec => []PageIsTail
<1>1. IInv => PageIsTail
  <2> SUFFICES ASSUME IInv, NUL \notin ToSet(response) PROVE IsSuffix(page, Arrived)
    BY DEF PageIsTail
  <2> DEFINE p == Reached
  <2>1. /\ response \in Seq(Octet) /\ p \in 0 .. Len(response) /\ page \in Seq(Octet)
        /\ \E from \in 1 .. p + 1 : page = SubSeq(response, from, p)
        /\ Arrived = SubSeq(response, 1, p)
    BY DEF IInv, Types, PageFrom, Arrived, Reached
  <2> HIDE DEF p
  <2>2. PICK from \in 1 .. p + 1 : page = SubSeq(response, from, p)
    BY <2>1
  <2>3. /\ Len(page) = p - from + 1
        /\ \A x \in 1 .. p - from + 1 : page[x] = response[from + x - 1]
    <3>1. from \in Nat \ {0} /\ from <= p + 1
      BY <2>1
    <3> QED BY <2>1, <2>2, <3>1, Part
  <2>4. /\ Arrived \in Seq(Octet) /\ Len(Arrived) = p
        /\ \A x \in 1 .. p : Arrived[x] = response[x]
    <3>1. /\ Arrived \in Seq(Octet) /\ Len(Arrived) = p - 1 + 1
          /\ \A x \in 1 .. p - 1 + 1 : Arrived[x] = response[1 + x - 1]
      <4>1. 1 \in Nat \ {0} /\ 1 <= p + 1
        BY <2>1
      <4> QED BY <2>1, <4>1, Part
    <3>2. p - 1 + 1 = p /\ \A x \in 1 .. p : 1 + x - 1 = x
      BY <2>1
    <3> QED BY <3>1, <3>2
  <2>5. \A x \in 1 .. Len(page) : page[x] = Arrived[Len(Arrived) - Len(page) + x]
    <3> SUFFICES ASSUME NEW x \in 1 .. Len(page)
                 PROVE  page[x] = Arrived[Len(Arrived) - Len(page) + x]
      OBVIOUS
    <3>1. Len(Arrived) - Len(page) + x = from + x - 1 /\ from + x - 1 \in 1 .. p
      BY <2>1, <2>3, <2>4
    <3>2. page[x] = response[from + x - 1]
      BY <2>3
    <3>3. Arrived[from + x - 1] = response[from + x - 1]
      BY <2>4, <3>1
    <3> QED BY <3>1, <3>2, <3>3
  <2>6. Len(page) <= Len(Arrived)
    BY <2>1, <2>3, <2>4
  <2> QED BY <2>1, <2>4, <2>5, <2>6, SuffixIs
<1> QED BY <1>1, PageIsPart, PTL

\* recv_buf_t is overrun by no response whose body fits it (wgetX.c:113), NULs or
\* not.
THEOREM BodyFitsBuffer == Spec => []FitsBuffer
<1>1. IInv => FitsBuffer
  BY DEF IInv
<1> QED BY <1>1, PageIsPart, PTL

\* The file holds the body, if recv does not cut the separator (wgetX.c:96-120).
THEOREM WholeBodyIsSaved == Spec => []BodyIsSaved
<1>1. IInv => BodyIsSaved
  <2> SUFFICES ASSUME IInv, pc = "saved", ~errors, Findable PROVE file = Body
    BY DEF BodyIsSaved, Findable
  <2>1. stream = <<>> /\ file = page /\ response \in Seq(Octet) /\ PageOfBody
    BY DEF IInv, Ended, Types
  <2>2. Reached = Len(response)
    BY <2>1 DEF Reached
  <2>3. First \in 1 .. Len(response) - 3
    BY <2>1, FirstIs DEF Findable
  <2>4. htmlstart /\ page = SubSeq(response, First + 4, Len(response))
    BY <2>1, <2>2, <2>3 DEF PageOfBody
  <2> QED BY <2>1, <2>4 DEF Body, First
<1> QED BY <1>1, PageIsPart, PTL

-----------------------------------------------------------------------------
\* The query.

\* The page's name is a text.
LEMMA GetpageType ==
    ASSUME NEW p \in Seq(Octet)
    PROVE  getpage(p) \in Seq(Octet)
<1>1. p # <<>> => Tail(p) \in Seq(Octet)
  BY HeadTailProperties
<1> QED BY <1>1 DEF getpage

\* The query is a text, as long as its parts.
LEMMA QueryIs ==
    ASSUME NEW host \in Seq(Octet), NEW p \in Seq(Octet)
    PROVE  /\ build_get_query(host, p) \in Seq(Octet)
           /\ Len(build_get_query(host, p)) + 1 = QuerySize(host, p)
<1> DEFINE a == Template[1]
           b == Template[2]
           c == Template[3]
           d == Template[4]
           g == getpage(p)
           t1 == a \o g
           t2 == t1 \o b
           t3 == t2 \o host
           t4 == t3 \o c
           t5 == t4 \o USERAGENT
           t6 == t5 \o d
<1>1. /\ a \in Seq(Octet) /\ b \in Seq(Octet) /\ c \in Seq(Octet) /\ d \in Seq(Octet)
      /\ USERAGENT \in Seq(Octet)
  <2> DEFINE T == Seq(Octet)
  <2>1. Template \in Seq(T) /\ Len(Template) = 4
    BY TemplateAssumption
  <2>2. \A i \in 1 .. 4 : Template[i] \in T
    <3> HIDE DEF T
    <3> QED BY <2>1, ElementOfSeq
  <2>3. 1 \in 1 .. 4 /\ 2 \in 1 .. 4 /\ 3 \in 1 .. 4 /\ 4 \in 1 .. 4
    OBVIOUS
  <2> QED BY <2>2, <2>3, UserAgentAssumption
<1>2. g \in Seq(Octet)
  BY GetpageType
<1>3. build_get_query(host, p) = t6
  BY DEF build_get_query
<1>4. Len(Placeholder) = 2
  BY DEF Placeholder
<1>5. QuerySize(host, p) =
          Len(host) + Len(g) + Len(USERAGENT) + (Len(a) + Len(b) + Len(c) + Len(d) + 3 * 2) - 5
  BY <1>4, Zenon DEF QuerySize, TemplateLen
<1> HIDE DEF a, b, c, d, g
<1>6. t1 \in Seq(Octet) /\ Len(t1) = Len(a) + Len(g)
  BY <1>1, <1>2, ConcatProperties
<1> HIDE DEF t1
<1>7. t2 \in Seq(Octet) /\ Len(t2) = Len(t1) + Len(b)
  BY <1>1, <1>6, ConcatProperties
<1> HIDE DEF t2
<1>8. t3 \in Seq(Octet) /\ Len(t3) = Len(t2) + Len(host)
  BY <1>7, ConcatProperties
<1> HIDE DEF t3
<1>9. t4 \in Seq(Octet) /\ Len(t4) = Len(t3) + Len(c)
  BY <1>1, <1>8, ConcatProperties
<1> HIDE DEF t4
<1>10. t5 \in Seq(Octet) /\ Len(t5) = Len(t4) + Len(USERAGENT)
  BY <1>1, <1>9, ConcatProperties
<1> HIDE DEF t5
<1>11. t6 \in Seq(Octet) /\ Len(t6) = Len(t5) + Len(d)
  BY <1>1, <1>10, ConcatProperties
<1> HIDE DEF t6
<1>12. /\ Len(a) \in Nat /\ Len(b) \in Nat /\ Len(c) \in Nat /\ Len(d) \in Nat /\ Len(g) \in Nat
       /\ Len(host) \in Nat /\ Len(USERAGENT) \in Nat
  BY <1>1, <1>2
<1>13. Len(t6) + 1 = QuerySize(host, p)
  BY <1>5, <1>6, <1>7, <1>8, <1>9, <1>10, <1>11, <1>12
<1> QED BY <1>3, <1>11, <1>13

\* A text is a prefix of another as long as its octets are the first of the other.
Begins(a, b) == Len(a) <= Len(b) /\ a = SubSeq(b, 1, Len(a))

LEMMA PrefixOfQuery ==
    ASSUME NEW a \in Seq(Octet), NEW b \in Seq(Octet), Begins(a, b)
    PROVE  IsPrefix(a, b)
<1>1. SubSeq(a, 1, Len(a)) = a
  BY SubSeqFull
<1> QED BY <1>1 DEF Begins, IsPrefix

\* The next octets of a text behind the first ones.
LEMMA BeginsGrows ==
    ASSUME NEW a \in Seq(Octet), NEW b \in Seq(Octet), Begins(a, b),
           NEW n \in 1 .. Len(b) - Len(a)
    PROVE  LET c == a \o SubSeq(b, Len(a) + 1, Len(a) + n)
           IN  c \in Seq(Octet) /\ Begins(c, b)
<1> DEFINE p == Len(a)
           j == p + n
           d == SubSeq(b, p + 1, j)
           c == a \o d
<1>1. p \in Nat /\ p <= Len(b) /\ a = SubSeq(b, 1, p) /\ Len(b) \in Nat
  BY DEF Begins
<1>2. j \in Nat /\ p <= j /\ j <= Len(b) /\ 1 <= p + 1 /\ j - (p + 1) + 1 = n /\ p + 1 <= j + 1
      /\ p + 1 \in Nat \ {0} /\ j \in 0 .. Len(b)
  BY <1>1
<1> HIDE DEF p, j
<1>3. d \in Seq(Octet) /\ Len(d) = n
  BY <1>2, Part
<1>4. c = SubSeq(b, 1, j)
  <2>1. SubSeq(b, 1, p) \o SubSeq(b, p + 1, j) = SubSeq(b, 1, j)
    BY <1>1, <1>2, Joined
  <2> QED BY <1>1, <2>1
<1> HIDE DEF d
<1>5. c \in Seq(Octet) /\ Len(c) = Len(a) + n
  BY <1>3, ConcatProperties
<1> HIDE DEF c
<1>6. Len(c) = j
  BY <1>5 DEF p, j
<1>7. Begins(c, b)
  BY <1>2, <1>4, <1>6 DEF Begins
<1> QED BY <1>5, <1>7 DEF c, d, p, j

-----------------------------------------------------------------------------
\* What is added to the page has no NUL.

LEMMA OverwriteType ==
    ASSUME NEW b \in Seq(Octet), NEW d \in Seq(Octet)
    PROVE  Overwrite(b, d) \in Seq(Octet)
<1> DEFINE o == Overwrite(b, d)
<1>1. Len(b) \in Nat /\ Len(d) \in Nat
  OBVIOUS
<1>2. o \in [1 .. Len(b) -> Octet]
  <2>1. \A j \in 1 .. Len(b) : (IF j <= Len(d) THEN d[j] ELSE b[j]) \in Octet
    BY <1>1
  <2> QED BY <2>1 DEF Overwrite
<1> HIDE DEF o
<1>3. o \in Seq(Octet)
  BY <1>1, <1>2, FunctionIsSeq
<1> QED BY <1>3 DEF o

LEMMA ContentHasNoNul ==
    ASSUME NEW b \in Seq(Octet)
    PROVE  Content(CStr(b)) \in Seq(Octet \ {NUL})
<1> DEFINE t == CStr(b)
           k == StrLen(b)
           C == Octet \ {NUL}
<1>1. k \in 0 .. Len(b) /\ IsStrLen(b, k) /\ t \in Seq(Octet)
  BY StrLenType
<1>2. t = SubSeq(b, 1, k)
  BY DEF CStr
<1> HIDE DEF k
<1>3. \A j \in 1 .. k : b[j] \in C
  BY <1>1 DEF IsStrLen
<1>4. t \in Seq(C)
  <2>1. 1 \in Int /\ k \in Int
    BY <1>1
  <2> HIDE DEF t, C
  <2> QED BY <1>2, <1>3, <2>1, SubSeqProperties
<1> HIDE DEF t
<1>5. <<>> \in Seq(C)
  OBVIOUS
<1>6. CASE SeparatorsIn(t) # {}
  <2> DEFINE i == Min(SeparatorsIn(t)) + 4
             j == Len(t)
  <2>1. SeparatorsIn(t) \in SUBSET Nat
    <3>1. SeparatorsIn(t) \subseteq 1 .. Len(t) - 3
      BY <1>1, SeparatorIs
    <3> QED BY <3>1
  <2>2. Min(SeparatorsIn(t)) \in Nat
    BY <1>6, <2>1, MinIs
  <2>3. i \in Int /\ j \in Int /\ i >= 1
    BY <1>4, <2>2
  <2>4. \A x \in i .. j : t[x] \in C
    <3>1. \A x \in i .. j : x \in 1 .. Len(t)
      BY <2>3
    <3> HIDE DEF i, j, C
    <3> QED BY <1>4, <3>1, ElementOfSeq
  <2>5. SubSeq(t, i, j) \in Seq(C)
    <3> HIDE DEF i, j, C
    <3> QED BY <2>3, <2>4, SubSeqProperties
  <2>6. Content(t) = IF htmlstart THEN t ELSE SubSeq(t, i, j)
    BY <1>6 DEF Content
  <2> HIDE DEF C
  <2> QED BY <1>4, <2>5, <2>6 DEF t, C
<1>7. CASE SeparatorsIn(t) = {}
  <2>1. Content(t) = IF htmlstart THEN t ELSE <<>>
    BY <1>7 DEF Content
  <2> HIDE DEF C
  <2> QED BY <1>4, <1>5, <2>1 DEF t, C
<1> QED BY <1>6, <1>7

-----------------------------------------------------------------------------
\* The second inductive invariant.

\* What the program knows of the URL, and the query it makes of it.
Asked ==
    /\ url \in Urls
    /\ info \in [host : Seq(Octet), port : Nat, path : Seq(Octet)]
    /\ pc \in {"parse", "resolve", "send", "recv", "write", "saved", "exited", "undefined"}
    /\ got \in Seq(Octet) /\ Begins(got, Query)
    /\ pc \in {"parse", "resolve"} => got = <<>>
    /\ pc \in {"recv", "write", "saved"} => got = Query
    /\ UrlUnderstood

\* What the program has of the page, and what is in its file.
PageFits ==
    /\ page \in Seq(Octet \ {NUL}) /\ Len(page) < B_SIZE
    /\ file \in {NoFile} \union Beginnings(page)
    /\ pc # "saved" => file = NoFile

QueryInv == Asked /\ PageFits

LEMMA AskedInit == Init => QueryInv
<1> SUFFICES ASSUME Init PROVE QueryInv
  OBVIOUS
<1>1. NoInfo \in [host : Seq(Octet), port : Nat, path : Seq(Octet)]
  BY DEF NoInfo
<1>2. Query \in Seq(Octet)
  BY <1>1, QueryIs DEF Init, Query
<1>3. got \in Seq(Octet) /\ Begins(got, Query)
  <2>1. SubSeq(Query, 1, 0) = <<>>
    BY SubSeqEmpty
  <2>2. got = <<>> /\ Len(got) = 0 /\ Len(Query) \in Nat
    BY <1>2 DEF Init
  <2> HIDE DEF Query
  <2> QED BY <2>1, <2>2 DEF Begins
<1>4. UrlUnderstood
  BY DEF Init, UrlUnderstood
<1>5. page \in Seq(Octet \ {NUL}) /\ Len(page) < B_SIZE
  BY SizesAssumption DEF Init
<1> QED BY <1>1, <1>3, <1>4, <1>5 DEF Init, QueryInv, Asked, PageFits

\* A text that begins another one and is as long is the other.
LEMMA BeginsAll ==
    ASSUME NEW a \in Seq(Octet), NEW b \in Seq(Octet), Begins(a, b), Len(a) = Len(b)
    PROVE  a = b
<1>1. SubSeq(b, 1, Len(b)) = b
  BY SubSeqFull
<1> QED BY <1>1 DEF Begins

LEMMA AskedNext == IInv /\ QueryInv /\ [Next]_vars => QueryInv'
<1> SUFFICES ASSUME IInv, QueryInv, [Next]_vars PROVE QueryInv'
  OBVIOUS
<1> USE DEF QueryInv
<1>0. Query \in Seq(Octet)
  BY QueryIs DEF Asked, Query
<1>1. CASE Parse
  <2>1. /\ pc = "parse" /\ pc' = "resolve" /\ HasPath(Written(url)) /\ ~ParsesNothing(Written(url))
        /\ info' = parse_url(Written(url))
        /\ url' = url /\ got' = got /\ page' = page /\ file' = file
    BY <1>1 DEF Parse, vars_recv
  <2>2. info' \in [host : Seq(Octet), port : Nat, path : Seq(Octet)]
    BY <2>1, WrittenType, ParsedType DEF Asked
  <2>3. got = <<>>
    BY <2>1 DEF Asked
  <2>4. Query' \in Seq(Octet)
    <3>1. \A h, p \in Seq(Octet) : build_get_query(h, p) \in Seq(Octet)
      BY QueryIs
    <3> QED BY <2>2, <3>1 DEF Query
  <2>5. Begins(got, Query)'
    <3> DEFINE q == Query'
    <3>1. SubSeq(q, 1, 0) = <<>> /\ q \in Seq(Octet)
      BY <2>4, SubSeqEmpty
    <3>2. got' = <<>> /\ Len(got') = 0
      BY <2>1, <2>3
    <3>3. Begins(got', q)
      <4> HIDE DEF q
      <4>1. Len(q) \in Nat
        BY <3>1
      <4> QED BY <3>1, <3>2, <4>1 DEF Begins
    <3> QED BY <3>3
  <2>6. UrlUnderstood'
    <3> SUFFICES ASSUME Readable(url')
                 PROVE  /\ info' # NoInfo
                        /\ info' = [host |-> url'.host, path |-> url'.path,
                                    port |-> IF url'.port = NoPort THEN 80 ELSE url'.port]
      BY DEF UrlUnderstood
    <3>1. info' = [host |-> url.host, path |-> url.path,
                   port |-> IF url.port = NoPort THEN 80 ELSE url.port]
      BY <2>1, ReadableUrl DEF Asked
    <3>2. url.host # <<>>
      BY UrlsAssumption DEF Asked
    <3>3. info'.host # <<>> /\ NoInfo.host = <<>>
      BY <3>1, <3>2 DEF NoInfo
    <3> QED BY <2>1, <3>1, <3>3
  <2>7. Asked'
    BY <2>1, <2>2, <2>3, <2>5, <2>6 DEF Asked
  <2> QED BY <2>1, <2>7 DEF PageFits
<1>2. CASE ParseUndefined
  <2>1. /\ pc = "parse" /\ pc' = "undefined"
        /\ Path(Written(url)) # <<>> \/ ParsesNothing(Written(url))
        /\ UNCHANGED <<url, info, got, page, file>>
    BY <1>2 DEF ParseUndefined, vars_recv, vars_url
  <2>2. Readable(url) => url.path # <<>>
    BY <2>1, ReadableUrl DEF Asked
  <2>3. info = NoInfo
    BY <2>1 DEF IInv, Early
  <2>4. UrlUnderstood'
    BY <2>1, <2>2, <2>3 DEF UrlUnderstood
  <2>5. Asked'
    BY <2>1, <2>4 DEF Asked, Query
  <2> QED BY <2>1, <2>5 DEF PageFits
<1>3. CASE ParseFails
  <2>1. /\ pc = "parse" /\ pc' = "exited" /\ ~HasPath(Written(url))
        /\ UNCHANGED <<url, info, got, page, file>>
    BY <1>3 DEF ParseFails, vars_recv, vars_url
  <2>2. ~Readable(url)
    BY <2>1, ReadableUrl DEF Asked
  <2>3. UrlUnderstood'
    BY <2>1, <2>2 DEF UrlUnderstood
  <2>4. Asked'
    BY <2>1, <2>3 DEF Asked, Query
  <2> QED BY <2>1, <2>4 DEF PageFits
\* The URL and what is known of it do not change any more.
<1>4. ASSUME pc # "parse", pc \in {"resolve", "send", "recv", "write"}, url' = url, info' = info
      PROVE  UrlUnderstood'
  BY <1>4 DEF Asked, UrlUnderstood
<1>5. CASE Connect \/ ConnectFails \/ SendFails
  <2>1. /\ pc \in {"resolve", "send"} /\ pc' \in {"send", "exited"}
        /\ UNCHANGED <<url, info, got, page, file>>
    BY <1>5 DEF Connect, ConnectFails, SendFails, vars_recv, vars_url
  <2>2. UrlUnderstood'
    BY <1>4, <2>1
  <2>3. Asked'
    BY <2>1, <2>2 DEF Asked, Query
  <2> QED BY <2>1, <2>3 DEF PageFits
<1>6. CASE Send
  <2>1. /\ pc = "send" /\ pc' = pc /\ Len(got) < Len(Query)
        /\ UNCHANGED <<url, info, page, file>>
    BY <1>6 DEF Send, vars_recv, vars_url
  <2>2. PICK n \in 1 .. Len(Query) - Len(got) :
           got' = got \o SubSeq(Query, Len(got) + 1, Len(got) + n)
    BY <1>6 DEF Send, Piece
  <2>3. got' \in Seq(Octet) /\ Begins(got', Query)
    <3> DEFINE q == Query
    <3>1. /\ got \in Seq(Octet) /\ q \in Seq(Octet) /\ Begins(got, q)
          /\ got' = got \o SubSeq(q, Len(got) + 1, Len(got) + n) /\ n \in 1 .. Len(q) - Len(got)
      BY <1>0, <2>2 DEF Asked
    <3> HIDE DEF q
    <3>2. got' \in Seq(Octet) /\ Begins(got', q)
      BY <3>1, BeginsGrows
    <3> QED BY <3>2 DEF q
  <2>4. UrlUnderstood'
    BY <1>4, <2>1
  <2>5. Asked'
    BY <2>1, <2>3, <2>4 DEF Asked, Query
  <2> QED BY <2>1, <2>5 DEF PageFits
<1>7. CASE QuerySent
  <2>1. /\ pc = "send" /\ pc' = "recv" /\ Len(got) = Len(Query)
        /\ UNCHANGED <<url, info, got, page, file>>
    BY <1>7 DEF QuerySent, vars_url
  <2>2. got = Query
    BY <1>0, <2>1, BeginsAll DEF Asked
  <2>3. UrlUnderstood'
    BY <1>4, <2>1
  <2>4. Asked'
    BY <2>1, <2>2, <2>3 DEF Asked, Query
  <2> QED BY <2>1, <2>4 DEF PageFits
<1>8. ASSUME NEW n \in 1 .. MAXRCVLEN, Recv(n)
      PROVE  QueryInv'
  <2> DEFINE b == Overwrite(buf, SubSeq(stream, 1, n))
             c == Content(CStr(b))
  <2>1. /\ pc = "recv" /\ pc' = pc /\ n <= Len(stream) /\ Len(page') < B_SIZE
        /\ page' = page \o c /\ UNCHANGED <<url, info, got, file>>
    BY <1>8, Zenon DEF Recv, vars_url
  <2>2. b \in Seq(Octet)
    <3>1. buf \in Seq(Octet)
      <4>1. Cleaned \in [1 .. MAXRCVLEN + 1 -> Octet]
        BY DEF Cleaned, Filled, NUL, Octet
      <4>2. MAXRCVLEN + 1 \in Nat
        BY SizesAssumption
      <4> QED BY <4>1, <4>2, FunctionIsSeq DEF IInv, Types
    <3>2. stream \in Seq(Octet)
      <4> DEFINE i == Reached + 1
                 j == Len(response)
      <4>1. stream = SubSeq(response, i, j) /\ response \in Seq(Octet)
            /\ i \in Nat \ {0} /\ j \in 0 .. Len(response) /\ i <= j + 1
        BY DEF IInv, Types
      <4> HIDE DEF i, j
      <4> QED BY <4>1, Part
    <3>3. SubSeq(stream, 1, n) \in Seq(Octet)
      <4>1. n \in 0 .. Len(stream) /\ 1 <= n + 1
        BY <2>1, <3>2, SizesAssumption
      <4> QED BY <3>2, <4>1, Part
    <3> QED BY <3>1, <3>3, OverwriteType
  <2>3. c \in Seq(Octet \ {NUL})
    <3> HIDE DEF b
    <3> QED BY <2>2, ContentHasNoNul
  <2> HIDE DEF c
  <2>4. page' \in Seq(Octet \ {NUL})
    BY <2>1, <2>3, ConcatProperties DEF PageFits
  <2>5. UrlUnderstood'
    BY <1>4, <2>1
  <2>6. Asked'
    BY <2>1, <2>5 DEF Asked, Query
  <2> QED BY <2>1, <2>4, <2>6 DEF PageFits
<1>9. CASE (\E n \in 1 .. MAXRCVLEN : Overrun(n)) \/ RecvEnds \/ RecvFails
  <2>1. /\ pc = "recv" /\ pc' \in {"undefined", "write"}
        /\ UNCHANGED <<url, info, got, page, file>>
    BY <1>9 DEF Overrun, RecvEnds, RecvFails, vars_recv, vars_url
  <2>2. UrlUnderstood'
    BY <1>4, <2>1
  <2>3. Asked'
    BY <2>1, <2>2 DEF Asked, Query
  <2> QED BY <2>1, <2>3 DEF PageFits
<1>10. CASE WriteData \/ WriteFails
  <2>1. /\ pc = "write" /\ pc' = "saved"
        /\ UNCHANGED <<vars_url, got, vars_recv>>
    BY <1>10, Zenon DEF WriteData, WriteFails
  <2>2. UNCHANGED <<url, info, got, page>>
    BY <2>1, Zenon DEF vars_recv, vars_url
  <2>3. UrlUnderstood'
    BY <1>4, <2>1, <2>2
  <2>4. Asked'
    BY <2>1, <2>2, <2>3 DEF Asked, Query
  <2>5. page \in Beginnings(page)
    <3>1. page \in Seq(Octet)
      BY DEF PageFits
    <3>2. page = SubSeq(page, 1, Len(page)) /\ Len(page) \in 0 .. Len(page)
      BY <3>1, SubSeqFull
    <3> QED BY <3>2 DEF Beginnings
  <2>6. file' \in {file} \union Beginnings(page)
    BY <1>10, <2>5 DEF WriteData, WriteFails
  <2> QED BY <2>1, <2>2, <2>4, <2>6 DEF PageFits
<1>11. CASE UNCHANGED vars
  <2>1. UNCHANGED <<pc, url, info, got, page, file>>
    BY <1>11 DEF vars, vars_url, vars_recv
  <2> QED BY <2>1 DEF Asked, PageFits, Query, UrlUnderstood
<1> QED BY <1>1, <1>2, <1>3, <1>5, <1>6, <1>7, <1>8, <1>9, <1>10, <1>11 DEF Next

\* The second invariant holds in every state.
THEOREM QueryIsAsked == Spec => []QueryInv
  BY AskedInit, AskedNext, PageIsPart, PTL DEF Spec

\* Type correctness.
THEOREM DownloadType == Spec => []TypeOK
<1>1. IInv /\ QueryInv => TypeOK
  <2> SUFFICES ASSUME IInv, QueryInv PROVE TypeOK
    OBVIOUS
  <2>1. stream \in Seq(Octet)
    <3> DEFINE i == Reached + 1
               j == Len(response)
    <3>1. stream = SubSeq(response, i, j) /\ response \in Seq(Octet)
          /\ i \in Nat \ {0} /\ j \in 0 .. Len(response) /\ i <= j + 1
      BY DEF IInv, Types
    <3> HIDE DEF i, j
    <3> QED BY <3>1, Part
  <2> QED BY <2>1 DEF IInv, QueryInv, Types, Asked, PageFits, TypeOK, Cleaned
<1> QED BY <1>1, PageIsPart, QueryIsAsked, PTL

\* Every URL a scheme and an unambiguous colon make readable is understood
\* (url.c:19-38), however long its parts and whatever its port.
THEOREM UrlIsUnderstood == Spec => []UrlUnderstood
<1>1. QueryInv => UrlUnderstood
  BY DEF QueryInv, Asked
<1> QED BY <1>1, QueryIsAsked, PTL

\* Whatever the URL, the query fits the block allocated for it (wgetX.c:157-163).
THEOREM QueryFits == Spec => []QueryFitsBlock
<1>1. QueryInv => QueryFitsBlock
  <2> SUFFICES ASSUME QueryInv PROVE QueryFitsBlock
    OBVIOUS
  <2>1. info.host \in Seq(Octet) /\ info.path \in Seq(Octet)
    BY DEF QueryInv, Asked
  <2>2. Query \in Seq(Octet) /\ Len(Query) + 1 = QuerySize(info.host, info.path)
    BY <2>1, QueryIs DEF Query
  <2> QED BY <2>2 DEF QueryFitsBlock
<1> QED BY <1>1, QueryIsAsked, PTL

\* The web server gets the query once and in order, however send cuts it
\* (wgetX.c:81-89), and all of it before anything is received.
THEOREM QueryDoesArrive == Spec => []QueryArrives
<1>1. QueryInv => QueryArrives
  <2> SUFFICES ASSUME QueryInv PROVE QueryArrives
    OBVIOUS
  <2>1. Query \in Seq(Octet)
    BY QueryIs DEF QueryInv, Asked, Query
  <2> QED BY <2>1, PrefixOfQuery DEF QueryInv, Asked, QueryArrives
<1> QED BY <1>1, QueryIsAsked, PTL
=============================================================================
