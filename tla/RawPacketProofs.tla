--------------------------- MODULE RawPacketProofs ---------------------------
(***************************************************************************)
(* The checksums of TD5/RawIP_TD/header.c verify, for every payload that   *)
(* an IP packet can carry.  Numbers as large as the sums are for the SMT   *)
(* solver only, which the leaves about them name.                          *)
(***************************************************************************)
EXTENDS RawPacket, CStringsProofs

-----------------------------------------------------------------------------
\* The carries.

\* 32768 words of at most 65535: 65535 * 32768.
MaxSum == 2147450880

\* The high and the low half of a number.
LEMMA Halves ==
    ASSUME NEW n \in Nat
    PROVE  \E h, l \in Nat :
              h = n \div 65536 /\ l = n % 65536 /\ l < 65536 /\ n = 65536 * h + l
  <1>1. n = 65536 * (n \div 65536) + (n % 65536)
    BY SMT
  <1>2. n \div 65536 \in Nat
    BY SMT
  <1>3. n % 65536 \in Nat
    BY SMT
  <1>4. n % 65536 < 65536
    BY SMT
  <1> WITNESS n \div 65536 \in Nat, n % 65536 \in Nat
  <1> QED BY SMT, <1>1, <1>4

\* A number below 2^17 carries at most once.
LEMMA OneCarry ==
    ASSUME NEW n \in Nat, n < 131072
    PROVE  /\ n \div 65536 = IF n < 65536 THEN 0 ELSE 1
           /\ n % 65536 = IF n < 65536 THEN n ELSE n - 65536
  <1>1. PICK h, l \in Nat :
           h = n \div 65536 /\ l = n % 65536 /\ l < 65536 /\ n = 65536 * h + l
    BY SMT, Halves
  <1>2. h = IF n < 65536 THEN 0 ELSE 1
    BY SMT, <1>1
  <1>3. l = IF n < 65536 THEN n ELSE n - 65536
    BY SMT, <1>1, <1>2
  <1> QED BY SMT, <1>1, <1>2, <1>3

\* Adding the carries twice is enough (header.c:258-259): the second addition
\* leaves once, or once less 65535, in the low 16 bits, and no carry is lost.
LEMMA SecondFold ==
    ASSUME NEW sum, NEW once \in Nat, once < 131071,
           once = sum \div 65536 + (sum % 65536)
    PROVE  Fold(sum) % 65536 = IF once < 65536 THEN once ELSE once - 65535
  <1>1. once \div 65536 = IF once < 65536 THEN 0 ELSE 1
    BY SMT, OneCarry
  <1>2. Fold(sum) = once + once \div 65536
    BY SMT DEF Fold
  <1>3. PICK folded \in Nat :
           folded = Fold(sum) /\ folded = IF once < 65536 THEN once ELSE once + 1
    BY SMT, <1>1, <1>2
  <1>4. folded < 131072
    BY SMT, <1>3
  <1>5. folded % 65536 = IF folded < 65536 THEN folded ELSE folded - 65536
    BY SMT, <1>4, OneCarry
  <1>6. folded % 65536 = IF once < 65536 THEN once ELSE once - 65535
    BY SMT, <1>3, <1>5
  <1> QED BY SMT, <1>3, <1>6

\* The 16 bits that are complemented are the sum with end-around carry, that is
\* the sum modulo 65535 (header.c:258-260); they are zero only for a sum of zero.
THEOREM FoldIsOnesComplementSum ==
    ASSUME NEW sum \in Nat, sum <= MaxSum
    PROVE  \E bits, q \in Nat :
              /\ bits = Fold(sum) % 65536
              /\ bits <= 65535
              /\ sum = 65535 * q + bits
              /\ bits = 0 => sum = 0
  <1>1. PICK h, l \in Nat :
           h = sum \div 65536 /\ l = sum % 65536 /\ l < 65536 /\ sum = 65536 * h + l
    BY SMT, Halves
  <1>2. h <= 32767
    BY SMT, <1>1 DEF MaxSum
  <1>3. PICK once \in Nat : once = h + l
    BY SMT
  <1>4. once < 131071
    BY SMT, <1>1, <1>2, <1>3
  <1>5. Fold(sum) % 65536 = IF once < 65536 THEN once ELSE once - 65535
    BY SMT, <1>1, <1>3, <1>4, SecondFold
  <1>6. CASE once < 65536
    <2>1. sum = 65535 * h + once
      BY SMT, <1>1, <1>3
    <2>2. once = 0 => sum = 0
      BY SMT, <1>1, <1>3
    <2>3. Fold(sum) % 65536 = once
      BY SMT, <1>5, <1>6
    <2> WITNESS once \in Nat, h \in Nat
    <2> QED BY SMT, <1>6, <2>1, <2>2, <2>3
  <1>7. CASE once >= 65536
    <2>1. PICK bits \in Nat : bits = once - 65535
      BY SMT, <1>7
    <2>2. PICK q \in Nat : q = h + 1 /\ sum = 65535 * q + bits
      BY SMT, <1>1, <1>3, <2>1
    <2>3. bits # 0 /\ bits <= 65535
      BY SMT, <1>4, <1>7, <2>1
    <2>4. Fold(sum) % 65536 = bits
      BY SMT, <1>5, <1>7, <2>1
    <2> WITNESS bits \in Nat, q \in Nat
    <2> QED BY SMT, <2>2, <2>3, <2>4
  <1> QED BY SMT, <1>6, <1>7

\* A receiver that adds the checksum to the sum gets a multiple of 65535, zero to
\* one's complement arithmetic, whatever the data (header.c:258-260).
THEOREM ComplementVerifies ==
    ASSUME NEW sum \in Nat, sum <= MaxSum
    PROVE  \E q \in Nat : sum + Complement(Fold(sum)) = 65535 * q
  <1>1. PICK bits, q \in Nat :
           bits = Fold(sum) % 65536 /\ bits <= 65535 /\ sum = 65535 * q + bits
    BY SMT, FoldIsOnesComplementSum
  <1>2. Complement(Fold(sum)) = 65535 - bits
    BY SMT, <1>1 DEF Complement
  <1>3. PICK r \in Nat : r = q + 1 /\ sum + Complement(Fold(sum)) = 65535 * r
    BY SMT, <1>1, <1>2
  <1> WITNESS r \in Nat
  <1> QED BY SMT, <1>3

-----------------------------------------------------------------------------
\* The sums.

\* The octets of the words.
LEMMA WordsIs ==
    ASSUME NEW x \in Seq(Octet)
    PROVE  /\ Words(x) \in Nat
           /\ 2 * Words(x) = Len(x) \/ 2 * Words(x) = Len(x) + 1
<1>1. PICK n \in Nat : n = Len(x)
  OBVIOUS
<1>2. \A l \in Nat : (l + 1) \div 2 \in Nat
                     /\ (2 * ((l + 1) \div 2) = l \/ 2 * ((l + 1) \div 2) = l + 1)
  BY SMT
<1> QED BY <1>1, <1>2 DEF Words

\* Two octets, the low one first.
Pair(low, high) == low + 256 * high

LEMMA PairType ==
    ASSUME NEW a \in Octet, NEW b \in Octet
    PROVE  Pair(a, b) \in Nat /\ Pair(a, b) <= 65535
<1>1. a \in Nat /\ b \in Nat /\ a <= 255 /\ b <= 255
  BY SMT DEF Octet
<1> QED BY <1>1, SMT DEF Pair

\* A word in the order of the machine, and in that of the network.
LEMMA WordIs ==
    ASSUME NEW x \in Seq(Octet), NEW k \in 1 .. Words(x)
    PROVE  \E a, b \in Octet :
              /\ a = x[2 * k - 1]
              /\ b = IF 2 * k <= Len(x) THEN x[2 * k] ELSE 0
              /\ Word(x, k) = Pair(a, b)
              /\ NetworkWord(x, k) = Pair(b, a)
<1>1. 2 * k - 1 \in 1 .. Len(x)
  BY WordsIs
<1>2. PICK a \in Octet : a = x[2 * k - 1]
  BY <1>1
<1>3. PICK b \in Octet : b = IF 2 * k <= Len(x) THEN x[2 * k] ELSE 0
  <2>1. 2 * k <= Len(x) => 2 * k \in 1 .. Len(x)
    BY <1>1
  <2>2. 0 \in Octet
    BY DEF Octet
  <2> QED BY <2>1, <2>2
<1>4. Word(x, k) = Pair(a, b)
  BY <1>2, <1>3, SMT DEF Word, Octet, Pair
<1>5. NetworkWord(x, k) = Pair(b, a)
  BY <1>2, <1>3, SMT DEF NetworkWord, Octet, Pair
<1> QED BY <1>2, <1>3, <1>4, <1>5

\* The loop of checksum.
LEMMA WordSumIs ==
    ASSUME NEW x \in Seq(Octet)
    PROVE  \E sum \in [0 .. Words(x) -> Nat] :
              /\ sum[0] = 0
              /\ \A k \in 1 .. Words(x) : sum[k] = sum[k - 1] + Word(x, k)
              /\ WordSum(x) = sum[Words(x)]
<1> DEFINE n == Words(x)
           round == [k \in 1 .. n |-> [s \in Nat |-> s + Word(x, k)]]
           Sol(g) == g = [k \in 0 .. n |-> IF k = 0 THEN 0 ELSE g[k - 1] + Word(x, k)]
           sum == CHOOSE g : Sol(g)
<1>1. n \in Nat
  BY WordsIs
<1>2. \A k \in 1 .. n : Word(x, k) \in Nat
  <2> TAKE k \in 1 .. n
  <2>1. PICK a, b \in Octet : Word(x, k) = Pair(a, b)
    BY WordIs
  <2> QED BY <2>1, PairType
<1>3. WordSum(x) = sum[n]
  BY Zenon DEF WordSum, sum, Sol, n
<1> HIDE DEF n, sum
<1>4. round \in [1 .. n -> [Nat -> Nat]]
  BY <1>2
<1>5. \A s \in Nat, k \in 1 .. n : round[k][s] = s + Word(x, k)
  OBVIOUS
<1> HIDE DEF round
<1>6. PICK v \in [0 .. n -> Nat] :
         v[0] = 0 /\ \A k \in 1 .. n : v[k] = round[k][v[k - 1]]
  <2> DEFINE S == Nat
  <2>1. 0 \in S /\ round \in [1 .. n -> [S -> S]]
    BY <1>4
  <2>2. \E v \in [0 .. n -> S] : IsLoop(v, 0, n, round)
    <3> HIDE DEF S
    <3> QED BY <1>1, <2>1, LoopExists, Zenon
  <2> QED BY <2>2 DEF IsLoop
<1>7. \A k \in 1 .. n : v[k] = v[k - 1] + Word(x, k)
  BY <1>1, <1>5, <1>6
<1>8. Sol(v)
  BY <1>1, <1>6, <1>7
<1>9. Sol(sum)
  <2> HIDE DEF Sol
  <2> QED BY <1>8 DEF sum
<1>10. sum = v
  <2> DEFINE P == {k \in Nat : k <= n => sum[k] = v[k]}
  <2>1. \A k \in 0 .. n : sum[k] = IF k = 0 THEN 0 ELSE sum[k - 1] + Word(x, k)
    BY <1>9, Zenon
  <2>2. 0 \in P
    BY <1>1, <1>6, <2>1
  <2>3. ASSUME NEW k \in Nat, k \in P
        PROVE  k + 1 \in P
    <3> SUFFICES ASSUME k + 1 <= n PROVE sum[k + 1] = v[k + 1]
      OBVIOUS
    <3>1. PICK l \in 1 .. n : l = k + 1 /\ l \in 0 .. n /\ l # 0 /\ l - 1 = k
      BY <1>1
    <3>2. sum[k] = v[k]
      BY <1>1, <2>3
    <3>3. v[l] = v[l - 1] + Word(x, l)
      BY <1>7, <3>1, Zenon
    <3>4. sum[l] = sum[l - 1] + Word(x, l)
      BY <2>1, <3>1, Zenon
    <3> QED BY <3>1, <3>2, <3>3, <3>4
  <2> HIDE DEF P
  <2>4. \A k \in Nat : k \in P
    BY <2>2, <2>3, AllNumbers
  <2>5. \A k \in 0 .. n : sum[k] = v[k]
    BY <2>4 DEF P
  <2>6. sum = [k \in 0 .. n |-> sum[k]]
    BY <1>9
  <2> QED BY <2>5, <2>6
<1> QED BY <1>3, <1>6, <1>7, <1>10 DEF n

\* The loop of a receiver, which stays among the words.
Short == {s \in Nat : s <= 65535}

LEMMA OnesAddType ==
    ASSUME NEW a \in Short, NEW b \in Short
    PROVE  OnesAdd(a, b) \in Short
  BY SMT DEF OnesAdd, Short

LEMMA OnesSumIs ==
    ASSUME NEW x \in Seq(Octet)
    PROVE  \E sum \in [0 .. Words(x) -> Short] :
              /\ sum[0] = 0
              /\ \A k \in 1 .. Words(x) : sum[k] = OnesAdd(sum[k - 1], NetworkWord(x, k))
              /\ OnesSum(x) = sum[Words(x)]
<1> DEFINE n == Words(x)
           S == Short
           round == [k \in 1 .. n |-> [s \in S |-> OnesAdd(s, NetworkWord(x, k))]]
           Sol(g) == g = [k \in 0 .. n |->
                            IF k = 0 THEN 0 ELSE OnesAdd(g[k - 1], NetworkWord(x, k))]
           sum == CHOOSE g : Sol(g)
<1>1. n \in Nat
  BY WordsIs
<1>2. \A k \in 1 .. n : NetworkWord(x, k) \in S
  <2> TAKE k \in 1 .. n
  <2>1. PICK a, b \in Octet : NetworkWord(x, k) = Pair(b, a)
    BY WordIs
  <2> QED BY <2>1, PairType, SMT DEF Short
<1>3. OnesSum(x) = sum[n]
  BY Zenon DEF OnesSum, sum, Sol, n
<1>4. 0 \in S
  BY SMT DEF Short
<1>5. \A a, b \in S : OnesAdd(a, b) \in S
  BY OnesAddType
<1> HIDE DEF n, sum, S
<1>6. round \in [1 .. n -> [S -> S]]
  BY <1>2, <1>5
<1>7. \A s \in S, k \in 1 .. n : round[k][s] = OnesAdd(s, NetworkWord(x, k))
  OBVIOUS
<1> HIDE DEF round
<1>8. PICK v \in [0 .. n -> S] :
         v[0] = 0 /\ \A k \in 1 .. n : v[k] = round[k][v[k - 1]]
  <2>1. \E v \in [0 .. n -> S] : IsLoop(v, 0, n, round)
    BY <1>1, <1>4, <1>6, LoopExists, Zenon
  <2> QED BY <2>1 DEF IsLoop
<1>9. \A k \in 1 .. n : v[k] = OnesAdd(v[k - 1], NetworkWord(x, k))
  BY <1>1, <1>7, <1>8
<1>10. Sol(v)
  BY <1>1, <1>8, <1>9
<1>11. Sol(sum)
  <2> HIDE DEF Sol
  <2> QED BY <1>10 DEF sum
<1>12. sum = v
  <2> DEFINE P == {k \in Nat : k <= n => sum[k] = v[k]}
  <2>1. \A k \in 0 .. n : sum[k] = IF k = 0 THEN 0 ELSE OnesAdd(sum[k - 1], NetworkWord(x, k))
    BY <1>11, Zenon
  <2>2. 0 \in P
    BY <1>1, <1>8, <2>1
  <2>3. ASSUME NEW k \in Nat, k \in P
        PROVE  k + 1 \in P
    <3> SUFFICES ASSUME k + 1 <= n PROVE sum[k + 1] = v[k + 1]
      OBVIOUS
    <3>1. PICK l \in 1 .. n : l = k + 1 /\ l \in 0 .. n /\ l # 0 /\ l - 1 = k
      BY <1>1
    <3>2. sum[k] = v[k]
      BY <1>1, <2>3
    <3> QED BY <1>9, <2>1, <3>1, <3>2, Zenon
  <2> HIDE DEF P
  <2>4. \A k \in Nat : k \in P
    BY <2>2, <2>3, AllNumbers
  <2>5. \A k \in 0 .. n : sum[k] = v[k]
    BY <2>4 DEF P
  <2>6. sum = [k \in 0 .. n |-> sum[k]]
    BY <1>11
  <2> QED BY <2>5, <2>6
<1> QED BY <1>3, <1>8, <1>9, <1>12 DEF n, S

\* The sums of a machine and of a receiver, after as many words.
Same(s, r) ==
    /\ \E c \in Nat : 256 * s = r + 65535 * c
    /\ r = 0 => s = 0

LEMMA SameAfter ==
    ASSUME NEW s \in Nat, NEW r \in Short, Same(s, r), NEW a \in Octet, NEW b \in Octet
    PROVE  Same(s + Pair(a, b), OnesAdd(r, Pair(b, a)))
<1>1. PICK c \in Nat : 256 * s = r + 65535 * c
  BY SMT DEF Same
<1>2. a \in Nat /\ b \in Nat /\ a <= 255 /\ b <= 255 /\ r \in Nat /\ r <= 65535
  BY SMT DEF Octet, Short
<1>3. PICK m \in Nat : m = Pair(b, a)
  BY PairType
<1>4. PICK t \in Nat : t = s + Pair(a, b)
  BY PairType
<1>5. 256 * t = r + m + 65535 * (c + b)
  BY <1>1, <1>2, <1>3, <1>4, SMT DEF Pair
<1>6. CASE r + m > 65535
  <2>1. PICK d \in Nat : d = c + b + 1
    BY <1>2
  <2>2. OnesAdd(r, m) = r + m - 65535
    BY <1>6, SMT DEF OnesAdd
  <2>3. 256 * t = OnesAdd(r, m) + 65535 * d /\ OnesAdd(r, m) # 0
    BY <1>2, <1>5, <1>6, <2>1, <2>2, SMT
  <2> QED BY <1>3, <1>4, <2>1, <2>3, SMT DEF Same
<1>7. CASE ~(r + m > 65535)
  <2>1. PICK d \in Nat : d = c + b
    BY <1>2
  <2>2. OnesAdd(r, m) = r + m
    BY <1>7, SMT DEF OnesAdd
  <2>3. 256 * t = OnesAdd(r, m) + 65535 * d
    BY <1>5, <2>1, <2>2, SMT
  <2>4. OnesAdd(r, m) = 0 => t = 0
    <3>1. OnesAdd(r, m) = 0 => r = 0 /\ a = 0 /\ b = 0
      BY <1>2, <1>3, <2>2, SMT DEF Pair
    <3>2. r = 0 => s = 0
      BY SMT DEF Same
    <3> QED BY <1>2, <1>4, <3>1, <3>2, SMT DEF Pair
  <2> QED BY <1>3, <1>4, <2>1, <2>3, <2>4, SMT DEF Same
<1> QED BY <1>2, <1>3, <1>6, <1>7, SMT

\* The words of a receiver add up to what those of the machine do, as far as the
\* checksum goes: a swap of the octets of each word is a multiplication by 256,
\* and the carries are added at once instead of at the end.
LEMMA SameSums ==
    ASSUME NEW x \in Seq(Octet)
    PROVE  WordSum(x) \in Nat /\ OnesSum(x) \in Short /\ Same(WordSum(x), OnesSum(x))
<1> DEFINE n == Words(x)
<1>1. n \in Nat
  BY WordsIs
<1>2. PICK h \in [0 .. n -> Nat] :
         /\ h[0] = 0
         /\ \A k \in 1 .. n : h[k] = h[k - 1] + Word(x, k)
         /\ WordSum(x) = h[n]
  BY WordSumIs
<1>3. PICK o \in [0 .. n -> Short] :
         /\ o[0] = 0
         /\ \A k \in 1 .. n : o[k] = OnesAdd(o[k - 1], NetworkWord(x, k))
         /\ OnesSum(x) = o[n]
  BY OnesSumIs
<1> DEFINE P == {k \in Nat : k <= n => Same(h[k], o[k])}
<1>4. 0 \in P
  <2>1. Same(0, 0)
    BY SMT DEF Same
  <2> QED BY <1>2, <1>3, <2>1
<1>6. ASSUME NEW k \in Nat, k \in P
      PROVE  k + 1 \in P
  <2> SUFFICES ASSUME k + 1 <= n PROVE Same(h[k + 1], o[k + 1])
    OBVIOUS
  <2>1. PICK l \in 1 .. n : l = k + 1 /\ l - 1 = k /\ k \in 0 .. n
    BY <1>1
  <2>2. Same(h[k], o[k])
    BY <1>1, <1>6
  <2>3. PICK a, b \in Octet : Word(x, l) = Pair(a, b) /\ NetworkWord(x, l) = Pair(b, a)
    BY WordIs
  <2>4. h[l] = h[k] + Pair(a, b) /\ o[l] = OnesAdd(o[k], Pair(b, a))
    BY <1>2, <1>3, <2>1, <2>3, Zenon
  <2>5. h[k] \in Nat /\ o[k] \in Short
    BY <2>1
  <2> QED BY <2>1, <2>2, <2>4, <2>5, SameAfter, Zenon
<1> HIDE DEF P
<1>7. \A k \in Nat : k \in P
  BY <1>4, <1>6, AllNumbers
<1>8. Same(h[n], o[n])
  BY <1>1, <1>7 DEF P
<1> QED BY <1>1, <1>2, <1>3, <1>8

\* A sum that is a multiple of 65535, and not zero, is 65535 to the receiver.
LEMMA SumVerifies ==
    ASSUME NEW x \in Seq(Octet), NEW q \in Nat, WordSum(x) = 65535 * q, WordSum(x) # 0
    PROVE  OnesSum(x) = 65535
<1>1. PICK s \in Nat : s = WordSum(x)
  BY SameSums, SMT
<1>2. PICK r \in Nat : r = OnesSum(x) /\ r <= 65535
  BY SameSums, SMT DEF Short
<1>3. Same(s, r)
  BY SameSums, <1>1, <1>2, SMT
<1>4. PICK c \in Nat : 256 * s = r + 65535 * c
  BY <1>3, SMT DEF Same
<1>5. r # 0
  BY <1>1, <1>3, SMT DEF Same
<1>6. r = 65535 * (256 * q - c)
  BY <1>1, <1>4, SMT
<1>7. r = 65535
  BY <1>2, <1>5, <1>6, SMT
<1> QED BY <1>2, <1>7, SMT

\* 64 KB of words cannot exceed what the carries are folded for.
LEMMA SumBound ==
    ASSUME NEW x \in Seq(Octet), Len(x) <= 65536
    PROVE  WordSum(x) \in Nat /\ WordSum(x) <= MaxSum
<1> DEFINE n == Words(x)
<1>1. n \in Nat /\ n <= 32768
  <2>1. PICK l \in Nat : l = Len(x) /\ l <= 65536
    OBVIOUS
  <2> QED BY <2>1, WordsIs, SMT
<1>2. PICK h \in [0 .. n -> Nat] :
         /\ h[0] = 0
         /\ \A k \in 1 .. n : h[k] = h[k - 1] + Word(x, k)
         /\ WordSum(x) = h[n]
  BY WordSumIs
<1> DEFINE P == {k \in Nat : k <= n => h[k] <= 65535 * k}
<1>3. 0 \in P
  <2>1. 0 <= 65535 * 0
    BY SMT
  <2> QED BY <1>2, <2>1
<1>4. ASSUME NEW k \in Nat, k \in P
      PROVE  k + 1 \in P
  <2> SUFFICES ASSUME k + 1 <= n PROVE h[k + 1] <= 65535 * (k + 1)
    OBVIOUS
  <2>1. PICK l \in 1 .. n : l = k + 1 /\ l - 1 = k /\ k \in 0 .. n
    BY <1>1
  <2>2. PICK s \in Nat : s = h[k] /\ s <= 65535 * k
    BY <1>1, <1>4, <2>1
  <2>3. PICK w \in Nat : w = Word(x, l) /\ w <= 65535
    <3>1. PICK a, b \in Octet : Word(x, l) = Pair(a, b)
      BY WordIs
    <3> QED BY <3>1, PairType, SMT
  <2>4. h[l] = s + w
    BY <1>2, <2>1, <2>2, <2>3, SMT
  <2>5. s + w <= 65535 * (k + 1)
    BY <2>2, <2>3, SMT
  <2> QED BY <2>1, <2>4, <2>5, SMT
<1> HIDE DEF P
<1>5. \A k \in Nat : k \in P
  BY <1>3, <1>4, AllNumbers
<1>6. PICK s \in Nat : s = h[n] /\ s <= 65535 * n
  BY <1>1, <1>5 DEF P
<1>7. s <= MaxSum
  BY <1>1, <1>6, SMT DEF MaxSum
<1> QED BY <1>2, <1>6, <1>7

\* Data of which one word, the j-th of n, is greater by check.
OneGreater(x, y, n, j, check) ==
    /\ Words(x) = n /\ Words(y) = n /\ j \in 1 .. n
    /\ \A k \in 1 .. n : Word(x, k) = IF k = j THEN Word(y, k) + check ELSE Word(y, k)

LEMMA SumWithCheck ==
    ASSUME NEW x \in Seq(Octet), NEW y \in Seq(Octet),
           NEW n \in Nat, NEW j, NEW check \in Nat, OneGreater(x, y, n, j, check)
    PROVE  WordSum(x) = WordSum(y) + check
<1>1. /\ Words(x) = n /\ Words(y) = n /\ j \in 1 .. n
      /\ \A k \in 1 .. n : Word(x, k) = IF k = j THEN Word(y, k) + check ELSE Word(y, k)
  BY DEF OneGreater
<1>2. PICK g \in [0 .. n -> Nat] :
         /\ g[0] = 0
         /\ \A k \in 1 .. n : g[k] = g[k - 1] + Word(x, k)
         /\ WordSum(x) = g[n]
  BY <1>1, WordSumIs
<1>3. PICK h \in [0 .. n -> Nat] :
         /\ h[0] = 0
         /\ \A k \in 1 .. n : h[k] = h[k - 1] + Word(y, k)
         /\ WordSum(y) = h[n]
  BY <1>1, WordSumIs
<1> DEFINE P == {k \in Nat : k <= n => g[k] = IF k < j THEN h[k] ELSE h[k] + check}
<1>4. 0 \in P
  BY <1>1, <1>2, <1>3
<1>5. ASSUME NEW k \in Nat, k \in P
      PROVE  k + 1 \in P
  <2>1. k + 1 <= n => g[k + 1] = IF k + 1 < j THEN h[k + 1] ELSE h[k + 1] + check
    <3> SUFFICES ASSUME k + 1 <= n
                 PROVE  g[k + 1] = IF k + 1 < j THEN h[k + 1] ELSE h[k + 1] + check
      OBVIOUS
    <3>1. PICK l \in 1 .. n : l = k + 1 /\ l - 1 = k /\ k \in 0 .. n
      OBVIOUS
    <3>2. PICK s \in Nat : s = h[k]
      BY <3>1
    <3>3. g[k] = IF k < j THEN s ELSE s + check
      BY <1>5, <3>1, <3>2
    <3>4. PICK w \in Nat : w = Word(y, l)
      <4>1. PICK a, b \in Octet : Word(y, l) = Pair(a, b)
        <5>1. l \in 1 .. Words(y)
          BY <1>1, <3>1
        <5> QED BY <5>1, WordIs
      <4> QED BY <4>1, PairType
    <3>5. h[l] = s + w
      BY <1>3, <3>1, <3>2, <3>4
    <3>6. g[l] = g[k] + IF l = j THEN w + check ELSE w
      BY <1>1, <1>2, <3>1, <3>4
    <3>7. g[l] = IF l < j THEN s + w ELSE s + w + check
      <4>1. (k < j <=> l < j \/ l = j) /\ (l < j => l # j) /\ s + check + w = s + w + check
        BY <1>1, <3>1
      <4>2. CASE l < j
        BY <3>3, <3>6, <4>1, <4>2
      <4>3. CASE l = j
        BY <3>3, <3>6, <4>1, <4>3
      <4>4. CASE ~(l < j) /\ l # j
        BY <3>3, <3>6, <4>1, <4>4
      <4> QED BY <4>2, <4>3, <4>4
    <3> QED BY <3>1, <3>5, <3>7
  <2> QED BY <2>1
<1> HIDE DEF P
<1>6. \A k \in Nat : k \in P
  BY <1>4, <1>5, AllNumbers
<1>7. g[n] = h[n] + check
  BY <1>1, <1>6 DEF P
<1> QED BY <1>2, <1>3, <1>7

\* checksum returns an unsigned short.
LEMMA ChecksumType ==
    ASSUME NEW x \in Seq(Octet)
    PROVE  checksum(x) \in Short
<1>1. PICK s \in Nat : s = WordSum(x)
  <2>1. PICK sum \in [0 .. Words(x) -> Nat] : WordSum(x) = sum[Words(x)]
    BY WordSumIs
  <2> QED BY <2>1, WordsIs
<1>2. PICK h, l \in Nat : h = s \div 65536 /\ l = s % 65536
  BY Halves, SMT
<1>3. PICK once \in Nat : once = h + l
  OBVIOUS
<1>4. PICK c, d \in Nat : c = once \div 65536 /\ d = once % 65536
  BY Halves, SMT
<1>5. PICK f \in Nat : f = Fold(s) /\ f = once + c
  BY <1>2, <1>3, <1>4, SMT DEF Fold
<1>6. PICK i, j \in Nat : i = f \div 65536 /\ j = f % 65536 /\ j < 65536
  BY Halves, SMT
<1>7. checksum(x) = 65535 - j
  BY <1>1, <1>5, <1>6 DEF checksum, Complement
<1> QED BY <1>6, <1>7, SMT DEF Short

\* Data that contains its own checksum verifies.
LEMMA CheckVerifies ==
    ASSUME NEW x \in Seq(Octet), NEW y \in Seq(Octet), Len(y) <= 65536,
           WordSum(x) = WordSum(y) + checksum(y)
    PROVE  OnesSum(x) = 65535
<1>1. PICK s \in Nat : s = WordSum(y) /\ s <= MaxSum
  BY SumBound
<1>2. checksum(y) = Complement(Fold(s))
  BY <1>1 DEF checksum
<1>3. PICK c \in Nat : c = checksum(y)
  BY ChecksumType DEF Short
<1>4. PICK q \in Nat : s + c = 65535 * q
  BY <1>1, <1>2, <1>3, ComplementVerifies, SMT
<1>5. s + c # 0
  <2> SUFFICES ASSUME s = 0, c = 0 PROVE FALSE
    BY SMT
  <2>1. Fold(0) = 0
    BY SMT DEF Fold
  <2>2. Complement(0) = 65535
    BY SMT DEF Complement
  <2> QED BY <1>2, <1>3, <2>1, <2>2, SMT
<1>6. WordSum(x) = 65535 * q /\ WordSum(x) # 0
  BY <1>1, <1>3, <1>4, <1>5, SMT
<1> QED BY <1>6, SumVerifies

\* A word in front of data.
LEMMA SumOfRest ==
    ASSUME NEW x \in Seq(Octet), NEW s \in Seq(Octet), Len(x) = Len(s) + 2,
           \A i \in 1 .. Len(s) : x[i + 2] = s[i]
    PROVE  WordSum(x) = x[1] + 256 * x[2] + WordSum(s)
<1> DEFINE n == Words(s)
<1>1. n \in Nat /\ Words(x) = n + 1
  BY WordsIs
<1>2. PICK g \in [0 .. n + 1 -> Nat] :
         /\ g[0] = 0
         /\ \A k \in 1 .. n + 1 : g[k] = g[k - 1] + Word(x, k)
         /\ WordSum(x) = g[n + 1]
  BY <1>1, WordSumIs
<1>3. PICK h \in [0 .. n -> Nat] :
         /\ h[0] = 0
         /\ \A k \in 1 .. n : h[k] = h[k - 1] + Word(s, k)
         /\ WordSum(s) = h[n]
  BY WordSumIs
<1>4. PICK first \in Nat : first = x[1] + 256 * x[2] /\ first = Word(x, 1)
  <2>1. x[1] \in Octet /\ x[2] \in Octet
    OBVIOUS
  <2>2. x[1] + 256 * x[2] \in Nat
    BY <2>1, PairType DEF Pair
  <2> QED BY <2>2 DEF Word
<1>5. ASSUME NEW k \in 1 .. n
      PROVE  Word(x, k + 1) = Word(s, k)
  <2>0. Len(s) \in Nat /\ 2 * n <= Len(s) + 1 /\ k <= n
    BY WordsIs
  <2>1. 2 * k - 1 \in 1 .. Len(s) /\ 2 * (k + 1) - 1 = (2 * k - 1) + 2
    <3> HIDE DEF n
    <3> QED BY <1>1, <2>0
  <2>2. x[2 * (k + 1) - 1] = s[2 * k - 1]
    BY <2>1
  <2>3. 2 * (k + 1) <= Len(x) <=> 2 * k <= Len(s)
    BY <2>1
  <2>4. 2 * k <= Len(s) => x[2 * (k + 1)] = s[2 * k]
    <3> SUFFICES ASSUME 2 * k <= Len(s) PROVE x[2 * (k + 1)] = s[2 * k]
      OBVIOUS
    <3>1. 2 * k \in 1 .. Len(s) /\ 2 * (k + 1) = 2 * k + 2
      BY <2>1
    <3> QED BY <3>1
  <2> QED BY <2>2, <2>3, <2>4 DEF Word
<1> DEFINE P == {k \in Nat : k <= n => g[k + 1] = first + h[k]}
<1>6. 0 \in P
  <2>1. 1 \in 1 .. n + 1 /\ 1 - 1 = 0
    BY <1>1
  <2>2. g[1] = 0 + first
    BY <1>2, <1>4, <2>1
  <2> QED BY <1>3, <2>2
<1>7. ASSUME NEW k \in Nat, k \in P
      PROVE  k + 1 \in P
  <2> SUFFICES ASSUME k + 1 <= n PROVE g[k + 1 + 1] = first + h[k + 1]
    OBVIOUS
  <2>1. PICK l \in 1 .. n : l = k + 1 /\ l - 1 = k /\ k \in 0 .. n
    BY <1>1
  <2>2. PICK t \in Nat : t = h[k]
    BY <2>1
  <2>3. g[l] = first + t
    BY <1>1, <1>7, <2>1, <2>2
  <2>4. PICK w \in Nat : w = Word(s, l)
    <3>1. PICK a, b \in Octet : Word(s, l) = Pair(a, b)
      BY WordIs
    <3> QED BY <3>1, PairType
  <2>5. h[l] = t + w
    BY <1>3, <2>1, <2>2, <2>4
  <2>6. l + 1 \in 1 .. n + 1 /\ l + 1 - 1 = l
    BY <1>1
  <2>7. g[l + 1] = g[l] + w
    BY <1>2, <1>5, <2>4, <2>6
  <2> QED BY <2>1, <2>3, <2>5, <2>7
<1> HIDE DEF P
<1>8. \A k \in Nat : k \in P
  BY <1>6, <1>7, AllNumbers
<1>9. g[n + 1] = first + h[n] /\ h[n] \in Nat
  BY <1>1, <1>8 DEF P
<1> QED BY <1>2, <1>3, <1>4, <1>9

-----------------------------------------------------------------------------
\* Fields.

LEMMA TwoOctets ==
    ASSUME NEW a \in Octet, NEW b \in Octet
    PROVE  /\ <<a, b>> \in Seq(Octet) /\ Len(<<a, b>>) = 2
           /\ <<a, b>>[1] = a /\ <<a, b>>[2] = b
  OBVIOUS

\* A field of 16 bits is two octets, in either order.
LEMMA FieldType ==
    ASSUME NEW n \in Short
    PROVE  /\ NetworkOrder(n) \in Seq(Octet) /\ Len(NetworkOrder(n)) = 2
           /\ HostOrder(n) \in Seq(Octet) /\ Len(HostOrder(n)) = 2
           /\ HostOrder(n)[1] + 256 * HostOrder(n)[2] = n
<1>1. PICK m \in Nat : m = n /\ m <= 65535
  BY SMT DEF Short
<1>2. m = 256 * (m \div 256) + (m % 256) /\ m \div 256 \in Nat /\ m % 256 \in Nat
      /\ m % 256 <= 255
  BY SMT
<1>3. m \div 256 <= 255
  BY <1>1, <1>2, SMT
<1>4. PICK a, b \in Octet : a = m \div 256 /\ b = m % 256
  <2>1. m \div 256 \in Octet /\ m % 256 \in Octet
    BY <1>2, <1>3, SMT DEF Octet
  <2> QED BY <2>1
<1>5. NetworkOrder(n) = <<a, b>> /\ HostOrder(n) = <<b, a>>
  BY <1>1, <1>4 DEF NetworkOrder, HostOrder
<1>6. b + 256 * a = n
  BY <1>1, <1>2, <1>4, SMT
<1> QED BY <1>5, <1>6, TwoOctets

\* One text behind another.
IsJoined(r, s, m, t, n) ==
    /\ r \in Seq(Octet) /\ Len(r) = m + n
    /\ \A i \in 1 .. m : r[i] = s[i]
    /\ \A i \in 1 .. n : r[m + i] = t[i]

LEMMA Joined ==
    ASSUME NEW s \in Seq(Octet), NEW t \in Seq(Octet), NEW m, Len(s) = m, NEW n, Len(t) = n
    PROVE  IsJoined(s \o t, s, m, t, n)
<1> DEFINE r == s \o t
<1>1. m \in Nat /\ n \in Nat
  OBVIOUS
<1>2. /\ r \in Seq(Octet) /\ Len(r) = m + n
      /\ \A i \in 1 .. m + n : r[i] = IF i <= m THEN s[i] ELSE t[i - m]
  BY <1>1, ConcatProperties
<1> HIDE DEF r
<1>3. ASSUME NEW i \in 1 .. n
      PROVE  r[m + i] = t[i]
  <2>1. PICK j \in 1 .. m + n : j = m + i /\ ~(j <= m) /\ j - m = i
    BY <1>1
  <2> QED BY <1>2, <2>1
<1>4. \A i \in 1 .. m : r[i] = s[i]
  BY <1>1, <1>2
<1>5. IsJoined(r, s, m, t, n)
  BY <1>2, <1>3, <1>4 DEF IsJoined
<1> QED BY <1>5 DEF r

\* The fields of the IP header that the pseudo-header takes up.
IsIpHeader(header, ip, src, dst) ==
    /\ header \in Seq(Octet) /\ Len(header) = 20
    /\ header[10] = ip.protocol
    /\ \A i \in 1 .. 4 : header[12 + i] = src[i] /\ header[16 + i] = dst[i]

LEMMA IpHeaderIs ==
    ASSUME NEW ip, ip.tot_len \in Short, ip.ttl \in Octet, ip.protocol \in Octet,
           NEW check \in Short,
           NEW src \in Seq(Octet), Len(src) = 4, NEW dst \in Seq(Octet), Len(dst) = 4
    PROVE  IsIpHeader(IpHeader(ip, check, src, dst), ip, src, dst)
<1> DEFINE a == <<69, 0>>
           b == <<0, 0, 0, 0, ip.ttl, ip.protocol>>
           ab == a \o HostOrder(ip.tot_len)
           abb == ab \o b
           abc == abb \o HostOrder(check)
           abs == abc \o src
           header == abs \o dst
<1>1. a \in Seq(Octet) /\ Len(a) = 2
  BY DEF Octet
<1>2. b \in Seq(Octet) /\ Len(b) = 6 /\ b[6] = ip.protocol
  <2>1. 0 \in Octet
    BY DEF Octet
  <2> QED BY <2>1
<1> HIDE DEF a, b
<1> DEFINE tot == HostOrder(ip.tot_len)
           sum == HostOrder(check)
<1>3. /\ tot \in Seq(Octet) /\ Len(tot) = 2
      /\ sum \in Seq(Octet) /\ Len(sum) = 2
  BY FieldType
<1> HIDE DEF tot, sum
<1>4. ab \in Seq(Octet) /\ Len(ab) = 4
  <2>1. IsJoined(ab, a, 2, tot, 2)
    BY <1>1, <1>3, Joined, Zenon DEF tot
  <2> QED BY <2>1 DEF IsJoined
<1> HIDE DEF ab
<1>5. abb \in Seq(Octet) /\ Len(abb) = 10 /\ abb[10] = ip.protocol
  <2>1. IsJoined(abb, ab, 4, b, 6)
    BY <1>2, <1>4, Joined, Zenon
  <2>2. 6 \in 1 .. 6 /\ 4 + 6 = 10
    OBVIOUS
  <2> HIDE DEF abb
  <2> QED BY <1>2, <2>1, <2>2 DEF IsJoined
<1> HIDE DEF abb
<1>6. abc \in Seq(Octet) /\ Len(abc) = 12 /\ abc[10] = ip.protocol
  <2>1. IsJoined(abc, abb, 10, sum, 2)
    BY <1>3, <1>5, Joined, Zenon DEF sum
  <2>2. 10 \in 1 .. 10
    OBVIOUS
  <2> HIDE DEF abc
  <2> QED BY <1>5, <2>1, <2>2 DEF IsJoined
<1> HIDE DEF abc
<1>7. abs \in Seq(Octet) /\ Len(abs) = 16 /\ abs[10] = ip.protocol
      /\ \A i \in 1 .. 4 : abs[12 + i] = src[i]
  <2>1. IsJoined(abs, abc, 12, src, 4)
    BY <1>6, Joined, Zenon
  <2>2. 10 \in 1 .. 12
    OBVIOUS
  <2> HIDE DEF abs
  <2> QED BY <1>6, <2>1, <2>2 DEF IsJoined
<1> HIDE DEF abs
<1>8. IsJoined(header, abs, 16, dst, 4)
  BY <1>7, Joined, Zenon
<1>9. IpHeader(ip, check, src, dst) = header
  BY DEF IpHeader, header, abs, abc, abb, ab, a, b, tot, sum
<1> HIDE DEF header
<1>10. header[10] = ip.protocol /\ \A i \in 1 .. 4 : header[12 + i] = src[i]
  <2>1. \A i \in 1 .. 16 : header[i] = abs[i]
    BY <1>8 DEF IsJoined
  <2>2. ASSUME NEW i \in 1 .. 4 PROVE header[12 + i] = src[i]
    <3>1. PICK j \in 1 .. 16 : j = 12 + i
      OBVIOUS
    <3> QED BY <1>7, <2>1, <3>1
  <2> QED BY <1>7, <2>1, <2>2
<1>11. header \in Seq(Octet) /\ Len(header) = 20 /\ \A i \in 1 .. 4 : header[16 + i] = dst[i]
  BY <1>8 DEF IsJoined
<1>12. IsIpHeader(header, ip, src, dst)
  BY <1>10, <1>11 DEF IsIpHeader
<1> QED BY <1>9, <1>12

\* Four fields of 16 bits.
HasFields(r, s, n, a, b, c, d) ==
    /\ r \in Seq(Octet) /\ Len(r) = n + 8
    /\ \A i \in 1 .. n : r[i] = s[i]
    /\ \A i \in 1 .. 2 : /\ r[n + i] = a[i]
                         /\ r[n + 2 + i] = b[i]
                         /\ r[n + 4 + i] = c[i]
                         /\ r[n + 6 + i] = d[i]

LEMMA FourFields ==
    ASSUME NEW s \in Seq(Octet), NEW n \in Nat, Len(s) = n,
           NEW a \in Seq(Octet), Len(a) = 2, NEW b \in Seq(Octet), Len(b) = 2,
           NEW c \in Seq(Octet), Len(c) = 2, NEW d \in Seq(Octet), Len(d) = 2
    PROVE  HasFields(s \o a \o b \o c \o d, s, n, a, b, c, d)
<1> DEFINE p == s \o a
           q == p \o b
           t == q \o c
           r == t \o d
<1>1. IsJoined(p, s, n, a, 2)
  BY Joined, Zenon
<1>2. p \in Seq(Octet) /\ Len(p) = n + 2
  BY <1>1 DEF IsJoined
<1> HIDE DEF p
<1>3. IsJoined(q, p, n + 2, b, 2)
  BY <1>2, Joined, Zenon
<1>4. q \in Seq(Octet) /\ Len(q) = n + 4
  BY <1>3 DEF IsJoined
<1> HIDE DEF q
<1>5. IsJoined(t, q, n + 4, c, 2)
  BY <1>4, Joined, Zenon
<1>6. t \in Seq(Octet) /\ Len(t) = n + 6
  BY <1>5 DEF IsJoined
<1> HIDE DEF t
<1>7. IsJoined(r, t, n + 6, d, 2)
  BY <1>6, Joined, Zenon
<1>8. s \o a \o b \o c \o d = r
  BY DEF p, q, t, r
<1> HIDE DEF r
<1>9. ASSUME NEW i \in 1 .. n
      PROVE  r[i] = s[i]
  <2>1. i \in 1 .. n + 6 /\ i \in 1 .. n + 4 /\ i \in 1 .. n + 2
    OBVIOUS
  <2> QED BY <1>1, <1>3, <1>5, <1>7, <2>1 DEF IsJoined
<1>10. ASSUME NEW i \in 1 .. 2
       PROVE  r[n + i] = a[i] /\ r[n + 2 + i] = b[i] /\ r[n + 4 + i] = c[i]
              /\ r[n + 6 + i] = d[i]
  <2>1. PICK j \in 1 .. n + 2 : j = n + i /\ j \in 1 .. n + 4 /\ j \in 1 .. n + 6
    OBVIOUS
  <2>2. PICK k \in 1 .. n + 4 : k = n + 2 + i /\ k \in 1 .. n + 6
    OBVIOUS
  <2>3. PICK l \in 1 .. n + 6 : l = n + 4 + i
    OBVIOUS
  <2>4. r[j] = a[i]
    BY <1>1, <1>3, <1>5, <1>7, <2>1 DEF IsJoined
  <2>5. r[k] = b[i]
    BY <1>3, <1>5, <1>7, <2>2 DEF IsJoined
  <2>6. r[l] = c[i]
    BY <1>5, <1>7, <2>3 DEF IsJoined
  <2>7. r[n + 6 + i] = d[i]
    BY <1>7 DEF IsJoined
  <2> QED BY <2>1, <2>2, <2>3, <2>4, <2>5, <2>6, <2>7
<1>11. r \in Seq(Octet) /\ Len(r) = n + 8
  BY <1>7 DEF IsJoined
<1>12. HasFields(r, s, n, a, b, c, d)
  BY <1>9, <1>10, <1>11 DEF HasFields
<1> QED BY <1>8, <1>12

\* ... and what goes before them in a buffer of udp4_checksum and of a receiver.
IsPseudo(r, s, protocol, n) ==
    /\ r \in Seq(Octet) /\ Len(r) = 12
    /\ \A i \in 1 .. 8 : r[i] = s[i]
    /\ r[9] = 0 /\ r[10] = protocol /\ r[11] = n[1] /\ r[12] = n[2]

LEMMA PseudoIs ==
    ASSUME NEW s \in Seq(Octet), Len(s) = 8, NEW protocol \in Octet,
           NEW n \in Seq(Octet), Len(n) = 2
    PROVE  IsPseudo(s \o <<0, protocol>> \o n, s, protocol, n)
<1> DEFINE z == <<0, protocol>>
           p == s \o z
           r == p \o n
<1>1. z \in Seq(Octet) /\ Len(z) = 2 /\ z[1] = 0 /\ z[2] = protocol
  <2>1. 0 \in Octet
    BY DEF Octet
  <2> QED BY <2>1
<1> HIDE DEF z
<1>2. IsJoined(p, s, 8, z, 2)
  BY <1>1, Joined, Zenon
<1>3. p \in Seq(Octet) /\ Len(p) = 10
  BY <1>2 DEF IsJoined
<1>4. IsJoined(r, p, 10, n, 2)
  BY <1>3, Joined, Zenon
<1>5. s \o <<0, protocol>> \o n = r
  BY DEF z, p, r
<1> HIDE DEF p, r
<1>6. \A i \in 1 .. 10 : r[i] = p[i]
  BY <1>4 DEF IsJoined
<1>7. p[9] = 0 /\ p[10] = protocol
  <2>1. 8 + 1 = 9 /\ 8 + 2 = 10 /\ 1 \in 1 .. 2 /\ 2 \in 1 .. 2
    OBVIOUS
  <2> QED BY <1>1, <1>2, <2>1 DEF IsJoined
<1>8. r[11] = n[1] /\ r[12] = n[2]
  <2>1. 10 + 1 = 11 /\ 10 + 2 = 12 /\ 1 \in 1 .. 2 /\ 2 \in 1 .. 2
    OBVIOUS
  <2> QED BY <1>4, <2>1 DEF IsJoined
<1>9. r[9] = 0 /\ r[10] = protocol
  BY <1>6, <1>7
<1>10. \A i \in 1 .. 8 : r[i] = s[i]
  <2>1. \A i \in 1 .. 8 : i \in 1 .. 10
    OBVIOUS
  <2> QED BY <1>2, <1>6, <2>1 DEF IsJoined
<1>11. r \in Seq(Octet) /\ Len(r) = 12
  BY <1>4 DEF IsJoined
<1>12. IsPseudo(r, s, protocol, n)
  BY <1>8, <1>9, <1>10, <1>11 DEF IsPseudo
<1> QED BY <1>5, <1>12

\* What a UDP checksum is computed of: twelve octets, the UDP header without its
\* checksum, the payload and the octet that makes its number even.
IsPseudoDatagram(d, ip, udp, data) ==
    /\ d \in Seq(Octet)
    /\ Len(d) = Len(data) + 20 + (Len(data) % 2)
    /\ \A i \in 1 .. 4 : d[i] = ip.saddr[i] /\ d[4 + i] = ip.daddr[i]
    /\ d[9] = 0 /\ d[10] = ip.protocol
    /\ d[11] = NetworkOrder(udp.len)[1] /\ d[12] = NetworkOrder(udp.len)[2]
    /\ \A i \in 1 .. 2 : /\ d[12 + i] = NetworkOrder(udp.source)[i]
                         /\ d[14 + i] = NetworkOrder(udp.dest)[i]
                         /\ d[16 + i] = NetworkOrder(udp.len)[i]
                         /\ d[18 + i] = 0
    /\ \A i \in 1 .. Len(data) : d[20 + i] = data[i]
    /\ Len(data) % 2 = 1 => d[Len(data) + 21] = 0

LEMMA PseudoDatagramIs ==
    ASSUME NEW ip, NEW udp, ip.protocol \in Octet,
           ip.saddr \in Seq(Octet), Len(ip.saddr) = 4,
           ip.daddr \in Seq(Octet), Len(ip.daddr) = 4,
           udp.source \in Short, udp.dest \in Short, udp.len \in Short,
           NEW data \in Seq(Octet)
    PROVE  IsPseudoDatagram(PseudoDatagram(ip, udp, data), ip, udp, data)
<1> DEFINE n == Len(data)
           ss == ip.saddr \o ip.daddr
           no == NetworkOrder(udp.len)
           f == ss \o <<0, ip.protocol>> \o no
           zero == <<0, 0>>
           g == f \o NetworkOrder(udp.source) \o NetworkOrder(udp.dest) \o no \o zero
           pad == IF n % 2 = 1 THEN <<0>> ELSE <<>>
           h == g \o data
           d == h \o pad
<1>0. n \in Nat /\ n % 2 \in {0, 1}
  <2>1. \A l \in Nat : l % 2 \in {0, 1}
    BY SMT
  <2> QED BY <2>1
<1>1. IsJoined(ss, ip.saddr, 4, ip.daddr, 4)
  BY Joined, Zenon
<1>2. no \in Seq(Octet) /\ Len(no) = 2
  BY FieldType
<1>3. zero \in Seq(Octet) /\ Len(zero) = 2 /\ zero[1] = 0 /\ zero[2] = 0
  <2>1. 0 \in Octet
    BY DEF Octet
  <2> QED BY <2>1
<1>4. pad \in Seq(Octet) /\ Len(pad) = n % 2 /\ (n % 2 = 1 => pad[1] = 0)
  <2>1. 0 \in Octet
    BY DEF Octet
  <2>2. CASE n % 2 = 1
    BY <2>1, <2>2
  <2>3. CASE n % 2 = 0
    BY <2>3
  <2> QED BY <1>0, <2>2, <2>3
<1> HIDE DEF ss, zero, pad
<1>5. ss \in Seq(Octet) /\ Len(ss) = 8
  BY <1>1 DEF IsJoined
<1>6. IsPseudo(f, ss, ip.protocol, no)
  BY <1>2, <1>5, PseudoIs, Zenon DEF no
<1> HIDE DEF f, no
<1>f. f \in Seq(Octet) /\ Len(f) = 12
  BY <1>6 DEF IsPseudo
<1> DEFINE so == NetworkOrder(udp.source)
           de == NetworkOrder(udp.dest)
<1>7. /\ so \in Seq(Octet) /\ Len(so) = 2
      /\ de \in Seq(Octet) /\ Len(de) = 2
  BY FieldType
<1> HIDE DEF so, de
<1>8. HasFields(g, f, 12, so, de, no, zero)
  BY <1>2, <1>3, <1>f, <1>7, FourFields, Zenon DEF so, de
<1>9. g \in Seq(Octet) /\ Len(g) = 20
  BY <1>8 DEF HasFields
<1>10. PseudoDatagram(ip, udp, data) = d
  BY DEF PseudoDatagram, d, h, g, f, ss, no, zero, pad
<1> HIDE DEF g
<1>11. IsJoined(h, g, 20, data, n)
  BY <1>9, Joined, Zenon
<1>12. h \in Seq(Octet) /\ Len(h) = 20 + n
  BY <1>11 DEF IsJoined
<1> HIDE DEF h
<1>13. IsJoined(d, h, 20 + n, pad, n % 2)
  BY <1>4, <1>12, Joined, Zenon
<1> HIDE DEF d, n
<1>14. \A i \in 1 .. 20 : d[i] = g[i]
  <2> TAKE i \in 1 .. 20
  <2>1. i \in 1 .. 20 + n
    BY <1>0
  <2> QED BY <1>11, <1>13, <2>1 DEF IsJoined
<1>15. \A i \in 1 .. 12 : d[i] = f[i]
  <2>1. \A i \in 1 .. 12 : i \in 1 .. 20
    OBVIOUS
  <2> QED BY <1>8, <1>14, <2>1 DEF HasFields
<1>16. ASSUME NEW i \in 1 .. 4
       PROVE  d[i] = ip.saddr[i] /\ d[4 + i] = ip.daddr[i]
  <2>1. PICK j \in 1 .. 8 : j = 4 + i /\ j \in 1 .. 12 /\ i \in 1 .. 8 /\ i \in 1 .. 12
    OBVIOUS
  <2>2. d[i] = ss[i] /\ d[j] = ss[j]
    BY <1>6, <1>15, <2>1 DEF IsPseudo
  <2>3. ss[i] = ip.saddr[i] /\ ss[4 + i] = ip.daddr[i]
    BY <1>1 DEF IsJoined
  <2> QED BY <2>1, <2>2, <2>3
<1>17. d[9] = 0 /\ d[10] = ip.protocol /\ d[11] = no[1] /\ d[12] = no[2]
  BY <1>6, <1>15 DEF IsPseudo
<1>18. ASSUME NEW i \in 1 .. 2
       PROVE  d[12 + i] = so[i] /\ d[14 + i] = de[i] /\ d[16 + i] = no[i] /\ d[18 + i] = 0
  <2>1. PICK j \in 1 .. 20 : j = 12 + i
    OBVIOUS
  <2>2. PICK k \in 1 .. 20 : k = 14 + i /\ k = 12 + 2 + i
    OBVIOUS
  <2>3. PICK l \in 1 .. 20 : l = 16 + i /\ l = 12 + 4 + i
    OBVIOUS
  <2>4. PICK m \in 1 .. 20 : m = 18 + i /\ m = 12 + 6 + i
    OBVIOUS
  <2>5. zero[i] = 0
    BY <1>3
  <2>6. d[j] = g[j] /\ d[k] = g[k] /\ d[l] = g[l] /\ d[m] = g[m]
    BY <1>14
  <2>7. g[j] = so[i] /\ g[k] = de[i] /\ g[l] = no[i] /\ g[m] = zero[i]
    BY <1>8, <2>1, <2>2, <2>3, <2>4 DEF HasFields
  <2> QED BY <2>1, <2>2, <2>3, <2>4, <2>5, <2>6, <2>7
<1>19. ASSUME NEW i \in 1 .. n
       PROVE  d[20 + i] = data[i]
  <2>1. PICK j \in 1 .. 20 + n : j = 20 + i
    BY <1>0
  <2> QED BY <1>11, <1>13, <2>1 DEF IsJoined
<1>20. n % 2 = 1 => d[n + 21] = 0
  <2> SUFFICES ASSUME n % 2 = 1 PROVE d[n + 21] = 0
    OBVIOUS
  <2>1. 1 \in 1 .. 1 /\ 20 + n + 1 = n + 21
    BY <1>0
  <2> QED BY <1>4, <1>13, <2>1 DEF IsJoined
<1>21. d \in Seq(Octet) /\ Len(d) = n + 20 + (n % 2)
  BY <1>0, <1>13 DEF IsJoined
<1>22. IsPseudoDatagram(d, ip, udp, data)
  BY <1>16, <1>17, <1>18, <1>19, <1>20, <1>21 DEF IsPseudoDatagram, no, so, de, n
<1> QED BY <1>10, <1>22

\* Where main puts the fields of the packet.
IsPacket(p, ip, udp, check, data) ==
    /\ p \in Seq(Octet) /\ Len(p) = 28 + Len(data)
    /\ p[10] = ip.protocol
    /\ \A i \in 1 .. 4 : p[12 + i] = ip.saddr[i] /\ p[16 + i] = ip.daddr[i]
    /\ \A i \in 1 .. 2 : /\ p[20 + i] = NetworkOrder(udp.source)[i]
                         /\ p[22 + i] = NetworkOrder(udp.dest)[i]
                         /\ p[24 + i] = NetworkOrder(udp.len)[i]
                         /\ p[26 + i] = HostOrder(check)[i]
    /\ \A i \in 1 .. Len(data) : p[28 + i] = data[i]

\* The payloads that an IP packet can carry.
Fits(data) == Len(data) <= 65507

LEMMA HeadersType ==
    ASSUME NEW data \in Seq(Octet), Fits(data)
    PROVE  LET ip == iph(data)
               udp == udph(data)
           IN  /\ ip.tot_len \in Short /\ ip.ttl \in Octet /\ ip.protocol \in Octet
               /\ ip.saddr \in Seq(Octet) /\ Len(ip.saddr) = 4
               /\ ip.daddr \in Seq(Octet) /\ Len(ip.daddr) = 4
               /\ udp.source \in Short /\ udp.dest \in Short /\ udp.len \in Short
<1>1. PICK l \in Nat : l = Len(data) /\ l <= 65507
  BY SMT DEF Fits
<1>2. l + 28 \in Short /\ 8 + l \in Short /\ 54321 \in Short /\ 5555 \in Short
  BY <1>1, SMT DEF Short
<1>3. 17 \in Octet /\ 255 \in Octet
  BY SMT DEF Octet
<1>4. /\ 10 \in Octet /\ 200 \in Octet /\ 0 \in Octet /\ 124 \in Octet
      /\ 192 \in Octet /\ 168 \in Octet /\ 1 \in Octet /\ 123 \in Octet
  BY SMT DEF Octet
<1>5. /\ <<10, 200, 0, 124>> \in Seq(Octet) /\ Len(<<10, 200, 0, 124>>) = 4
      /\ <<192, 168, 1, 123>> \in Seq(Octet) /\ Len(<<192, 168, 1, 123>>) = 4
  BY <1>4, SMT
<1> QED BY <1>1, <1>2, <1>3, <1>5, SMT DEF iph, udph

LEMMA PacketIs ==
    ASSUME NEW data \in Seq(Octet), Fits(data)
    PROVE  IsPacket(Packet(data), iph(data), udph(data),
                    udp4_checksum(iph(data), udph(data), data), data)
<1> DEFINE n == Len(data)
           ip == iph(data)
           udp == udph(data)
           check == udp4_checksum(ip, udp, data)
           ipcheck == checksum(IpHeader(ip, 0, NoAddress, NoAddress))
           header == IpHeader(ip, ipcheck, ip.saddr, ip.daddr)
           so == NetworkOrder(udp.source)
           de == NetworkOrder(udp.dest)
           no == NetworkOrder(udp.len)
           ch == HostOrder(check)
           g == header \o so \o de \o no \o ch
           p == g \o data
<1>1. /\ ip.tot_len \in Short /\ ip.ttl \in Octet /\ ip.protocol \in Octet
      /\ ip.saddr \in Seq(Octet) /\ Len(ip.saddr) = 4
      /\ ip.daddr \in Seq(Octet) /\ Len(ip.daddr) = 4
      /\ udp.source \in Short /\ udp.dest \in Short /\ udp.len \in Short
  BY HeadersType
<1> HIDE DEF ip, udp
<1>2. ipcheck \in Short
  <2>1. NoAddress \in Seq(Octet) /\ Len(NoAddress) = 4
    <3>1. 0 \in Octet
      BY DEF Octet
    <3> QED BY <3>1 DEF NoAddress
  <2>2. 0 \in Short
    BY DEF Short
  <2>3. IpHeader(ip, 0, NoAddress, NoAddress) \in Seq(Octet)
    <3>1. IsIpHeader(IpHeader(ip, 0, NoAddress, NoAddress), ip, NoAddress, NoAddress)
      BY <1>1, <2>1, <2>2, IpHeaderIs, Zenon
    <3> QED BY <3>1 DEF IsIpHeader
  <2> QED BY <2>3, ChecksumType
<1>3. check \in Short
  <2>1. PseudoDatagram(ip, udp, data) \in Seq(Octet)
    <3>1. IsPseudoDatagram(PseudoDatagram(ip, udp, data), ip, udp, data)
      BY <1>1, PseudoDatagramIs, Zenon
    <3> QED BY <3>1 DEF IsPseudoDatagram
  <2> QED BY <2>1, ChecksumType DEF udp4_checksum
<1> HIDE DEF ipcheck, check
<1>4. IsIpHeader(header, ip, ip.saddr, ip.daddr)
  BY <1>1, <1>2, IpHeaderIs, Zenon
<1>5. /\ so \in Seq(Octet) /\ Len(so) = 2
      /\ de \in Seq(Octet) /\ Len(de) = 2
      /\ no \in Seq(Octet) /\ Len(no) = 2
      /\ ch \in Seq(Octet) /\ Len(ch) = 2
  BY <1>1, <1>3, FieldType
<1>6. Packet(data) = p
  BY DEF Packet, p, g, header, so, de, no, ch, check, ipcheck, ip, udp
<1>h. header \in Seq(Octet) /\ Len(header) = 20
  BY <1>4 DEF IsIpHeader
<1> HIDE DEF header, so, de, no, ch
<1>7. HasFields(g, header, 20, so, de, no, ch)
  BY <1>5, <1>h, FourFields, Zenon DEF so, de, no, ch
<1> HIDE DEF g
<1>8. g \in Seq(Octet) /\ Len(g) = 28
  BY <1>7 DEF HasFields
<1>9. IsJoined(p, g, 28, data, n)
  BY <1>8, Joined, Zenon
<1> HIDE DEF p
<1>10. n \in Nat
  OBVIOUS
<1> HIDE DEF n
<1>11. p \in Seq(Octet) /\ Len(p) = 28 + n /\ \A i \in 1 .. n : p[28 + i] = data[i]
  BY <1>9 DEF IsJoined
<1>12. \A i \in 1 .. 28 : p[i] = g[i]
  BY <1>9 DEF IsJoined
<1>13. \A i \in 1 .. 20 : p[i] = header[i]
  <2>1. \A i \in 1 .. 20 : i \in 1 .. 28
    OBVIOUS
  <2> QED BY <1>7, <1>12, <2>1 DEF HasFields
<1>14. p[10] = ip.protocol
  BY <1>4, <1>13 DEF IsIpHeader
<1>15. ASSUME NEW i \in 1 .. 4
       PROVE  p[12 + i] = ip.saddr[i] /\ p[16 + i] = ip.daddr[i]
  <2>1. PICK j \in 1 .. 20 : j = 12 + i
    OBVIOUS
  <2>2. PICK k \in 1 .. 20 : k = 16 + i
    OBVIOUS
  <2> QED BY <1>4, <1>13, <2>1, <2>2 DEF IsIpHeader
<1>16. ASSUME NEW i \in 1 .. 2
       PROVE  p[20 + i] = so[i] /\ p[22 + i] = de[i] /\ p[24 + i] = no[i] /\ p[26 + i] = ch[i]
  <2>1. PICK j \in 1 .. 28 : j = 20 + i
    OBVIOUS
  <2>2. PICK k \in 1 .. 28 : k = 22 + i /\ k = 20 + 2 + i
    OBVIOUS
  <2>3. PICK l \in 1 .. 28 : l = 24 + i /\ l = 20 + 4 + i
    OBVIOUS
  <2>4. PICK m \in 1 .. 28 : m = 26 + i /\ m = 20 + 6 + i
    OBVIOUS
  <2>5. p[j] = g[j] /\ p[k] = g[k] /\ p[l] = g[l] /\ p[m] = g[m]
    BY <1>12
  <2>6. g[j] = so[i] /\ g[k] = de[i] /\ g[l] = no[i] /\ g[m] = ch[i]
    BY <1>7, <2>1, <2>2, <2>3, <2>4 DEF HasFields
  <2> QED BY <2>1, <2>2, <2>3, <2>4, <2>5, <2>6
<1>17. IsPacket(p, ip, udp, check, data)
  BY <1>11, <1>14, <1>15, <1>16 DEF IsPacket, so, de, no, ch, n
<1> QED BY <1>6, <1>17 DEF ip, udp, check

\* A receiver's data and what main computed the checksum of.
SameDatagram(x, y, n, check) ==
    /\ Len(x) = n + 20 /\ Len(y) = n + 20 + (n % 2)
    /\ \A i \in 1 .. 18 : x[i] = y[i]
    /\ x[19] = HostOrder(check)[1] /\ x[20] = HostOrder(check)[2] /\ y[19] = 0 /\ y[20] = 0
    /\ \A i \in 1 .. n : x[20 + i] = y[20 + i]
    /\ n % 2 = 1 => y[n + 21] = 0

LEMMA WordCount ==
    ASSUME NEW x \in Seq(Octet), NEW w \in Nat, 2 * w = Len(x) \/ 2 * w = Len(x) + 1
    PROVE  Words(x) = w
<1>1. PICK v \in Nat : v = Words(x) /\ (2 * v = Len(x) \/ 2 * v = Len(x) + 1)
  BY WordsIs
<1>2. v = w
  <2>1. Len(x) \in Nat
    OBVIOUS
  <2> QED BY <1>1, <2>1
<1> QED BY <1>1, <1>2

\* They add up to the same, but for the checksum.
LEMMA DatagramSum ==
    ASSUME NEW x \in Seq(Octet), NEW y \in Seq(Octet), NEW n \in Nat, NEW check \in Short,
           SameDatagram(x, y, n, check)
    PROVE  WordSum(x) = WordSum(y) + check
<1>0. Len(x) = n + 20 /\ Len(y) = n + 20 + (n % 2)
  BY DEF SameDatagram
<1>1. PICK half, odd \in Nat : n % 2 = odd /\ n = 2 * half + odd /\ (odd = 0 \/ odd = 1)
  <2>1. \A l \in Nat : l \div 2 \in Nat /\ (l % 2 = 0 \/ l % 2 = 1) /\ l = 2 * (l \div 2) + (l % 2)
    BY SMT
  <2>2. n % 2 \in Nat
    BY <2>1
  <2> QED BY <2>1, <2>2
<1>2. PICK w \in Nat : w = half + 10 + odd
  BY <1>1
<1>3. 2 * w = Len(y) /\ Len(y) = n + 20 + odd /\ (2 * w = Len(x) \/ 2 * w = Len(x) + 1)
  BY <1>0, <1>1, <1>2
<1>4. Words(x) = w /\ Words(y) = w
  BY <1>3, WordCount
\* The octets other than those of the checksum.
<1>5. ASSUME NEW i \in 1 .. n + 20, i # 19, i # 20
      PROVE  x[i] = y[i]
  <2>1. CASE i <= 18
    <3>1. i \in 1 .. 18
      BY <2>1
    <3> QED BY <3>1 DEF SameDatagram
  <2>2. CASE ~(i <= 18)
    <3>1. PICK j \in 1 .. n : i = 20 + j
      <4>1. i - 20 \in 1 .. n /\ i = 20 + (i - 20)
        BY <1>5, <2>2
      <4> QED BY <4>1
    <3> QED BY <3>1 DEF SameDatagram
  <2> QED BY <2>1, <2>2
\* Their words.
<1>6. ASSUME NEW k \in 1 .. w, k # 10
      PROVE  Word(x, k) = Word(y, k)
  <2>1. PICK i \in 1 .. n + 20 : i = 2 * k - 1 /\ i # 19 /\ i # 20
    BY <1>1, <1>2, <1>6
  <2>2. PICK j \in Nat : j = 2 * k /\ j # 19 /\ j # 20 /\ j # 0 /\ j <= n + 20 + odd
    BY <1>1, <1>2, <1>6
  <2>3. x[i] = y[i]
    BY <1>5, <2>1
  <2>4. CASE j <= n + 20
    <3>1. x[j] = y[j]
      BY <1>5, <2>2, <2>4
    <3>2. j <= Len(x) /\ j <= Len(y)
      BY <1>0, <1>3, <2>2, <2>4
    <3> QED BY <2>1, <2>2, <2>3, <3>1, <3>2 DEF Word
  <2>5. CASE ~(j <= n + 20)
    <3>1. n % 2 = 1 /\ j = n + 21
      BY <1>1, <2>2, <2>5
    <3>2. y[j] = 0
      BY <3>1 DEF SameDatagram
    <3>3. ~(j <= Len(x)) /\ j <= Len(y)
      BY <1>0, <1>3, <2>2, <2>5
    <3>4. PICK a \in Octet : a = x[i]
      BY <1>0, <2>1
    <3>5. a + 0 = a + 256 * 0
      BY SMT DEF Octet
    <3> QED BY <2>1, <2>2, <2>3, <3>2, <3>3, <3>4, <3>5 DEF Word
  <2> QED BY <2>4, <2>5
\* The word of the checksum.
<1>7. Word(x, 10) = Word(y, 10) + check
  <2>1. 2 * 10 - 1 = 19 /\ 2 * 10 = 20 /\ 20 <= Len(x) /\ 20 <= Len(y)
    BY <1>0, <1>1
  <2>2. HostOrder(check)[1] + 256 * HostOrder(check)[2] = check
    BY FieldType
  <2>3. Word(x, 10) = check
    BY <2>1, <2>2 DEF Word, SameDatagram
  <2>4. Word(y, 10) = 0
    BY <2>1, SMT DEF Word, SameDatagram
  <2>5. check \in Nat
    BY SMT DEF Short
  <2> QED BY <2>3, <2>4, <2>5
<1>8. check \in Nat
  BY SMT DEF Short
<1>9. PICK j \in 1 .. w : j = 10
  <2>1. 10 \in 1 .. w
    BY <1>2
  <2> QED BY <2>1
<1>10. OneGreater(x, y, w, j, check)
  BY <1>4, <1>6, <1>7, <1>9 DEF OneGreater
<1> QED BY <1>8, <1>10, SumWithCheck

\* The UDP checksum of the packet, for every payload it can carry.
LEMMA PacketVerifies ==
    ASSUME NEW data \in Seq(Octet), Fits(data)
    PROVE  LET packet == Packet(data)
               datagram == SubSeq(packet, 21, Len(packet))
               pseudo == SubSeq(packet, 13, 20) \o <<0, packet[10]>> \o SubSeq(packet, 25, 26)
           IN  OnesSum(pseudo \o datagram) = 65535
<1> DEFINE n == Len(data)
           ip == iph(data)
           udp == udph(data)
           y == PseudoDatagram(ip, udp, data)
           check == udp4_checksum(ip, udp, data)
           p == Packet(data)
           datagram == SubSeq(p, 21, Len(p))
           ss == SubSeq(p, 13, 20)
           no == SubSeq(p, 25, 26)
           pseudo == ss \o <<0, p[10]>> \o no
           x == pseudo \o datagram
<1>0. n \in Nat
  OBVIOUS
<1>1. /\ ip.protocol \in Octet
      /\ ip.saddr \in Seq(Octet) /\ Len(ip.saddr) = 4
      /\ ip.daddr \in Seq(Octet) /\ Len(ip.daddr) = 4
      /\ udp.source \in Short /\ udp.dest \in Short /\ udp.len \in Short
  BY HeadersType
<1>2. IsPacket(p, ip, udp, check, data)
  BY PacketIs, Zenon
<1>3. check = checksum(y)
  BY DEF udp4_checksum
<1> HIDE DEF ip, udp
<1>4. IsPseudoDatagram(y, ip, udp, data)
  BY <1>1, PseudoDatagramIs, Zenon
<1> HIDE DEF y, p, check
<1>5. y \in Seq(Octet) /\ Len(y) = n + 20 + (n % 2) /\ Len(y) <= 65536
  <2>1. y \in Seq(Octet) /\ Len(y) = n + 20 + (n % 2)
    BY <1>4 DEF IsPseudoDatagram
  <2>2. n <= 65507
    BY SMT DEF Fits
  <2>3. n % 2 \in {0, 1}
    <3>1. \A l \in Nat : l % 2 \in {0, 1}
      BY SMT
    <3> QED BY <1>0, <3>1
  <2>4. n + 20 + (n % 2) <= 65536
    <3> HIDE DEF n
    <3> QED BY <1>0, <2>2, <2>3, SMT
  <2> QED BY <2>1, <2>4, SMT
<1>6. check \in Short
  BY <1>3, <1>5, ChecksumType
<1>7. p \in Seq(Octet) /\ Len(p) = 28 + n /\ p[10] = ip.protocol
  BY <1>2 DEF IsPacket
<1>8. datagram \in Seq(Octet) /\ Len(datagram) = n + 8
      /\ \A i \in 1 .. n + 8 : datagram[i] = p[20 + i]
  <2>1. 21 \in Nat \ {0} /\ Len(p) \in 0 .. Len(p) /\ 21 <= Len(p) + 1 /\ Len(p) - 21 + 1 = n + 8
    BY <1>0, <1>7
  <2>2. datagram \in Seq(Octet) /\ Len(datagram) = Len(p) - 21 + 1
        /\ \A i \in 1 .. Len(p) - 21 + 1 : datagram[i] = p[21 + i - 1]
    BY <1>7, <2>1, Part
  <2>3. \A i \in 1 .. n + 8 : 21 + i - 1 = 20 + i
    OBVIOUS
  <2> HIDE DEF datagram, n
  <2> QED BY <2>1, <2>2, <2>3
<1>9. ss \in Seq(Octet) /\ Len(ss) = 8 /\ \A i \in 1 .. 8 : ss[i] = p[12 + i]
  <2>1. 13 \in Nat \ {0} /\ 20 \in 0 .. Len(p) /\ 13 <= 20 + 1 /\ 20 - 13 + 1 = 8
    BY <1>0, <1>7
  <2>2. ss \in Seq(Octet) /\ Len(ss) = 20 - 13 + 1
        /\ \A i \in 1 .. 20 - 13 + 1 : ss[i] = p[13 + i - 1]
    BY <1>7, <2>1, Part
  <2>3. \A i \in 1 .. 8 : 13 + i - 1 = 12 + i
    OBVIOUS
  <2> HIDE DEF ss
  <2> QED BY <2>1, <2>2, <2>3
<1>10. no \in Seq(Octet) /\ Len(no) = 2 /\ no[1] = p[25] /\ no[2] = p[26]
  <2>1. 25 \in Nat \ {0} /\ 26 \in 0 .. Len(p) /\ 25 <= 26 + 1 /\ 26 - 25 + 1 = 2
    BY <1>0, <1>7
  <2>2. no \in Seq(Octet) /\ Len(no) = 26 - 25 + 1
        /\ \A i \in 1 .. 26 - 25 + 1 : no[i] = p[25 + i - 1]
    BY <1>7, <2>1, Part
  <2>3. 1 \in 1 .. 2 /\ 2 \in 1 .. 2 /\ 25 + 1 - 1 = 25 /\ 25 + 2 - 1 = 26
    OBVIOUS
  <2> HIDE DEF no
  <2> QED BY <2>1, <2>2, <2>3
<1> HIDE DEF datagram, ss, no
<1>11. IsPseudo(pseudo, ss, ip.protocol, no)
  <2>1. pseudo = ss \o <<0, ip.protocol>> \o no
    BY <1>7
  <2>2. IsPseudo(ss \o <<0, ip.protocol>> \o no, ss, ip.protocol, no)
    BY <1>1, <1>9, <1>10, PseudoIs, Zenon
  <2> QED BY <2>1, <2>2
<1>12. pseudo \in Seq(Octet) /\ Len(pseudo) = 12
  BY <1>11 DEF IsPseudo
<1> HIDE DEF pseudo
<1>13. IsJoined(x, pseudo, 12, datagram, n + 8)
  BY <1>8, <1>12, Joined, Zenon
<1> HIDE DEF x, n
<1>14. x \in Seq(Octet) /\ Len(x) = n + 20
  BY <1>0, <1>13 DEF IsJoined
<1>15. \A i \in 1 .. 12 : x[i] = pseudo[i]
  BY <1>13 DEF IsJoined
<1>16. \A i \in 1 .. n + 8 : x[12 + i] = p[20 + i]
  BY <1>8, <1>13 DEF IsJoined
<1>17. \A i \in 1 .. n : x[20 + i] = data[i]
  <2> TAKE i \in 1 .. n
  <2>1. PICK j \in 1 .. n + 8 : j = 8 + i /\ 12 + j = 20 + i /\ 20 + j = 28 + i
    BY <1>0
  <2>2. p[28 + i] = data[i]
    BY <1>2 DEF IsPacket, n
  <2> QED BY <1>16, <2>1, <2>2
<1>18. \A i \in 1 .. n : x[20 + i] = y[20 + i]
  <2>1. \A i \in 1 .. n : y[20 + i] = data[i]
    BY <1>4 DEF IsPseudoDatagram, n
  <2> QED BY <1>17, <2>1
<1>19. n % 2 = 1 => y[n + 21] = 0
  BY <1>4 DEF IsPseudoDatagram, n
<1>20. y[19] = 0 /\ y[20] = 0
  <2>1. \A i \in 1 .. 2 : y[18 + i] = 0
    BY <1>4 DEF IsPseudoDatagram
  <2>2. 1 \in 1 .. 2 /\ 2 \in 1 .. 2 /\ 18 + 1 = 19 /\ 18 + 2 = 20
    OBVIOUS
  <2> QED BY <2>1, <2>2
<1>21. ASSUME NEW i \in 1 .. 2
       PROVE  /\ x[12 + i] = NetworkOrder(udp.source)[i]
              /\ x[14 + i] = NetworkOrder(udp.dest)[i]
              /\ x[16 + i] = NetworkOrder(udp.len)[i]
              /\ x[18 + i] = HostOrder(check)[i]
  <2>1. PICK j \in 1 .. n + 8 : j = i
    BY <1>0
  <2>2. PICK k \in 1 .. n + 8 : k = 2 + i /\ 12 + k = 14 + i /\ 20 + k = 22 + i
    BY <1>0
  <2>3. PICK l \in 1 .. n + 8 : l = 4 + i /\ 12 + l = 16 + i /\ 20 + l = 24 + i
    BY <1>0
  <2>4. PICK m \in 1 .. n + 8 : m = 6 + i /\ 12 + m = 18 + i /\ 20 + m = 26 + i
    BY <1>0
  <2>5. /\ p[20 + i] = NetworkOrder(udp.source)[i]
        /\ p[22 + i] = NetworkOrder(udp.dest)[i]
        /\ p[24 + i] = NetworkOrder(udp.len)[i]
        /\ p[26 + i] = HostOrder(check)[i]
    BY <1>2 DEF IsPacket
  <2> QED BY <1>16, <2>1, <2>2, <2>3, <2>4, <2>5
<1>22. x[19] = HostOrder(check)[1] /\ x[20] = HostOrder(check)[2]
  <2>1. 1 \in 1 .. 2 /\ 2 \in 1 .. 2 /\ 18 + 1 = 19 /\ 18 + 2 = 20
    OBVIOUS
  <2> QED BY <1>21, <2>1
<1>23. ASSUME NEW i \in 1 .. 4
       PROVE  x[i] = y[i] /\ x[4 + i] = y[4 + i]
  <2>1. PICK j \in 1 .. 8 : j = 4 + i /\ i \in 1 .. 8 /\ i \in 1 .. 12 /\ j \in 1 .. 12
                            /\ 12 + j = 16 + i
    OBVIOUS
  <2>2. pseudo[i] = ss[i] /\ pseudo[j] = ss[j]
    BY <1>11, <2>1 DEF IsPseudo
  <2>3. p[12 + i] = ip.saddr[i] /\ p[16 + i] = ip.daddr[i]
    BY <1>2 DEF IsPacket
  <2>4. y[i] = ip.saddr[i] /\ y[4 + i] = ip.daddr[i]
    BY <1>4 DEF IsPseudoDatagram
  <2> QED BY <1>9, <1>15, <2>1, <2>2, <2>3, <2>4
<1>24. x[9] = y[9] /\ x[10] = y[10] /\ x[11] = y[11] /\ x[12] = y[12]
  <2>1. 9 \in 1 .. 12 /\ 10 \in 1 .. 12 /\ 11 \in 1 .. 12 /\ 12 \in 1 .. 12
    OBVIOUS
  <2>2. /\ pseudo[9] = 0 /\ pseudo[10] = ip.protocol
        /\ pseudo[11] = no[1] /\ pseudo[12] = no[2]
    BY <1>11 DEF IsPseudo
  <2>3. p[25] = NetworkOrder(udp.len)[1] /\ p[26] = NetworkOrder(udp.len)[2]
    <3>1. \A i \in 1 .. 2 : p[24 + i] = NetworkOrder(udp.len)[i]
      BY <1>2 DEF IsPacket
    <3>2. 1 \in 1 .. 2 /\ 2 \in 1 .. 2 /\ 24 + 1 = 25 /\ 24 + 2 = 26
      OBVIOUS
    <3> QED BY <3>1, <3>2
  <2>4. /\ y[9] = 0 /\ y[10] = ip.protocol
        /\ y[11] = NetworkOrder(udp.len)[1] /\ y[12] = NetworkOrder(udp.len)[2]
    BY <1>4 DEF IsPseudoDatagram
  <2> QED BY <1>10, <1>15, <2>1, <2>2, <2>3, <2>4
<1>25. ASSUME NEW i \in 1 .. 18
       PROVE  x[i] = y[i]
  <2>1. CASE i \in 1 .. 4
    BY <1>23, <2>1
  <2>2. CASE i \in 5 .. 8
    <3>1. PICK j \in 1 .. 4 : i = 4 + j
      <4>1. i - 4 \in 1 .. 4 /\ i = 4 + (i - 4)
        BY <2>2
      <4> QED BY <4>1
    <3> QED BY <1>23, <3>1
  <2>3. CASE i \in 9 .. 12
    BY <1>24, <2>3
  <2>4. CASE i \in 13 .. 18
    <3>1. \A j \in 1 .. 2 : /\ y[12 + j] = NetworkOrder(udp.source)[j]
                            /\ y[14 + j] = NetworkOrder(udp.dest)[j]
                            /\ y[16 + j] = NetworkOrder(udp.len)[j]
      BY <1>4 DEF IsPseudoDatagram
    <3>2. PICK j \in 1 .. 2 : i = 12 + j \/ i = 14 + j \/ i = 16 + j
      <4>1. i \in {13, 15, 17} \/ i \in {14, 16, 18}
        BY <2>4
      <4>2. 1 \in 1 .. 2 /\ 2 \in 1 .. 2
        OBVIOUS
      <4> QED BY <4>1, <4>2
    <3> QED BY <1>21, <3>1, <3>2
  <2> QED BY <2>1, <2>2, <2>3, <2>4
<1>26. WordSum(x) = WordSum(y) + check
  <2>1. SameDatagram(x, y, n, check)
    BY <1>5, <1>14, <1>18, <1>19, <1>20, <1>22, <1>25 DEF SameDatagram
  <2>2. y \in Seq(Octet)
    BY <1>5, SMT
  <2> QED BY <1>0, <1>6, <1>14, <2>1, <2>2, DatagramSum, Zenon
<1>27. OnesSum(x) = 65535
  BY <1>3, <1>5, <1>14, <1>26, CheckVerifies, SMT
<1> QED BY <1>27, SMT DEF x, pseudo, datagram, ss, no, p

-----------------------------------------------------------------------------
\* The program.

\* The payload is a text that an IP packet can carry.
IInv == payload \in Seq(Octet) /\ Fits(payload)

\* ... as it is built, character by character.
THEOREM Invariant == Spec => []IInv
<1>1. Init => IInv
  <2> SUFFICES ASSUME Init PROVE IInv
    OBVIOUS
  <2>1. payload \in Seq(Octet) /\ Len(payload) = 0
    BY DEF Init
  <2> QED BY <2>1, SMT DEF IInv, Fits
<1>2. ASSUME IInv, [Next]_payload
      PROVE  IInv'
  <2>1. CASE Next
    <3>1. PICK v \in Values : payload' = Append(payload, v) /\ Len(payload) < MaxPayload
      BY <2>1 DEF Next, Extend
    <3>2. v \in Octet /\ payload \in Seq(Octet)
      BY <1>2, ValuesAssumption DEF IInv
    <3>3. payload' \in Seq(Octet) /\ Len(payload') = Len(payload) + 1 /\ Len(payload) \in Nat
      BY <3>1, <3>2
    <3>4. MaxPayload \in Nat /\ MaxPayload <= 65507
      BY MaxPayloadAssumption, SMT
    <3>5. Len(payload') <= 65507
      BY <3>1, <3>3, <3>4, SMT
    <3> QED BY <3>3, <3>5 DEF IInv, Fits
  <2>2. CASE UNCHANGED payload
    BY <1>2, <2>2 DEF IInv, Fits
  <2> QED BY <1>2, <2>1, <2>2
<1> QED BY <1>1, <1>2, PTL DEF Spec

\* Neither the byte order of the machine nor an odd octet nor a second carry
\* spoils checksum (header.c:241-263), for payloads up to the 64 KB of a packet.
THEOREM AnyChecksumVerifies == Spec => []ChecksumVerifies
<1>1. IInv => ChecksumVerifies
  <2> SUFFICES ASSUME IInv PROVE ChecksumVerifies
    OBVIOUS
  <2> DEFINE c == HostOrder(checksum(payload))
             x == c \o payload
             n == Len(payload)
  <2>1. payload \in Seq(Octet) /\ n \in Nat
    BY DEF IInv
  <2>2. n <= 65536
    <3>1. n <= 65507
      BY SMT DEF IInv, Fits
    <3> QED BY <2>1, <3>1, SMT
  <2>3. checksum(payload) \in Short
    BY <2>1, ChecksumType
  <2>4. c \in Seq(Octet) /\ Len(c) = 2 /\ c[1] + 256 * c[2] = checksum(payload)
    BY <2>3, FieldType
  <2> HIDE DEF c
  <2>5. IsJoined(x, c, 2, payload, n)
    BY <2>1, <2>4, Joined, Zenon
  <2> HIDE DEF x
  <2>6. /\ x \in Seq(Octet) /\ Len(x) = Len(payload) + 2
        /\ x[1] = c[1] /\ x[2] = c[2]
        /\ \A i \in 1 .. Len(payload) : x[i + 2] = payload[i]
    <3> HIDE DEF n
    <3>1. x \in Seq(Octet) /\ Len(x) = 2 + n /\ x[1] = c[1] /\ x[2] = c[2]
      BY <2>1, <2>5 DEF IsJoined
    <3>2. ASSUME NEW i \in 1 .. n PROVE x[i + 2] = payload[i]
      <4>1. i + 2 = 2 + i
        OBVIOUS
      <4> QED BY <2>5, <4>1 DEF IsJoined
    <3> QED BY <2>1, <3>1, <3>2 DEF n
  <2>7. WordSum(x) = WordSum(payload) + checksum(payload)
    <3>1. WordSum(x) = x[1] + 256 * x[2] + WordSum(payload)
      BY <2>1, <2>6, SumOfRest
    <3>2. WordSum(payload) \in Nat /\ checksum(payload) \in Nat
      BY <2>1, <2>3, SameSums, SMT DEF Short
    <3> QED BY <2>4, <2>6, <3>1, <3>2
  <2>8. OnesSum(x) = 65535
    BY <2>1, <2>2, <2>6, <2>7, CheckVerifies, SMT
  <2> QED BY <2>8, SMT DEF x, c, ChecksumVerifies
<1> QED BY <1>1, Invariant, PTL

\* The packet that main hands to sendto has a UDP checksum that its receiver
\* verifies (rawip_example.c:95), for every such payload.
THEOREM UdpChecksum == Spec => []UdpChecksumVerifies
<1>1. IInv => UdpChecksumVerifies
  BY PacketVerifies, SMT DEF IInv, UdpChecksumVerifies
<1> QED BY <1>1, Invariant, PTL
=============================================================================
