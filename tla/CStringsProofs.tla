--------------------------- MODULE CStringsProofs ---------------------------
(***************************************************************************)
(* Facts about strlen and about the buffers recvfrom, strcpy and the       *)
(* terminating NUL fill, for buffers of every size.                        *)
(***************************************************************************)
EXTENDS CStrings, SequenceTheorems, NaturalsInduction, WellFoundedInduction, TLAPS

-----------------------------------------------------------------------------
\* Numbers.

\* A non-empty set of numbers has a least one.
LEMMA LeastNumber ==
    ASSUME NEW S \in SUBSET Nat, S # {}
    PROVE  \E m \in S : \A n \in S : m <= n
<1>1. PICK m \in S : \A n \in S : ~(<<n, m>> \in OpToRel(<, Nat))
  BY NatLessThanWellFounded, WFMin
<1>2. \A n \in S : ~(n < m)
  BY <1>1 DEF OpToRel
<1> QED BY <1>2

\* Induction, for a property given as the set of numbers that have it.
LEMMA AllNumbers ==
    ASSUME NEW P, 0 \in P, \A n \in Nat : n \in P => n + 1 \in P
    PROVE  \A n \in Nat : n \in P
<1> DEFINE D == Nat \ P
<1> SUFFICES ASSUME D # {} PROVE FALSE
  OBVIOUS
<1>1. PICK m \in D : \A n \in D : m <= n
  <2> D \in SUBSET Nat
    OBVIOUS
  <2> HIDE DEF D
  <2> QED BY LeastNumber
<1>2. m # 0 /\ m - 1 \in Nat /\ m - 1 \notin D
  BY <1>1
<1>3. m - 1 + 1 = m
  BY <1>1
<1> QED BY <1>1, <1>2, <1>3

\* f satisfies a recursive definition for the arguments below k.
Solves(f, F, k) == \A n \in Nat : n < k => f[n] = F[f][n]

\* A function of the numbers that is defined by recursion exists: F maps a function
\* to the right-hand side of its definition, which at n only looks at the function
\* below n.
LEMMA RecursionExists ==
    ASSUME NEW S, S # {}, NEW F \in [[Nat -> S] -> [Nat -> S]],
           \A f, g \in [Nat -> S] : \A n \in Nat :
               (\A i \in Nat : i < n => f[i] = g[i]) => F[f][n] = F[g][n]
    PROVE  \E f \in [Nat -> S] : f = F[f]
<1> DEFINE Fun == [Nat -> S]
<1>0. \A f \in Fun : F[f] \in Fun
  OBVIOUS
\* Two solutions up to k are the same up to k.
<1>1. ASSUME NEW f \in Fun, NEW g \in Fun, NEW k \in Nat,
             Solves(f, F, k), Solves(g, F, k), NEW n \in Nat, n < k
      PROVE  f[n] = g[n]
  <2> DEFINE D == {i \in Nat : i < k /\ f[i] # g[i]}
  <2> SUFFICES ASSUME D # {} PROVE FALSE
    BY <1>1
  <2>1. PICK m \in D : \A i \in D : m <= i
    <3> D \in SUBSET Nat
      OBVIOUS
    <3> HIDE DEF D
    <3> QED BY LeastNumber
  <2>2. \A i \in Nat : i < m => f[i] = g[i]
    BY <2>1
  <2>3. F[f][m] = F[g][m]
    BY <2>1, <2>2
  <2>4. f[m] = F[f][m] /\ g[m] = F[g][m]
    BY <1>1, <2>1 DEF Solves
  <2> QED BY <2>1, <2>3, <2>4
\* There is one up to every k.
<1>2. \A k \in Nat : \E f \in Fun : Solves(f, F, k)
  <2> DEFINE P == {k \in Nat : \E f \in Fun : Solves(f, F, k)}
  <2>1. 0 \in P
    <3>1. PICK s \in S : TRUE
      OBVIOUS
    <3>2. [n \in Nat |-> s] \in Fun /\ Solves([n \in Nat |-> s], F, 0)
      BY DEF Solves
    <3> QED BY <3>2
  <2>2. ASSUME NEW k \in Nat, k \in P
        PROVE  k + 1 \in P
    <3>1. PICK f \in Fun : Solves(f, F, k)
      BY <2>2
    <3> DEFINE g == F[f]
    <3>2. g \in Fun
      BY <1>0
    <3>3. \A n \in Nat : n < k => g[n] = f[n]
      BY <3>1 DEF Solves
    <3>4. Solves(g, F, k + 1)
      <4> SUFFICES ASSUME NEW n \in Nat, n < k + 1 PROVE F[f][n] = F[g][n]
        BY DEF Solves
      <4>1. \A i \in Nat : i < n => f[i] = g[i]
        BY <3>3
      <4> HIDE DEF g
      <4> QED BY <3>2, <4>1
    <3> HIDE DEF g
    <3> QED BY <3>2, <3>4
  <2> HIDE DEF P
  <2>3. \A k \in Nat : k \in P
    BY <2>1, <2>2, AllNumbers
  <2> QED BY <2>3 DEF P
\* At n, the solution is what the ones beyond n are.
<1> DEFINE s(k) == CHOOSE f \in Fun : Solves(f, F, k)
           h == [n \in Nat |-> s(n + 1)[n]]
<1>3. \A k \in Nat : s(k) \in Fun /\ Solves(s(k), F, k)
  BY <1>2
<1> HIDE DEF s
<1>4. h \in Fun /\ \A n \in Nat : h[n] = s(n + 1)[n]
  BY <1>3
<1> HIDE DEF h
<1>5. ASSUME NEW n \in Nat
      PROVE  h[n] = F[h][n]
  <2>1. PICK g \in Fun : g = s(n + 1) /\ Solves(g, F, n + 1)
    BY <1>3
  <2>2. \A i \in Nat : i < n => h[i] = g[i]
    <3> SUFFICES ASSUME NEW i \in Nat, i < n PROVE s(i + 1)[i] = g[i]
      BY <1>4
    <3>1. Solves(g, F, i + 1)
      BY <2>1 DEF Solves
    <3>2. s(i + 1) \in Fun /\ Solves(s(i + 1), F, i + 1) /\ i < i + 1 /\ i + 1 \in Nat
      BY <1>3
    <3> HIDE DEF Fun
    <3> QED BY <1>1, <3>1, <3>2
  <2>3. F[h][n] = F[g][n]
    BY <1>4, <2>2
  <2>4. g[n] = F[g][n]
    BY <2>1 DEF Solves
  <2> QED BY <1>4, <2>1, <2>3, <2>4
<1>6. h = F[h]
  BY <1>0, <1>4, <1>5
<1> QED BY <1>4, <1>6

\* The same for a function of anything that has a size: the right-hand side for t
\* only looks at the function where the size is less.
LooksBelow(T, S, size, F) ==
    \A f, g \in [T -> S] : \A t \in T :
        (\A u \in T : size[u] < size[t] => f[u] = g[u]) => F[f][t] = F[g][t]

IsSolved(T, S, F) == \E f \in [T -> S] : f = F[f]

LEMMA RecursionBySize ==
    ASSUME NEW T, NEW S, S # {}, NEW size \in [T -> Nat], NEW F \in [[T -> S] -> [T -> S]],
           LooksBelow(T, S, size, F)
    PROVE  IsSolved(T, S, F)
<1>0. \A f, g \in [T -> S] : \A t \in T :
          (\A u \in T : size[u] < size[t] => f[u] = g[u]) => F[f][t] = F[g][t]
  BY DEF LooksBelow
<1> DEFINE Fun == [T -> S]
<1>1. PICK s \in S : TRUE
  OBVIOUS
<1> DEFINE c == [t \in T |-> s]
<1>2. c \in Fun
  BY <1>1
<1> HIDE DEF c
\* h[n] is right where the size is below n.
<1>3. PICK h \in [Nat -> Fun] : h[0] = c /\ \A n \in Nat : h[n + 1] = F[h[n]]
  <2> DEFINE G == [h \in [Nat -> Fun] |-> [n \in Nat |-> IF n = 0 THEN c ELSE F[h[n - 1]]]]
  <2>1. \A f \in Fun : F[f] \in Fun
    OBVIOUS
  <2> HIDE DEF Fun
  <2>2. G \in [[Nat -> Fun] -> [Nat -> Fun]]
    BY <1>2, <2>1
  <2>3. \A f, g \in [Nat -> Fun] : \A n \in Nat :
            (\A i \in Nat : i < n => f[i] = g[i]) => G[f][n] = G[g][n]
    <3> SUFFICES ASSUME NEW f \in [Nat -> Fun], NEW g \in [Nat -> Fun], NEW n \in Nat,
                        \A i \in Nat : i < n => f[i] = g[i]
                 PROVE  G[f][n] = G[g][n]
      OBVIOUS
    <3>1. n # 0 => f[n - 1] = g[n - 1]
      OBVIOUS
    <3>2. G[f][n] = IF n = 0 THEN c ELSE F[f[n - 1]]
      OBVIOUS
    <3>3. G[g][n] = IF n = 0 THEN c ELSE F[g[n - 1]]
      OBVIOUS
    <3> QED BY <3>1, <3>2, <3>3
  <2>4. Fun # {}
    BY <1>2
  <2>5. PICK h \in [Nat -> Fun] : h = G[h]
    <3> HIDE DEF G
    <3> QED BY <2>2, <2>3, <2>4, RecursionExists
  <2>6. \A n \in Nat : h[n] = IF n = 0 THEN c ELSE F[h[n - 1]]
    BY <2>5
  <2>7. \A n \in Nat : n + 1 # 0 /\ n + 1 \in Nat /\ n + 1 - 1 = n
    OBVIOUS
  <2> QED BY <2>6, <2>7
<1> DEFINE P == {n \in Nat : \A t \in T : size[t] < n => h[n][t] = h[n + 1][t]}
           Q == {n \in Nat : \A t \in T : size[t] < n => h[n][t] = h[size[t] + 1][t]}
<1>4. \A n \in Nat : n \in P
  <2>1. 0 \in P
    OBVIOUS
  <2>2. ASSUME NEW n \in Nat, n \in P
        PROVE  n + 1 \in P
    <3> SUFFICES ASSUME NEW t \in T, size[t] < n + 1
                 PROVE  h[n + 1][t] = h[n + 1 + 1][t]
      OBVIOUS
    <3>1. h[n] \in Fun /\ h[n + 1] \in Fun /\ h[n + 1] = F[h[n]] /\ h[n + 1 + 1] = F[h[n + 1]]
      BY <1>3
    <3>2. \A u \in T : size[u] < size[t] => h[n][u] = h[n + 1][u]
      BY <2>2
    <3> DEFINE a == h[n]
               b == h[n + 1]
    <3>3. F[a][t] = F[b][t]
      <4>1. a \in [T -> S] /\ b \in [T -> S]
        BY <3>1
      <4>2. \A u \in T : size[u] < size[t] => a[u] = b[u]
        BY <3>2
      <4> HIDE DEF a, b
      <4> QED BY <1>0, <4>1, <4>2, Zenon
    <3> QED BY <3>1, <3>3
  <2> HIDE DEF P
  <2> QED BY <2>1, <2>2, AllNumbers
<1>5. \A n \in Nat : n \in Q
  <2>1. 0 \in Q
    OBVIOUS
  <2>2. ASSUME NEW n \in Nat, n \in Q
        PROVE  n + 1 \in Q
    <3> SUFFICES ASSUME NEW t \in T, size[t] < n + 1
                 PROVE  h[n + 1][t] = h[size[t] + 1][t]
      OBVIOUS
    <3>1. CASE size[t] = n
      BY <3>1
    <3>2. CASE size[t] < n
      BY <1>4, <2>2, <3>2
    <3>3. size[t] \in Nat
      OBVIOUS
    <3>4. size[t] = n \/ size[t] < n
      <4> DEFINE m == size[t]
      <4> HIDE DEF m
      <4>1. m \in Nat /\ m < n + 1 => m = n \/ m < n
        OBVIOUS
      <4> QED BY <3>3, <4>1 DEF m
    <3> QED BY <3>1, <3>2, <3>4
  <2> HIDE DEF Q
  <2> QED BY <2>1, <2>2, AllNumbers
<1> DEFINE f == [t \in T |-> h[size[t] + 1][t]]
<1>6. f \in Fun
  BY <1>3
<1>7. ASSUME NEW t \in T
      PROVE  f[t] = F[f][t]
  <2> DEFINE k == size[t]
  <2>1. k \in Nat /\ h[k] \in Fun /\ h[k + 1] = F[h[k]]
    BY <1>3
  <2>2. \A u \in T : size[u] < k => f[u] = h[k][u]
    BY <1>5, <2>1
  <2>3. f[t] = h[k + 1][t]
    OBVIOUS
  <2> HIDE DEF f
  <2>4. F[f][t] = F[h[k]][t]
    BY <1>0, <1>6, <2>1, <2>2
  <2> QED BY <2>1, <2>3, <2>4
<1> HIDE DEF f
<1>8. F[f] \in Fun
  BY <1>6
<1> QED BY <1>6, <1>7, <1>8 DEF IsSolved

\* What a loop of n rounds does to a value: one round after the other.
IsLoop(v, start, n, round) ==
    v[0] = start /\ \A k \in 1 .. n : v[k] = round[k][v[k - 1]]

LEMMA LoopExists ==
    ASSUME NEW S, NEW start \in S, NEW n \in Nat, NEW round \in [1 .. n -> [S -> S]]
    PROVE  \E v \in [0 .. n -> S] : IsLoop(v, start, n, round)
<1> DEFINE F == [f \in [Nat -> S] |-> [k \in Nat |->
                    IF k = 0 THEN start ELSE IF k > n THEN start ELSE round[k][f[k - 1]]]]
<1>1. F \in [[Nat -> S] -> [Nat -> S]]
  <2>1. ASSUME NEW f \in [Nat -> S], NEW k \in Nat, k # 0, ~(k > n)
        PROVE  round[k][f[k - 1]] \in S
    <3>1. k - 1 \in Nat /\ k \in 1 .. n
      BY <2>1
    <3>2. f[k - 1] \in S
      BY <3>1
    <3> QED BY <3>1, <3>2
  <2> QED BY <2>1
<1>2. ASSUME NEW f \in [Nat -> S], NEW g \in [Nat -> S], NEW k \in Nat,
             \A i \in Nat : i < k => f[i] = g[i]
      PROVE  F[f][k] = F[g][k]
  <2>1. k # 0 => f[k - 1] = g[k - 1]
    BY <1>2
  <2> QED BY <2>1
<1>3. \E f \in [Nat -> S] : f = F[f]
  <2> HIDE DEF F
  <2> QED BY <1>1, <1>2, RecursionExists
<1>4. PICK h \in [Nat -> S] : h = [k \in Nat |->
                    IF k = 0 THEN start ELSE IF k > n THEN start ELSE round[k][h[k - 1]]]
  BY <1>3
<1> HIDE DEF F
<1> DEFINE v == [k \in 0 .. n |-> h[k]]
<1>5. v \in [0 .. n -> S] /\ v[0] = start
  BY <1>4
<1>6. ASSUME NEW k \in 1 .. n
      PROVE  v[k] = round[k][v[k - 1]]
  <2>1. k \in Nat /\ k # 0 /\ ~(k > n) /\ k - 1 \in 0 .. n /\ k \in 0 .. n
    OBVIOUS
  <2>2. h[k] = round[k][h[k - 1]]
    BY <1>4, <2>1
  <2> QED BY <2>1, <2>2
<1> HIDE DEF v
<1> QED BY <1>5, <1>6 DEF IsLoop

-----------------------------------------------------------------------------
\* Parts of a text.

\* The octets i to j of a text.
LEMMA Part ==
    ASSUME NEW r \in Seq(Octet), NEW i \in Nat \ {0}, NEW j \in 0 .. Len(r), i <= j + 1
    PROVE  /\ SubSeq(r, i, j) \in Seq(Octet) /\ Len(SubSeq(r, i, j)) = j - i + 1
           /\ \A x \in 1 .. j - i + 1 : SubSeq(r, i, j)[x] = r[i + x - 1]
<1>1. \A x \in i .. j : r[x] \in Octet
  OBVIOUS
<1>2. i \in Int /\ j \in Int
  OBVIOUS
<1> QED BY <1>1, <1>2, SubSeqProperties

\* Texts of the same octets.
LEMMA SameText ==
    ASSUME NEW a \in Seq(Octet), NEW b \in Seq(Octet), Len(a) = Len(b),
           \A x \in 1 .. Len(a) : a[x] = b[x]
    PROVE  a = b
  BY SeqEqual

\* A non-empty set of numbers has its minimum.
LEMMA MinIs ==
    ASSUME NEW S \in SUBSET Nat, S # {}
    PROVE  Min(S) \in S /\ \A y \in S : Min(S) <= y
<1>1. \E m \in S : \A y \in S : m <= y
  BY LeastNumber
<1>2. \E m \in S : m = Min(S) /\ \A y \in S : m <= y
  BY <1>1 DEF Min
<1> QED BY <1>2

\* The end of a part, and what follows a part.
LEMMA PartOfPart ==
    ASSUME NEW r \in Seq(Octet), NEW i \in Nat \ {0}, NEW j \in 0 .. Len(r), i <= j + 1,
           NEW x \in 1 .. j - i + 2
    PROVE  SubSeq(SubSeq(r, i, j), x, j - i + 1) = SubSeq(r, i + x - 1, j)
<1> DEFINE q == SubSeq(r, i, j)
           n == j - i + 1
           a == SubSeq(q, x, n)
           b == SubSeq(r, i + x - 1, j)
<1>1. /\ q \in Seq(Octet) /\ Len(q) = n /\ n \in Nat
      /\ \A y \in 1 .. n : q[y] = r[i + y - 1]
  BY Part
<1> HIDE DEF q
<1>2. /\ a \in Seq(Octet) /\ Len(a) = n - x + 1
      /\ \A y \in 1 .. n - x + 1 : a[y] = q[x + y - 1]
  <2>1. x \in Nat \ {0} /\ n \in 0 .. Len(q) /\ x <= n + 1
    BY <1>1
  <2> QED BY <1>1, <2>1, Part
<1>3. /\ b \in Seq(Octet) /\ Len(b) = n - x + 1
      /\ \A y \in 1 .. n - x + 1 : b[y] = r[i + x - 1 + y - 1]
  <2>1. i + x - 1 \in Nat \ {0} /\ i + x - 1 <= j + 1 /\ j - (i + x - 1) + 1 = n - x + 1
    OBVIOUS
  <2> QED BY <2>1, Part
<1>4. \A y \in 1 .. n - x + 1 : a[y] = b[y]
  <2> SUFFICES ASSUME NEW y \in 1 .. n - x + 1 PROVE a[y] = b[y]
    OBVIOUS
  <2>1. x + y - 1 \in 1 .. n /\ i + (x + y - 1) - 1 = i + x - 1 + y - 1
    BY <1>1
  <2>2. a[y] = q[x + y - 1] /\ b[y] = r[i + x - 1 + y - 1]
    BY <1>2, <1>3
  <2>3. q[x + y - 1] = r[i + (x + y - 1) - 1]
    BY <1>1, <2>1
  <2> HIDE DEF a, b, n
  <2> QED BY <2>1, <2>2, <2>3
<1> HIDE DEF a, b
<1>5. a = b
  BY <1>2, <1>3, <1>4, SameText
<1> QED BY <1>5 DEF a, b, q

\* The characters of a text.
LEMMA CharOf ==
    ASSUME NEW r \in Seq(Octet), NEW c
    PROVE  c \in ToSet(r) <=> \E x \in 1 .. Len(r) : r[x] = c
<1>1. DOMAIN r = 1 .. Len(r)
  OBVIOUS
<1>2. ToSet(r) = {r[x] : x \in 1 .. Len(r)}
  BY <1>1, Zenon DEF ToSet
<1> QED BY <1>2

\* Texts put together.
LEMMA TextsJoin ==
    \A a, b \in Seq(Octet) : a \o b \in Seq(Octet) /\ Len(a \o b) = Len(a) + Len(b)
<1>1. ASSUME NEW a \in Seq(Octet), NEW b \in Seq(Octet)
      PROVE  a \o b \in Seq(Octet) /\ Len(a \o b) = Len(a) + Len(b)
  BY ConcatProperties
<1> QED BY <1>1

LEMMA TextsAssociate ==
    \A a, b, c \in Seq(Octet) : (a \o b) \o c = a \o (b \o c)
<1>1. ASSUME NEW a \in Seq(Octet), NEW b \in Seq(Octet), NEW c \in Seq(Octet)
      PROVE  (a \o b) \o c = a \o (b \o c)
  BY ConcatAssociative
<1> QED BY <1>1

-----------------------------------------------------------------------------
\* strlen.

\* The string at the start of buffer b is that of the text t.
HoldsText(b, t) ==
    /\ IsStrLen(b, StrLen(t))
    /\ \A j \in 1 .. StrLen(t) : b[j] = t[j]

\* Every buffer has a string length: the place of its first NUL, or its size.
LEMMA StrLenExists ==
    ASSUME NEW b \in Seq(Octet)
    PROVE  \E k \in 0 .. Len(b) : IsStrLen(b, k)
<1>1. CASE IsTerminated(b)
  <2> DEFINE nuls == {j \in 1 .. Len(b) : b[j] = NUL}
  <2>1. nuls # {} /\ nuls \subseteq Nat
    BY <1>1 DEF IsTerminated
  <2>2. PICK j \in nuls : \A l \in nuls : ~(<<l, j>> \in OpToRel(<, Nat))
    BY <2>1, NatLessThanWellFounded, WFMin
  <2>3. \A l \in nuls : ~(l < j)
    BY <2>1, <2>2 DEF OpToRel
  <2>4. IsStrLen(b, j - 1)
    BY <2>3 DEF IsStrLen
  <2> QED BY <2>4 DEF IsStrLen
<1>2. CASE ~IsTerminated(b)
  <2>1. IsStrLen(b, Len(b))
    BY <1>2 DEF IsStrLen, IsTerminated
  <2> QED BY <2>1
<1> QED BY <1>1, <1>2

\* It is the only one, and strlen finds it.
LEMMA StrLenIs ==
    ASSUME NEW b \in Seq(Octet), NEW k, IsStrLen(b, k)
    PROVE  StrLen(b) = k
<1>1. IsStrLen(b, StrLen(b))
  BY StrLenExists DEF StrLen
<1>2. \A l : IsStrLen(b, l) => l = k
  BY DEF IsStrLen
<1> QED BY <1>1, <1>2

\* What strlen returns is a string length.
LEMMA StrLenType ==
    ASSUME NEW b \in Seq(Octet)
    PROVE  /\ StrLen(b) \in 0 .. Len(b)
           /\ IsStrLen(b, StrLen(b))
           /\ CStr(b) \in Seq(Octet)
           /\ Len(CStr(b)) = StrLen(b)
           /\ \A j \in 1 .. StrLen(b) : CStr(b)[j] = b[j]
<1>1. PICK k \in 0 .. Len(b) : IsStrLen(b, k)
  BY StrLenExists
<1>2. StrLen(b) = k
  BY <1>1, StrLenIs
<1>3. \A j \in 1 .. k : b[j] \in Octet
  BY <1>1
<1> QED BY <1>1, <1>2, <1>3, SubSeqProperties DEF CStr

\* Buffers that agree up to k have the same first k characters.
LEMMA SamePrefix ==
    ASSUME NEW a \in Seq(Octet), NEW b \in Seq(Octet),
           NEW k \in 0 .. Len(a), k <= Len(b), \A j \in 1 .. k : a[j] = b[j]
    PROVE  SubSeq(a, 1, k) = SubSeq(b, 1, k)
<1> DEFINE sa == SubSeq(a, 1, k)
           sb == SubSeq(b, 1, k)
<1>1. \A j \in 1 .. k : a[j] \in Octet /\ b[j] \in Octet
  OBVIOUS
<1>2. sa \in Seq(Octet) /\ Len(sa) = k /\ \A j \in 1 .. k : sa[j] = a[j]
  BY <1>1, SubSeqProperties
<1>3. sb \in Seq(Octet) /\ Len(sb) = k /\ \A j \in 1 .. k : sb[j] = b[j]
  BY <1>1, SubSeqProperties
<1> HIDE DEF sa, sb
<1>4. sa = sb
  BY <1>2, <1>3, SeqEqual
<1> QED BY <1>4 DEF sa, sb

\* A buffer that holds a text shorter than itself is terminated and has the
\* text's string.
LEMMA HeldText ==
    ASSUME NEW b \in Seq(Octet), NEW t \in Seq(Octet), Len(t) < Len(b), HoldsText(b, t)
    PROVE  CStr(b) = CStr(t) /\ IsTerminated(b)
<1> DEFINE k == StrLen(t)
<1>1. k \in 0 .. Len(t)
  BY StrLenType
<1>2. IsStrLen(b, k) /\ \A j \in 1 .. k : b[j] = t[j]
  BY DEF HoldsText
<1> HIDE DEF k
<1>3. StrLen(b) = k
  BY <1>2, StrLenIs
<1>4. k + 1 \in 1 .. Len(b) /\ b[k + 1] = NUL
  BY <1>1, <1>2 DEF IsStrLen
<1>5. SubSeq(b, 1, k) = SubSeq(t, 1, k)
  BY <1>1, <1>2, SamePrefix
<1> QED BY <1>3, <1>4, <1>5 DEF k, CStr, IsTerminated

-----------------------------------------------------------------------------
\* Filling a buffer.

\* An array of n elements is a sequence of length n.
LEMMA FunctionIsSeq ==
    ASSUME NEW S, NEW n \in Nat, NEW f \in [1 .. n -> S]
    PROVE  f \in Seq(S) /\ Len(f) = n
<1>1. f \in Seq(S)
  BY SeqDef
<1> QED BY <1>1, LenProperties

\* What is received fits in front of the terminator.
LEMMA TruncateFits ==
    ASSUME NEW d \in Seq(Octet), NEW n \in Nat
    PROVE  Truncate(d, n) \in Seq(Octet) /\ Len(Truncate(d, n)) \in 0 .. n
  BY DEF Truncate

\* A received datagram leaves its text in the buffer, whatever the buffer held
\* before, and the buffer keeps its size.
LEMMA ReceivedHolds ==
    ASSUME NEW b \in Seq(Octet), b # <<>>, NEW d \in Seq(Octet)
    PROVE  /\ Received(b, d) \in [1 .. Len(b) -> Octet]
           /\ Received(b, d) \in Seq(Octet)
           /\ Len(Received(b, d)) = Len(b)
           /\ HoldsText(Received(b, d), Truncate(d, Len(b) - 1))
<1> DEFINE t == Truncate(d, Len(b) - 1)
           r == Received(b, d)
<1>0. Len(b) \in Nat \ {0}
  OBVIOUS
<1>1. t \in Seq(Octet) /\ Len(t) \in 0 .. Len(b) - 1
  BY <1>0, TruncateFits
<1>2. r = [j \in 1 .. Len(b) |->
             IF j = Len(t) + 1 THEN NUL ELSE IF j <= Len(t) THEN t[j] ELSE b[j]]
  BY <1>0, <1>1 DEF Received, Terminate, Overwrite
<1> HIDE DEF t, r
<1>3. NUL \in Octet
  BY DEF NUL, Octet
<1>4. r \in [1 .. Len(b) -> Octet]
  BY <1>1, <1>2, <1>3
<1>5. r \in Seq(Octet) /\ Len(r) = Len(b)
  BY <1>0, <1>4, FunctionIsSeq
<1>6. StrLen(t) \in 0 .. Len(t) /\ IsStrLen(t, StrLen(t))
  BY <1>1, StrLenType
<1>7. \A j \in 1 .. StrLen(t) : r[j] = t[j]
  BY <1>1, <1>2, <1>6
<1>8. r[StrLen(t) + 1] = IF StrLen(t) < Len(t) THEN t[StrLen(t) + 1] ELSE NUL
  BY <1>1, <1>2, <1>6
<1>9. HoldsText(r, t)
  BY <1>0, <1>1, <1>5, <1>6, <1>7, <1>8 DEF HoldsText, IsStrLen
<1> QED BY <1>4, <1>5, <1>9 DEF r, t

\* Writing a terminator inside a buffer terminates it and keeps its size.
LEMMA TerminateType ==
    ASSUME NEW size \in Nat, NEW b \in [1 .. size -> Octet], NEW n \in 0 .. size - 1
    PROVE  /\ Terminate(b, n) \in [1 .. size -> Octet]
           /\ IsTerminated(Terminate(b, n))
<1> DEFINE e == Terminate(b, n)
<1>1. e \in [1 .. size -> Octet] /\ e[n + 1] = NUL
  BY DEF Terminate, NUL, Octet
<1>2. Len(e) = size
  BY <1>1, FunctionIsSeq
<1> QED BY <1>1, <1>2 DEF IsTerminated

\* Writing the terminator behind a text the buffer holds does not change it.
LEMMA TerminateHolds ==
    ASSUME NEW size \in Nat, NEW b \in [1 .. size -> Octet],
           NEW t \in Seq(Octet), Len(t) < size, HoldsText(b, t)
    PROVE  HoldsText(Terminate(b, Len(t)), t)
<1> DEFINE e == Terminate(b, Len(t))
<1>1. StrLen(t) \in 0 .. Len(t)
  BY StrLenType
<1>2. b \in Seq(Octet) /\ Len(b) = size
  BY FunctionIsSeq
<1>3. e \in Seq(Octet) /\ Len(e) = size
  BY <1>1, TerminateType, FunctionIsSeq
<1>4. \A j \in 1 .. size : e[j] = IF j = Len(t) + 1 THEN NUL ELSE b[j]
  BY DEF Terminate
<1> HIDE DEF e
<1>5. \A j \in 1 .. StrLen(t) : e[j] = t[j] /\ e[j] # NUL
  BY <1>1, <1>2, <1>4 DEF HoldsText, IsStrLen
<1>6. e[StrLen(t) + 1] = NUL
  BY <1>1, <1>2, <1>4 DEF HoldsText, IsStrLen
<1>7. HoldsText(e, t)
  BY <1>1, <1>3, <1>5, <1>6 DEF HoldsText, IsStrLen
<1> QED BY <1>7 DEF e

\* A block that has the octets of a text and its terminator, as strcpy copies
\* them from a buffer that holds the text, holds it too.
LEMMA StrcpyHolds ==
    ASSUME NEW size \in Nat, NEW b \in [1 .. size -> Octet],
           NEW block \in [1 .. size -> Octet],
           NEW t \in Seq(Octet), Len(t) < size, HoldsText(b, t),
           \A j \in 1 .. StrLen(b) + 1 : block[j] = b[j]
    PROVE  HoldsText(block, t)
<1> DEFINE k == StrLen(t)
<1>1. k \in 0 .. Len(t)
  BY StrLenType
<1>2. b \in Seq(Octet) /\ Len(b) = size /\ Len(block) = size
  BY FunctionIsSeq
<1>3. IsStrLen(b, k) /\ \A j \in 1 .. k : b[j] = t[j]
  BY DEF HoldsText
<1> HIDE DEF k
<1>4. StrLen(b) = k
  BY <1>2, <1>3, StrLenIs
<1>5. b[k + 1] = NUL /\ \A j \in 1 .. k : b[j] # NUL
  BY <1>1, <1>2, <1>3 DEF IsStrLen
<1>6. IsStrLen(block, k) /\ \A j \in 1 .. k : block[j] = t[j]
  BY <1>1, <1>2, <1>3, <1>4, <1>5 DEF IsStrLen
<1> QED BY <1>6 DEF k, HoldsText

-----------------------------------------------------------------------------
\* strtok.

\* The least index of a set, or 0.
LEMMA LeastIndex ==
    ASSUME NEW n \in Nat, NEW I \in SUBSET (1 .. n)
    PROVE  LET k == IF I # {} THEN Min(I) ELSE 0
           IN  /\ k \in 0 .. n
               /\ k = 0 => I = {}
               /\ k # 0 => k \in I /\ \A i \in I : k <= i
<1>1. CASE I = {}
  BY <1>1
<1>2. CASE I # {}
  <2>1. I \in SUBSET Nat
    OBVIOUS
  <2>2. PICK m \in I : m = Min(I) /\ \A y \in I : m <= y
    BY <1>2, <2>1, MinIs
  <2>3. m \in 1 .. n /\ m # 0
    OBVIOUS
  <2> QED BY <1>2, <2>2, <2>3
<1> QED BY <1>1, <1>2

\* Where a character is first found.
LEMMA FoundAt ==
    ASSUME NEW text \in Seq(Octet), NEW c
    PROVE  LET k == Find(text, c)
           IN  /\ k \in 0 .. Len(text)
               /\ k = 0 => \A i \in 1 .. Len(text) : text[i] # c
               /\ k # 0 => text[k] = c /\ \A i \in 1 .. k - 1 : text[i] # c
<1> DEFINE I == {i \in 1 .. Len(text) : text[i] = c}
           k == IF I # {} THEN Min(I) ELSE 0
<1>1. k \in 0 .. Len(text) /\ (k = 0 => I = {}) /\ (k # 0 => k \in I /\ \A i \in I : k <= i)
  <2>1. I \in SUBSET (1 .. Len(text)) /\ Len(text) \in Nat
    OBVIOUS
  <2> HIDE DEF I
  <2> QED BY <2>1, LeastIndex
<1> HIDE DEF k
<1>2. Find(text, c) = k
  BY DEF Find, SelectInSeq, k
<1> QED BY <1>1, <1>2

\* Where another character is first found.
LEMMA OtherAt ==
    ASSUME NEW text \in Seq(Octet), NEW c
    PROVE  LET k == FindOther(text, c)
           IN  /\ k \in 0 .. Len(text)
               /\ k = 0 => \A i \in 1 .. Len(text) : text[i] = c
               /\ k # 0 => text[k] # c /\ \A i \in 1 .. k - 1 : text[i] = c
<1> DEFINE I == {i \in 1 .. Len(text) : text[i] # c}
           k == IF I # {} THEN Min(I) ELSE 0
<1>1. k \in 0 .. Len(text) /\ (k = 0 => I = {}) /\ (k # 0 => k \in I /\ \A i \in I : k <= i)
  <2>1. I \in SUBSET (1 .. Len(text)) /\ Len(text) \in Nat
    OBVIOUS
  <2> HIDE DEF I
  <2> QED BY <2>1, LeastIndex
<1> HIDE DEF k
<1>2. FindOther(text, c) = k
  BY DEF FindOther, SelectInSeq, k
<1> QED BY <1>1, <1>2

\* strtok on a text t that starts at index i with a token that ends before index e.
LEMMA StrtokAt ==
    ASSUME NEW t \in Seq(Octet), NEW c, NEW i \in 1 .. Len(t), NEW e \in i + 1 .. Len(t) + 1,
           \A j \in 1 .. i - 1 : t[j] = c,
           \A j \in i .. e - 1 : t[j] # c,
           e <= Len(t) => t[e] = c
    PROVE  strtok(t, c) = [token |-> SubSeq(t, i, e - 1), rest |-> SubSeq(t, e + 1, Len(t))]
<1> DEFINE from == FindOther(t, c)
           start == SubSeq(t, i, Len(t))
           end == Find(start, c)
<1>1. from = i
  <2>1. /\ from \in 0 .. Len(t)
        /\ from = 0 => \A j \in 1 .. Len(t) : t[j] = c
        /\ from # 0 => t[from] # c /\ \A j \in 1 .. from - 1 : t[j] = c
    BY OtherAt
  <2> HIDE DEF from
  <2>2. i \in i .. e - 1
    OBVIOUS
  <2> QED BY <2>1, <2>2
<1>2. /\ start \in Seq(Octet) /\ Len(start) = Len(t) - i + 1
      /\ \A x \in 1 .. Len(t) - i + 1 : start[x] = t[i + x - 1]
  BY Part
<1>0. i # 0
  OBVIOUS
<1>7. strtok(t, c) = IF end = 0 THEN [token |-> start, rest |-> <<>>]
                     ELSE [token |-> SubSeq(start, 1, end - 1),
                           rest |-> SubSeq(start, end + 1, Len(start))]
  <2>1. FindOther(t, c) = i
    BY <1>1 DEF from
  <2> QED BY <1>0, <2>1, Zenon DEF strtok
<1> HIDE DEF from, start
<1>3. end = IF e <= Len(t) THEN e - i + 1 ELSE 0
  <2>1. /\ end \in 0 .. Len(start)
        /\ end = 0 => \A j \in 1 .. Len(start) : start[j] # c
        /\ end # 0 => start[end] = c /\ \A j \in 1 .. end - 1 : start[j] # c
    BY <1>2, FoundAt
  <2> HIDE DEF end
  <2>2. \A x \in 1 .. e - i : start[x] # c
    <3> SUFFICES ASSUME NEW x \in 1 .. e - i PROVE start[x] # c
      OBVIOUS
    <3> DEFINE y == i + x - 1
    <3>1. y \in i .. e - 1 /\ x \in 1 .. Len(t) - i + 1
      OBVIOUS
    <3>2. start[x] = t[y]
      BY <1>2, <3>1
    <3> HIDE DEF y
    <3> QED BY <3>1, <3>2
  <2>3. CASE e <= Len(t)
    <3>1. e - i + 1 \in 1 .. Len(start) /\ start[e - i + 1] = c
      BY <1>2, <2>3
    <3>2. end # 0 /\ ~(end < e - i + 1) /\ ~(e - i + 1 < end)
      BY <1>2, <2>1, <2>2, <3>1
    <3> QED BY <2>1, <2>3, <3>2
  <2>4. CASE e = Len(t) + 1
    BY <1>2, <2>1, <2>2, <2>4
  <2> QED BY <2>3, <2>4
<1> HIDE DEF end
<1>5. CASE e = Len(t) + 1
  <2>1. SubSeq(t, e + 1, Len(t)) = <<>>
    BY <1>5, SubSeqEmpty
  <2>2. end = 0 /\ e - 1 = Len(t)
    BY <1>3, <1>5
  <2> QED BY <1>7, <2>1, <2>2 DEF start
<1>6. CASE e <= Len(t)
  <2>1. SubSeq(start, 1, e - i) = SubSeq(t, i, e - 1)
    <3> DEFINE j == e - 1
               x == e - i
    <3>1. /\ Len(SubSeq(start, 1, x)) = x /\ SubSeq(start, 1, x) \in Seq(Octet)
          /\ \A y \in 1 .. x : SubSeq(start, 1, x)[y] = start[y]
      <4>1. x \in 0 .. Len(start) /\ x - 1 + 1 = x
        BY <1>2
      <4>2. /\ Len(SubSeq(start, 1, x)) = x - 1 + 1 /\ SubSeq(start, 1, x) \in Seq(Octet)
            /\ \A y \in 1 .. x - 1 + 1 : SubSeq(start, 1, x)[y] = start[1 + y - 1]
        <5> HIDE DEF x
        <5> QED BY <1>2, <4>1, Part
      <4> HIDE DEF x
      <4> QED BY <4>1, <4>2
    <3>2. /\ Len(SubSeq(t, i, j)) = x /\ SubSeq(t, i, j) \in Seq(Octet)
          /\ \A y \in 1 .. x : SubSeq(t, i, j)[y] = t[i + y - 1]
      <4>1. i \in Nat \ {0} /\ j \in 0 .. Len(t) /\ i <= j + 1 /\ j - i + 1 = x
        BY <1>6
      <4> HIDE DEF x, j
      <4> QED BY <4>1, Part
    <3>3. \A y \in 1 .. x : start[y] = t[i + y - 1]
      BY <1>2
    <3>4. SubSeq(start, 1, x) = SubSeq(t, i, j)
      <4> DEFINE a == SubSeq(start, 1, x)
                 b == SubSeq(t, i, j)
      <4> HIDE DEF x, j
      <4>1. /\ a \in Seq(Octet) /\ b \in Seq(Octet) /\ Len(a) = Len(b)
            /\ \A y \in 1 .. Len(a) : a[y] = b[y]
        BY <3>1, <3>2, <3>3
      <4> HIDE DEF a, b
      <4>2. a = b
        BY <4>1, SameText, Zenon
      <4> QED BY <4>2 DEF a, b
    <3> QED BY <3>4
  <2>2. SubSeq(start, e - i + 2, Len(start)) = SubSeq(t, e + 1, Len(t))
    <3> DEFINE x == e - i + 2
               n == Len(t)
    <3>1. i \in Nat \ {0} /\ n \in 0 .. Len(t) /\ i <= n + 1 /\ x \in 1 .. n - i + 2
          /\ n - i + 1 = Len(start) /\ i + x - 1 = e + 1
      BY <1>2, <1>6
    <3>2. SubSeq(SubSeq(t, i, n), x, n - i + 1) = SubSeq(t, i + x - 1, n)
      <4> HIDE DEF x, n
      <4> QED BY <3>1, PartOfPart
    <3> QED BY <3>1, <3>2 DEF start
  <2>3. end = e - i + 1 /\ end # 0 /\ end - 1 = e - i /\ end + 1 = e - i + 2
    BY <1>3, <1>6
  <2> QED BY <1>7, <2>1, <2>2, <2>3
<1> QED BY <1>5, <1>6

\* What strtok returns are texts.
LEMMA StrtokType ==
    ASSUME NEW t \in Seq(Octet), NEW c
    PROVE  strtok(t, c).token \in Seq(Octet) /\ strtok(t, c).rest \in Seq(Octet)
<1> DEFINE from == FindOther(t, c)
           start == IF from = 0 THEN <<>> ELSE SubSeq(t, from, Len(t))
           end == Find(start, c)
<1>1. from \in 0 .. Len(t)
  BY OtherAt
<1> HIDE DEF from
<1>2. start \in Seq(Octet)
  <2>1. CASE from = 0
    BY <2>1
  <2>2. CASE from # 0
    BY <1>1, <2>2, Part
  <2> QED BY <2>1, <2>2
<1> HIDE DEF start
<1>3. end \in 0 .. Len(start)
  BY <1>2, FoundAt
<1>4. strtok(t, c) = IF end = 0 THEN [token |-> start, rest |-> <<>>]
                     ELSE [token |-> SubSeq(start, 1, end - 1),
                           rest |-> SubSeq(start, end + 1, Len(start))]
  BY DEF strtok, from, start, end
<1> HIDE DEF end
<1>5. CASE end = 0
  BY <1>2, <1>4, <1>5
<1>6. CASE end # 0
  <2> DEFINE x == end - 1
             y == end + 1
             n == Len(start)
  <2>1. x \in 0 .. Len(start) /\ y \in Nat \ {0} /\ y <= n + 1 /\ n \in 0 .. Len(start) /\ 1 <= x + 1
    BY <1>2, <1>3, <1>6
  <2>2. SubSeq(start, 1, x) \in Seq(Octet) /\ SubSeq(start, y, n) \in Seq(Octet)
    <3> HIDE DEF x, y, n
    <3> QED BY <1>2, <2>1, Part
  <2> QED BY <1>4, <1>6, <2>2
<1> QED BY <1>5, <1>6

\* strtok on a text with a token between two separators, or up to the end.
LEMMA StrtokOf ==
    ASSUME NEW c \in Octet, NEW lead \in Seq(Octet), NEW tok \in Seq(Octet), NEW tail \in Seq(Octet),
           tok # <<>>,
           \A j \in 1 .. Len(lead) : lead[j] = c,
           \A j \in 1 .. Len(tok) : tok[j] # c
    PROVE  /\ strtok(lead \o (tok \o (<<c>> \o tail)), c) = [token |-> tok, rest |-> tail]
           /\ strtok(lead \o tok, c) = [token |-> tok, rest |-> <<>>]
<1> DEFINE n == Len(lead)
           m == Len(tok)
           k == Len(tail)
<1>1. n \in Nat /\ m \in Nat \ {0} /\ k \in Nat
  OBVIOUS
<1>2. strtok(lead \o (tok \o (<<c>> \o tail)), c) = [token |-> tok, rest |-> tail]
  <2> DEFINE b == <<c>> \o tail
             r == tok \o b
             t == lead \o r
             a == SubSeq(t, n + 1, n + m)
             z == SubSeq(t, n + m + 2, Len(t))
  <2>1. /\ b \in Seq(Octet) /\ Len(b) = k + 1
        /\ \A x \in 1 .. k + 1 : b[x] = IF x = 1 THEN c ELSE tail[x - 1]
    <3>1. /\ <<c>> \in Seq(Octet) /\ Len(<<c>>) = 1 /\ <<c>>[1] = c
      OBVIOUS
    <3> QED BY <3>1, ConcatProperties
  <2> HIDE DEF b
  <2>2. /\ r \in Seq(Octet) /\ Len(r) = m + k + 1
        /\ \A x \in 1 .. m + k + 1 : r[x] = IF x <= m THEN tok[x] ELSE b[x - m]
    <3> HIDE DEF m, k
    <3>1. /\ r \in Seq(Octet) /\ Len(r) = Len(tok) + Len(b)
          /\ \A x \in 1 .. Len(tok) + Len(b) : r[x] = IF x <= Len(tok) THEN tok[x] ELSE b[x - Len(tok)]
      BY <2>1, ConcatProperties, Zenon
    <3>2. Len(tok) + Len(b) = m + k + 1
      BY <1>1, <2>1 DEF m
    <3> QED BY <3>1, <3>2 DEF m
  <2> HIDE DEF r
  <2>3. /\ t \in Seq(Octet) /\ Len(t) = n + m + k + 1
        /\ \A x \in 1 .. n + m + k + 1 : t[x] = IF x <= n THEN lead[x] ELSE r[x - n]
    <3> HIDE DEF n, m, k
    <3>1. /\ t \in Seq(Octet) /\ Len(t) = Len(lead) + Len(r)
          /\ \A x \in 1 .. Len(lead) + Len(r) : t[x] = IF x <= Len(lead) THEN lead[x] ELSE r[x - Len(lead)]
      BY <2>2, ConcatProperties, Zenon
    <3>2. Len(lead) + Len(r) = n + m + k + 1
      BY <1>1, <2>2 DEF n
    <3> QED BY <3>1, <3>2 DEF n
  <2> HIDE DEF t
  <2>4. \A j \in 1 .. m : t[n + j] = tok[j]
    <3> SUFFICES ASSUME NEW j \in 1 .. m PROVE t[n + j] = tok[j]
      OBVIOUS
    <3> HIDE DEF n, m, k
    <3> DEFINE x == n + j
    <3>1. x \in 1 .. n + m + k + 1 /\ ~(x <= n) /\ x - n = j /\ j \in 1 .. m + k + 1 /\ j <= m
      BY <1>1
    <3> HIDE DEF x
    <3>2. t[x] = r[j]
      BY <2>3, <3>1
    <3>3. r[j] = tok[j]
      BY <2>2, <3>1
    <3> QED BY <3>2, <3>3 DEF x
  <2>5. t[n + m + 1] = c
    <3> HIDE DEF n, m, k
    <3> DEFINE x == n + m + 1
               y == m + 1
    <3>1. /\ x \in 1 .. n + m + k + 1 /\ ~(x <= n) /\ x - n = y
          /\ y \in 1 .. m + k + 1 /\ ~(y <= m) /\ y - m = 1
          /\ 1 \in 1 .. k + 1
      BY <1>1
    <3> HIDE DEF x, y
    <3>2. t[x] = r[y]
      BY <2>3, <3>1
    <3>3. r[y] = b[1]
      BY <2>2, <3>1
    <3>4. b[1] = c
      BY <2>1, <3>1
    <3> QED BY <3>2, <3>3, <3>4 DEF x
  <2>6. \A j \in 1 .. k : t[n + m + 1 + j] = tail[j]
    <3> SUFFICES ASSUME NEW j \in 1 .. k PROVE t[n + m + 1 + j] = tail[j]
      OBVIOUS
    <3> HIDE DEF n, m, k
    <3> DEFINE x == n + m + 1 + j
               y == m + 1 + j
               z1 == j + 1
    <3>1. /\ x \in 1 .. n + m + k + 1 /\ ~(x <= n) /\ x - n = y
          /\ y \in 1 .. m + k + 1 /\ ~(y <= m) /\ y - m = z1
          /\ z1 \in 1 .. k + 1 /\ z1 # 1 /\ z1 - 1 = j
      BY <1>1
    <3> HIDE DEF x, y, z1
    <3>2. t[x] = r[y]
      BY <2>3, <3>1
    <3>3. r[y] = b[z1]
      BY <2>2, <3>1
    <3>4. b[z1] = tail[j]
      BY <2>1, <3>1
    <3> QED BY <3>2, <3>3, <3>4 DEF x
  <2>7. strtok(t, c) = [token |-> a, rest |-> z]
    <3> DEFINE i == n + 1
               e == n + m + 1
    <3>1. i \in 1 .. Len(t) /\ e \in i + 1 .. Len(t) + 1 /\ i - 1 = n /\ e - 1 = n + m /\ e + 1 = n + m + 2
      BY <1>1, <2>3
    <3>2. \A j \in 1 .. i - 1 : t[j] = c
      BY <1>1, <2>3, <3>1
    <3>3. \A j \in i .. e - 1 : t[j] # c
      <4> SUFFICES ASSUME NEW j \in n + 1 .. n + m PROVE t[j] # c
        BY <3>1
      <4>1. j - n \in 1 .. m /\ n + (j - n) = j
        BY <1>1
      <4> QED BY <2>4, <4>1
    <3>4. t[e] = c
      BY <2>5
    <3>5. strtok(t, c) = [token |-> SubSeq(t, i, e - 1), rest |-> SubSeq(t, e + 1, Len(t))]
      <4> HIDE DEF i, e
      <4> QED BY <2>3, <3>1, <3>2, <3>3, <3>4, StrtokAt
    <3> QED BY <3>1, <3>5
  <2>8. a = tok
    <3> DEFINE i == n + 1
               j == n + m
    <3>1. i \in Nat \ {0} /\ j \in 0 .. Len(t) /\ i <= j + 1 /\ j - i + 1 = m
          /\ \A x \in 1 .. m : i + x - 1 = n + x
      BY <1>1, <2>3
    <3>2. a = SubSeq(t, i, j) /\ t \in Seq(Octet)
      BY <2>3
    <3> HIDE DEF i, j, m, a
    <3>4. a \in Seq(Octet) /\ Len(a) = m /\ \A x \in 1 .. m : a[x] = t[i + x - 1]
      BY <3>1, <3>2, Part
    <3>3. \A x \in 1 .. m : a[x] = tok[x]
      BY <2>4, <3>1, <3>4
    <3> QED BY <3>3, <3>4, SameText DEF m
  <2>9. z = tail
    <3> DEFINE i == n + m + 2
               j == Len(t)
    <3>1. i \in Nat \ {0} /\ j \in 0 .. Len(t) /\ i <= j + 1 /\ j - i + 1 = k
          /\ \A x \in 1 .. k : i + x - 1 = n + m + 1 + x
      BY <1>1, <2>3
    <3>2. z = SubSeq(t, i, j) /\ t \in Seq(Octet)
      BY <2>3
    <3> HIDE DEF i, j, k, z
    <3>4. z \in Seq(Octet) /\ Len(z) = k /\ \A x \in 1 .. k : z[x] = t[i + x - 1]
      BY <3>1, <3>2, Part
    <3>3. \A x \in 1 .. k : z[x] = tail[x]
      BY <2>6, <3>1, <3>4
    <3> QED BY <3>3, <3>4, SameText DEF k
  <2> QED BY <2>7, <2>8, <2>9 DEF t, r, b
<1>3. strtok(lead \o tok, c) = [token |-> tok, rest |-> <<>>]
  <2> DEFINE t == lead \o tok
             a == SubSeq(t, n + 1, n + m)
  <2>1. /\ t \in Seq(Octet) /\ Len(t) = n + m
        /\ \A x \in 1 .. n + m : t[x] = IF x <= n THEN lead[x] ELSE tok[x - n]
    BY ConcatProperties
  <2> HIDE DEF t
  <2>2. \A j \in 1 .. m : t[n + j] = tok[j]
    <3> SUFFICES ASSUME NEW j \in 1 .. m PROVE t[n + j] = tok[j]
      OBVIOUS
    <3> DEFINE x == n + j
    <3>1. x \in 1 .. n + m /\ ~(x <= n) /\ x - n = j
      BY <1>1
    <3> HIDE DEF x
    <3>2. t[x] = tok[j]
      BY <2>1, <3>1
    <3> QED BY <3>2 DEF x
  <2> DEFINE i == n + 1
             e == n + m + 1
  <2>3. i \in 1 .. Len(t) /\ e \in i + 1 .. Len(t) + 1 /\ i - 1 = n /\ e - 1 = n + m /\ ~(e <= Len(t))
        /\ e + 1 > Len(t) /\ e + 1 \in Int /\ Len(t) \in Int
    BY <1>1, <2>1
  <2>4. \A j \in 1 .. i - 1 : t[j] = c
    BY <1>1, <2>1, <2>3
  <2>5. \A j \in i .. e - 1 : t[j] # c
    <3> SUFFICES ASSUME NEW j \in n + 1 .. n + m PROVE t[j] # c
      BY <2>3
    <3>1. j - n \in 1 .. m /\ n + (j - n) = j
      BY <1>1
    <3> QED BY <2>2, <3>1
  <2>6. strtok(t, c) = [token |-> SubSeq(t, i, e - 1), rest |-> SubSeq(t, e + 1, Len(t))]
    <3> HIDE DEF i, e
    <3>1. /\ t \in Seq(Octet) /\ i \in 1 .. Len(t) /\ e \in i + 1 .. Len(t) + 1
          /\ e <= Len(t) => t[e] = c
      BY <2>1, <2>3
    <3> QED BY <3>1, <2>4, <2>5, StrtokAt, Zenon
  <2>7. SubSeq(t, e + 1, Len(t)) = <<>>
    <3> HIDE DEF e
    <3> QED BY <2>3, SubSeqEmpty
  <2>8. a = tok
    <3> DEFINE j == n + m
    <3>1. i \in Nat \ {0} /\ j \in 0 .. Len(t) /\ i <= j + 1 /\ j - i + 1 = m
          /\ \A x \in 1 .. m : i + x - 1 = n + x
      BY <1>1, <2>1
    <3>2. a = SubSeq(t, i, j) /\ t \in Seq(Octet)
      BY <2>1
    <3> HIDE DEF i, j, m, a
    <3>4. a \in Seq(Octet) /\ Len(a) = m /\ \A x \in 1 .. m : a[x] = t[i + x - 1]
      BY <3>1, <3>2, Part
    <3>3. \A x \in 1 .. m : a[x] = tok[x]
      BY <2>2, <3>1, <3>4
    <3> QED BY <3>3, <3>4, SameText DEF m
  <2> QED BY <2>3, <2>6, <2>7, <2>8 DEF t
<1> QED BY <1>2, <1>3

\* strtok on a text that starts with a token.
LEMMA StrtokFirst ==
    ASSUME NEW c \in Octet, NEW tok \in Seq(Octet), NEW tail \in Seq(Octet),
           tok # <<>>, c \notin ToSet(tok)
    PROVE  strtok(tok \o (<<c>> \o tail), c) = [token |-> tok, rest |-> tail]
<1> DEFINE lead == <<>>
           t == tok \o (<<c>> \o tail)
<1>1. lead \in Seq(Octet) /\ \A j \in 1 .. Len(lead) : lead[j] = c
  OBVIOUS
<1>2. \A j \in 1 .. Len(tok) : tok[j] # c
  BY CharOf
<1>3. t \in Seq(Octet)
  <2>1. <<c>> \in Seq(Octet)
    OBVIOUS
  <2>2. <<c>> \o tail \in Seq(Octet)
    BY <2>1, ConcatProperties
  <2> QED BY <2>2, ConcatProperties
<1>4. strtok(lead \o t, c) = [token |-> tok, rest |-> tail]
  <2> HIDE DEF lead
  <2> QED BY <1>1, <1>2, StrtokOf
<1>5. lead \o t = t
  <2> HIDE DEF t
  <2> QED BY <1>3, ConcatEmptySeq
<1> QED BY <1>4, <1>5
=============================================================================
