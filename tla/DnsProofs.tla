------------------------------ MODULE DnsProofs ------------------------------
(***************************************************************************)
(* For every host name that the format can carry, whatever the buffers     *)
(* held before and hold behind the datagrams: what send_dns_query writes,  *)
(* the server's parse_dns_query reads, and what the server answers, the    *)
(* client's; and so with TD6's library, whose reader follows a pointer at  *)
(* any label.  With any number of clients, ports, losses, duplicates and   *)
(* failing calls of recvfrom: a client prints an answer to a query that    *)
(* was sent from its own address, and no datagram overruns an array.       *)
(***************************************************************************)
EXTENDS DnsNames, DnsSystem, CStringsProofs

-----------------------------------------------------------------------------
\* A name, label by label.

Names == Seq(Octet)

\* Names put together.
LEMMA NamesJoin ==
    \A a, b \in Names : /\ a \o b \in Names /\ Len(a \o b) = Len(a) + Len(b)
                        /\ Len(a) \in Nat
<1>1. \A a \in Names : Len(a) \in Nat
  BY DEF Names
<1> QED BY <1>1, TextsJoin DEF Names

\* The first label of a name, and what is behind it.
Label(t) == strtok(t, Dot).token
Rest(t) == strtok(t, Dot).rest

\* The octets of one are octets of the other.
Within(s, t) == \A i \in 1 .. Len(s) : \E j \in 1 .. Len(t) : s[i] = t[j]

\* What the first label and the rest have to do with the name.
Splits(t) ==
    /\ Label(t) \in Names /\ Rest(t) \in Names
    /\ Label(t) # <<>> => Len(Rest(t)) < Len(t)
    /\ Dot \notin ToSet(Label(t))
    /\ Within(Label(t), t) /\ Within(Rest(t), t)
    /\ \A n \in Nat : LabelsFit(t, n) => Len(Label(t)) <= n /\ LabelsFit(Rest(t), n)

\* The start and the end of the first label.
IsFirst(t, i, e) ==
    /\ i \in 1 .. Len(t) /\ e \in i + 1 .. Len(t) + 1
    /\ \A j \in 1 .. i - 1 : t[j] = Dot
    /\ \A j \in i .. e - 1 : t[j] # Dot
    /\ e <= Len(t) => t[e] = Dot

LEMMA FirstExists ==
    ASSUME NEW t \in Names, NEW x \in 1 .. Len(t), t[x] # Dot
    PROVE  \E i, e \in Nat : IsFirst(t, i, e)
<1> USE DEF Names
<1> DEFINE I == {j \in 1 .. Len(t) : t[j] # Dot}
<1>1. PICK i \in I : \A j \in I : i <= j
  <2>1. I # {} /\ I \in SUBSET Nat
    OBVIOUS
  <2> HIDE DEF I
  <2> QED BY <2>1, LeastNumber
<1>2. i \in 1 .. Len(t) /\ t[i] # Dot /\ \A j \in 1 .. i - 1 : t[j] = Dot
  BY <1>1
<1> HIDE DEF I
<1> DEFINE E == {j \in i + 1 .. Len(t) + 1 : j = Len(t) + 1 \/ t[j] = Dot}
<1>3. PICK e \in E : \A j \in E : e <= j
  <2>1. E # {} /\ E \in SUBSET Nat
    <3>1. Len(t) + 1 \in E
      BY <1>2
    <3> QED BY <1>2, <3>1
  <2> HIDE DEF E
  <2> QED BY <2>1, LeastNumber
<1>4. e \in i + 1 .. Len(t) + 1 /\ (e <= Len(t) => t[e] = Dot)
  BY <1>2, <1>3
<1>5. \A j \in i .. e - 1 : t[j] # Dot
  BY <1>2, <1>3
<1>6. IsFirst(t, i, e)
  BY <1>2, <1>4, <1>5 DEF IsFirst
<1> QED BY <1>2, <1>4, <1>6

\* A name of dots has no label.
LEMMA NoLabel ==
    ASSUME NEW t \in Names, \A x \in 1 .. Len(t) : t[x] = Dot
    PROVE  Label(t) = <<>> /\ Rest(t) = <<>>
<1> USE DEF Names
<1>1. FindOther(t, Dot) = 0
  BY OtherAt
<1> DEFINE empty == <<>>
<1>2. empty \in Seq(Octet) /\ Len(empty) = 0
  OBVIOUS
<1>3. Find(empty, Dot) = 0
  <2> HIDE DEF empty
  <2>1. Find(empty, Dot) \in 0 .. Len(empty)
    BY <1>2, FoundAt
  <2> QED BY <1>2, <2>1
<1> QED BY <1>1, <1>3 DEF strtok, Label, Rest

LEMMA NameSplits ==
    ASSUME NEW t \in Names
    PROVE  Splits(t)
<1>0. t \in Seq(Octet) /\ Label(t) \in Seq(Octet) /\ Rest(t) \in Seq(Octet)
  BY StrtokType DEF Names, Label, Rest
<1>1. CASE \A x \in 1 .. Len(t) : t[x] = Dot
  <2>1. Label(t) = <<>> /\ Rest(t) = <<>>
    BY <1>1, NoLabel
  <2>2. <<>> \in Names /\ Len(<<>>) = 0 /\ ToSet(<<>>) = {}
    BY DEF Names, ToSet
  <2> QED BY <2>1, <2>2 DEF Splits, Within, LabelsFit
<1>2. CASE \E x \in 1 .. Len(t) : t[x] # Dot
  <2>1. PICK i \in Nat, e \in Nat : IsFirst(t, i, e)
    BY <1>2, FirstExists
  <2> DEFINE a == SubSeq(t, i, e - 1)
             z == SubSeq(t, e + 1, Len(t))
             n == Len(t)
  <2>2. Label(t) = a /\ Rest(t) = z
    <3>1. strtok(t, Dot) = [token |-> a, rest |-> z]
      BY <1>0, <2>1, StrtokAt, Zenon DEF IsFirst
    <3> HIDE DEF a, z
    <3> QED BY <3>1 DEF Label, Rest
  <2>3. a \in Seq(Octet) /\ Len(a) = e - i /\ \A x \in 1 .. e - i : a[x] = t[i + x - 1]
    <3> DEFINE j == e - 1
    <3>1. i \in Nat \ {0} /\ j \in 0 .. Len(t) /\ i <= j + 1 /\ j - i + 1 = e - i
      BY <1>0, <2>1 DEF IsFirst
    <3>2. a = SubSeq(t, i, j)
      OBVIOUS
    <3> HIDE DEF j, a
    <3> QED BY <1>0, <3>1, <3>2, Part
  <2>4. z \in Seq(Octet) /\ (e <= n => Len(z) = n - e /\ \A x \in 1 .. n - e : z[x] = t[e + x])
        /\ (e = n + 1 => z = <<>>)
    <3>1. CASE e <= n
      <4> DEFINE k == e + 1
      <4>1. k \in Nat \ {0} /\ n \in 0 .. Len(t) /\ k <= n + 1 /\ n - k + 1 = n - e
            /\ \A x \in Nat : k + x - 1 = e + x
        BY <1>0, <2>1, <3>1 DEF IsFirst
      <4>2. z = SubSeq(t, k, n)
        OBVIOUS
      <4> HIDE DEF k, z, n
      <4>3. z \in Seq(Octet) /\ Len(z) = n - e /\ \A x \in 1 .. n - e : z[x] = t[k + x - 1]
        BY <1>0, <4>1, <4>2, Part
      <4> QED BY <3>1, <4>1, <4>3
    <3>2. CASE e = n + 1
      <4>1. z = <<>>
        BY <1>0, <3>2, SubSeqEmpty
      <4> QED BY <1>0, <3>2, <4>1
    <3> QED BY <1>0, <2>1, <3>1, <3>2 DEF IsFirst
  <2> HIDE DEF a, z
  <2>5. /\ n \in Nat /\ i \in 1 .. n /\ e \in i + 1 .. n + 1
        /\ \A j \in i .. e - 1 : t[j] # Dot
    BY <1>0, <2>1 DEF IsFirst
  <2> HIDE DEF n
  <2>6. Len(z) < n
    <3>1. e = n + 1 => Len(z) = 0
      BY <2>4
    <3> QED BY <2>4, <2>5, <3>1
  <2>7. Dot \notin ToSet(a)
    <3>1. \A x \in 1 .. e - i : i + x - 1 \in i .. e - 1
      BY <2>5
    <3>2. \A x \in 1 .. e - i : a[x] # Dot
      BY <2>3, <2>5, <3>1
    <3> QED BY <2>3, <3>2, CharOf
  <2>8. Within(a, t)
    <3>1. \A x \in 1 .. e - i : i + x - 1 \in 1 .. n
      BY <2>5
    <3> QED BY <2>3, <3>1 DEF Within, n
  <2>9. Within(z, t)
    <3>1. \A x \in 1 .. n - e : e + x \in 1 .. n
      BY <2>5
    <3>2. CASE e = n + 1
      BY <2>4, <3>2 DEF Within
    <3>3. CASE e <= n
      BY <2>4, <3>1, <3>3 DEF Within, n
    <3> QED BY <2>5, <3>2, <3>3
  <2>10. ASSUME NEW m \in Nat, LabelsFit(t, m)
         PROVE  Len(a) <= m /\ LabelsFit(z, m)
    <3>0. \A k \in m + 1 .. n : \E j \in k - m .. k : t[j] = Dot
      BY <2>10 DEF LabelsFit, n
    <3>1. Len(a) <= m
      <4> SUFFICES ASSUME e - i > m PROVE FALSE
        BY <2>3, <2>5
      <4>1. i + m \in m + 1 .. n /\ i + m - m = i /\ i + m <= e - 1
        BY <2>5
      <4>2. PICK j \in i + m - m .. i + m : t[j] = Dot
        BY <3>0, <4>1
      <4> QED BY <2>5, <4>1, <4>2
    <3>2. LabelsFit(z, m)
      <4>1. CASE e = n + 1
        <5>1. Len(z) = 0
          BY <2>4, <4>1
        <5> QED BY <5>1 DEF LabelsFit
      <4>2. CASE e <= n
        <5> SUFFICES ASSUME NEW k \in m + 1 .. n - e
                     PROVE  \E j \in k - m .. k : z[j] = Dot
          BY <2>4, <4>2 DEF LabelsFit
        <5>1. e + k \in m + 1 .. n
          BY <2>5
        <5>2. PICK j \in e + k - m .. e + k : t[j] = Dot
          BY <3>0, <5>1
        <5>3. j - e \in k - m .. k /\ j - e \in 1 .. n - e /\ e + (j - e) = j
          BY <2>5, <5>2
        <5>4. z[j - e] = Dot
          BY <2>4, <4>2, <5>2, <5>3
        <5> QED BY <5>3, <5>4
      <4> QED BY <2>5, <4>1, <4>2
    <3> QED BY <3>1, <3>2
  <2> QED BY <1>0, <2>2, <2>6, <2>7, <2>8, <2>9, <2>10 DEF Splits, Names, n
<1> QED BY <1>1, <1>2

\* Induction over the labels of a name.
LEMMA AllNames ==
    ASSUME NEW P, \A t \in Names : (Label(t) # <<>> => Rest(t) \in P) => t \in P
    PROVE  \A t \in Names : t \in P
<1> DEFINE Q == {n \in Nat : \A t \in Names : Len(t) < n => t \in P}
<1>1. 0 \in Q
  BY DEF Names
<1>2. ASSUME NEW n \in Nat, n \in Q
      PROVE  n + 1 \in Q
  <2> SUFFICES ASSUME NEW t \in Names, Len(t) < n + 1 PROVE t \in P
    OBVIOUS
  <2>1. Label(t) # <<>> => Rest(t) \in Names /\ Len(Rest(t)) < Len(t)
    BY NameSplits DEF Splits
  <2>2. Label(t) # <<>> => Len(Rest(t)) < n
    BY <2>1 DEF Names
  <2> QED BY <1>2, <2>1, <2>2
<1>3. \A n \in Nat : n \in Q
  <2> HIDE DEF Q
  <2> QED BY <1>1, <1>2, AllNumbers
<1>4. \A t \in Names : Len(t) + 1 \in Nat /\ Len(t) < Len(t) + 1
  BY DEF Names
<1> QED BY <1>3, <1>4

\* A function that writes a name label by label, h being what it writes for one.
LEMMA ByLabel ==
    ASSUME NEW h \in [Names -> Names]
    PROVE  \E f \in [Names -> Names] :
               f = [t \in Names |-> IF Label(t) = <<>> THEN <<>> ELSE h[Label(t)] \o f[Rest(t)]]
<1> DEFINE size == [t \in Names |-> Len(t)]
           F == [f \in [Names -> Names] |-> [t \in Names |->
                   IF Label(t) = <<>> THEN <<>> ELSE h[Label(t)] \o f[Rest(t)]]]
<1>1. size \in [Names -> Nat]
  BY DEF Names
<1>2. \A t \in Names : Label(t) \in Names /\ Rest(t) \in Names
  BY NameSplits DEF Splits
<1>3. <<>> \in Names
  BY DEF Names
<1>4. \A a, b \in Names : a \o b \in Names
  BY TextsJoin DEF Names
<1>5. F \in [[Names -> Names] -> [Names -> Names]]
  <2>1. ASSUME NEW f \in [Names -> Names], NEW t \in Names
        PROVE  (IF Label(t) = <<>> THEN <<>> ELSE h[Label(t)] \o f[Rest(t)]) \in Names
    <3>1. h[Label(t)] \in Names /\ f[Rest(t)] \in Names
      BY <1>2
    <3> QED BY <1>3, <1>4, <3>1
  <2> QED BY <2>1, Zenon
<1>6. ASSUME NEW f \in [Names -> Names], NEW g \in [Names -> Names], NEW t \in Names,
             \A u \in Names : size[u] < size[t] => f[u] = g[u]
      PROVE  F[f][t] = F[g][t]
  <2>1. Label(t) # <<>> => f[Rest(t)] = g[Rest(t)]
    <3> SUFFICES ASSUME Label(t) # <<>> PROVE f[Rest(t)] = g[Rest(t)]
      OBVIOUS
    <3>1. Rest(t) \in Names /\ Len(Rest(t)) < Len(t)
      BY NameSplits DEF Splits
    <3>2. size[Rest(t)] < size[t]
      BY <3>1
    <3> QED BY <1>6, <3>1, <3>2
  <2> QED BY <2>1, Zenon
<1>7. LooksBelow(Names, Names, size, F)
  <2> HIDE DEF size, F
  <2> QED BY <1>6 DEF LooksBelow
<1>8. IsSolved(Names, Names, F)
  <2>1. Names # {}
    BY <1>3
  <2> HIDE DEF size, F
  <2> QED BY <1>1, <1>5, <1>7, <2>1, RecursionBySize, Zenon
<1> QED BY <1>8, Zenon DEF IsSolved

\* The functions of the model that do so.
Writes(f, h) ==
    \A t \in Names : /\ f[t] \in Names
                     /\ f[t] = IF Label(t) = <<>> THEN <<>> ELSE h[Label(t)] \o f[Rest(t)]

LEMMA WritesType ==
    ASSUME NEW f, NEW h \in [Names -> Names],
           f = [t \in Names |-> IF Label(t) = <<>> THEN <<>> ELSE h[Label(t)] \o f[Rest(t)]]
    PROVE  Writes(f, h)
<1> DEFINE P == {t \in Names : f[t] \in Names}
<1>1. \A t \in Names : f[t] = IF Label(t) = <<>> THEN <<>> ELSE h[Label(t)] \o f[Rest(t)]
  BY Zenon
<1>2. ASSUME NEW t \in Names, Label(t) # <<>> => Rest(t) \in P
      PROVE  t \in P
  <2>1. CASE Label(t) = <<>>
    <3>1. f[t] = <<>>
      BY <1>1, <2>1
    <3> QED BY <3>1 DEF Names
  <2>2. CASE Label(t) # <<>>
    <3>1. f[t] = h[Label(t)] \o f[Rest(t)]
      BY <1>1, <2>2
    <3>2. h[Label(t)] \in Names /\ f[Rest(t)] \in Names
      BY <1>2, <2>2, NameSplits DEF Splits
    <3> QED BY <3>1, <3>2, TextsJoin DEF Names
  <2> QED BY <2>1, <2>2
<1>3. \A t \in Names : t \in P
  <2> HIDE DEF P
  <2>1. \A t \in Names : (Label(t) # <<>> => Rest(t) \in P) => t \in P
    BY <1>2
  <2> QED BY <2>1, AllNames, Zenon
<1> QED BY <1>1, <1>3, Zenon DEF Writes

\* What each writes for a label.
WithLength == [a \in Names |-> Prefixed(a)]
WithDot == [a \in Names |-> a \o <<Dot>>]

LEMMA LabelTexts ==
    /\ WithLength \in [Names -> Names] /\ WithDot \in [Names -> Names]
    /\ \A a \in Names : /\ WithLength[a] = Prefixed(a) /\ WithDot[a] = a \o <<Dot>>
                        /\ Prefixed(a) = <<Len(a) % 256>> \o a
<1>1. \A a \in Names : <<Len(a) % 256>> \in Names
  <2>1. \A n \in Octet : <<n>> \in Names
    BY DEF Names
  <2>2. \A n \in Nat : n % 256 \in Octet
    BY DEF Octet
  <2>3. \A a \in Names : Len(a) \in Nat
    BY DEF Names
  <2> QED BY <2>1, <2>2, <2>3
<1>2. <<Dot>> \in Names
  BY DEF Names, Octet, Dot
<1>3. \A a, b \in Names : a \o b \in Names
  BY TextsJoin DEF Names
<1>4. \A a \in Names : Prefixed(a) \in Names /\ a \o <<Dot>> \in Names
  BY <1>1, <1>2, <1>3, Zenon DEF Prefixed
<1> QED BY <1>4, Zenon DEF WithLength, WithDot, Prefixed

LEMMA EncodedIs == Writes(Encoded, WithLength)
<1>1. PICK f \in [Names -> Names] :
          f = [t \in Names |-> IF Label(t) = <<>> THEN <<>> ELSE WithLength[Label(t)] \o f[Rest(t)]]
  BY ByLabel, LabelTexts
<1>2. \A t \in Names : Label(t) \in Names
  BY NameSplits DEF Splits
<1>6. f = [t \in Names |-> IF Label(t) = <<>> THEN <<>> ELSE Prefixed(Label(t)) \o f[Rest(t)]]
  <2> DEFINE A(t) == IF Label(t) = <<>> THEN <<>> ELSE WithLength[Label(t)] \o f[Rest(t)]
             B(t) == IF Label(t) = <<>> THEN <<>> ELSE Prefixed(Label(t)) \o f[Rest(t)]
  <2>1. \A t \in Names : A(t) = B(t)
    BY <1>2, LabelTexts
  <2> HIDE DEF A, B
  <2>2. [t \in Names |-> A(t)] = [t \in Names |-> B(t)]
    BY <2>1, Zenon
  <2> QED BY <1>1, <2>2, Zenon DEF A, B
<1>3. f = [t \in Seq(Octet) |-> IF strtok(t, Dot).token = <<>> THEN <<>>
                                ELSE Prefixed(strtok(t, Dot).token) \o f[strtok(t, Dot).rest]]
  BY <1>6, Zenon DEF Label, Rest, Names
<1>4. Encoded = [t \in Seq(Octet) |-> IF strtok(t, Dot).token = <<>> THEN <<>>
                                ELSE Prefixed(strtok(t, Dot).token) \o Encoded[strtok(t, Dot).rest]]
  BY <1>3, Zenon DEF Encoded
<1>7. Encoded = [t \in Names |-> IF Label(t) = <<>> THEN <<>>
                                 ELSE Prefixed(Label(t)) \o Encoded[Rest(t)]]
  BY <1>4, Zenon DEF Label, Rest, Names
<1>5. Encoded = [t \in Names |-> IF Label(t) = <<>> THEN <<>>
                                 ELSE WithLength[Label(t)] \o Encoded[Rest(t)]]
  <2> DEFINE A(t) == IF Label(t) = <<>> THEN <<>> ELSE WithLength[Label(t)] \o Encoded[Rest(t)]
             B(t) == IF Label(t) = <<>> THEN <<>> ELSE Prefixed(Label(t)) \o Encoded[Rest(t)]
  <2>1. \A t \in Names : A(t) = B(t)
    BY <1>2, LabelTexts
  <2> HIDE DEF A, B
  <2>2. [t \in Names |-> A(t)] = [t \in Names |-> B(t)]
    BY <2>1, Zenon
  <2> QED BY <1>7, <2>2, Zenon DEF A, B
<1> QED BY <1>5, LabelTexts, WritesType, Zenon

LEMMA CanonicalIs == Writes(Canonical, WithDot)
<1>1. PICK f \in [Names -> Names] :
          f = [t \in Names |-> IF Label(t) = <<>> THEN <<>> ELSE WithDot[Label(t)] \o f[Rest(t)]]
  BY ByLabel, LabelTexts
<1>2. \A t \in Names : Label(t) \in Names
  BY NameSplits DEF Splits
<1>6. f = [t \in Names |-> IF Label(t) = <<>> THEN <<>> ELSE Label(t) \o <<Dot>> \o f[Rest(t)]]
  <2> DEFINE A(t) == IF Label(t) = <<>> THEN <<>> ELSE WithDot[Label(t)] \o f[Rest(t)]
             B(t) == IF Label(t) = <<>> THEN <<>> ELSE Label(t) \o <<Dot>> \o f[Rest(t)]
  <2>1. \A t \in Names : A(t) = B(t)
    BY <1>2, LabelTexts
  <2> HIDE DEF A, B
  <2>2. [t \in Names |-> A(t)] = [t \in Names |-> B(t)]
    BY <2>1, Zenon
  <2> QED BY <1>1, <2>2, Zenon DEF A, B
<1>3. f = [t \in Seq(Octet) |-> IF strtok(t, Dot).token = <<>> THEN <<>>
                                ELSE strtok(t, Dot).token \o <<Dot>> \o f[strtok(t, Dot).rest]]
  BY <1>6, Zenon DEF Label, Rest, Names
<1>4. Canonical = [t \in Seq(Octet) |-> IF strtok(t, Dot).token = <<>> THEN <<>>
                                ELSE strtok(t, Dot).token \o <<Dot>> \o Canonical[strtok(t, Dot).rest]]
  BY <1>3, Zenon DEF Canonical
<1>7. Canonical = [t \in Names |-> IF Label(t) = <<>> THEN <<>>
                                   ELSE Label(t) \o <<Dot>> \o Canonical[Rest(t)]]
  BY <1>4, Zenon DEF Label, Rest, Names
<1>5. Canonical = [t \in Names |-> IF Label(t) = <<>> THEN <<>>
                                 ELSE WithDot[Label(t)] \o Canonical[Rest(t)]]
  <2> DEFINE A(t) == IF Label(t) = <<>> THEN <<>> ELSE WithDot[Label(t)] \o Canonical[Rest(t)]
             B(t) == IF Label(t) = <<>> THEN <<>> ELSE Label(t) \o <<Dot>> \o Canonical[Rest(t)]
  <2>1. \A t \in Names : A(t) = B(t)
    BY <1>2, LabelTexts
  <2> HIDE DEF A, B
  <2>2. [t \in Names |-> A(t)] = [t \in Names |-> B(t)]
    BY <2>1, Zenon
  <2> QED BY <1>7, <2>2, Zenon DEF A, B
<1> QED BY <1>5, LabelTexts, WritesType, Zenon

\* A name with the label a and the rest r, written either way: k is the label's
\* length, d the dot, c and e are what is written for the rest.
Written(t, a, r, k, d, c, e) ==
    /\ a \in Names /\ r \in Names /\ k \in Names /\ d \in Names /\ c \in Names /\ e \in Names
    /\ Canonical[t] = a \o (d \o c)
    /\ Encoded[t] = (k \o a) \o e

LEMMA FirstLabel ==
    ASSUME NEW t \in Names, Label(t) # <<>>
    PROVE  Written(t, Label(t), Rest(t), <<Len(Label(t)) % 256>>, <<Dot>>,
                   Canonical[Rest(t)], Encoded[Rest(t)])
<1> DEFINE a == Label(t)
           r == Rest(t)
           k == Len(a) % 256
<1>1. a \in Names /\ r \in Names
  BY NameSplits DEF Splits
<1>2. Canonical[r] \in Names /\ Encoded[r] \in Names
  BY <1>1, EncodedIs, CanonicalIs DEF Writes
<1>3. \A n \in Octet : <<n>> \in Names
  BY DEF Names
<1>4. Dot \in Octet /\ k \in Octet
  <2>1. \A n \in Nat : n % 256 \in Octet
    BY DEF Octet
  <2>2. Len(a) \in Nat
    BY <1>1 DEF Names
  <2>3. Dot \in Octet
    BY DEF Dot, Octet
  <2> QED BY <2>1, <2>2, <2>3
<1>5. Canonical[t] = WithDot[a] \o Canonical[r] /\ Encoded[t] = WithLength[a] \o Encoded[r]
  BY EncodedIs, CanonicalIs DEF Writes
<1>6. WithDot[a] = a \o <<Dot>> /\ WithLength[a] = <<k>> \o a
  BY <1>1, LabelTexts
<1>8. <<Dot>> \in Names /\ <<k>> \in Names
  BY <1>3, <1>4
<1>7. (a \o <<Dot>>) \o Canonical[r] = a \o (<<Dot>> \o Canonical[r])
  <2> DEFINE c == Canonical[r]
             d == <<Dot>>
  <2>1. a \in Names /\ d \in Names /\ c \in Names
    BY <1>1, <1>2, <1>8
  <2> HIDE DEF a, d, c
  <2>2. (a \o d) \o c = a \o (d \o c)
    BY <2>1, TextsAssociate, Zenon DEF Names
  <2> QED BY <2>2 DEF d, c
<1>9. Canonical[t] = a \o (<<Dot>> \o Canonical[r]) /\ Encoded[t] = (<<k>> \o a) \o Encoded[r]
  <2> HIDE DEF a, r, k
  <2> QED BY <1>5, <1>6, <1>7
<1> QED BY <1>1, <1>2, <1>8, <1>9, Zenon DEF Written

LEMMA NoMoreLabels ==
    ASSUME NEW t \in Names, Label(t) = <<>>
    PROVE  Canonical[t] = <<>> /\ Encoded[t] = <<>>
  BY EncodedIs, CanonicalIs DEF Writes

\* What is in both of two texts is in the text of both.
NoneIs(t, c) == \A i \in 1 .. Len(t) : t[i] # c

LEMMA NoneOfBoth ==
    \A a, b \in Names : \A c : NoneIs(a, c) /\ NoneIs(b, c) => NoneIs(a \o b, c)
<1> SUFFICES ASSUME NEW a \in Names, NEW b \in Names, NEW c, NoneIs(a, c), NoneIs(b, c)
             PROVE  NoneIs(a \o b, c)
  OBVIOUS
<1> DEFINE m == Len(a)
           n == Len(b)
           t == a \o b
<1>1. /\ m \in Nat /\ n \in Nat /\ Len(t) = m + n
      /\ \A i \in 1 .. m + n : t[i] = IF i <= m THEN a[i] ELSE b[i - m]
  BY ConcatProperties DEF Names
<1>2. (\A i \in 1 .. m : a[i] # c) /\ \A i \in 1 .. n : b[i] # c
  BY DEF NoneIs
<1> HIDE DEF m, n, t
<1>3. ASSUME NEW i \in 1 .. m + n
      PROVE  t[i] # c
  <2>1. CASE i <= m
    BY <1>1, <1>2, <2>1
  <2>2. CASE i > m
    <3>1. i - m \in 1 .. n /\ ~(i <= m)
      BY <1>1, <2>2
    <3> QED BY <1>1, <1>2, <3>1
  <2> QED BY <1>1, <2>1, <2>2
<1>4. NoneIs(t, c)
  BY <1>1, <1>3 DEF NoneIs
<1> QED BY <1>4 DEF t

\* A text without a NUL is its own string, with or without a terminator.
LEMMA WholeText ==
    \A c \in Names : NoneIs(c, NUL) => CStr(c) = c /\ CStr(c \o <<NUL>>) = c
<1> SUFFICES ASSUME NEW c \in Names, NoneIs(c, NUL)
             PROVE  CStr(c) = c /\ CStr(c \o <<NUL>>) = c
  OBVIOUS
<1> DEFINE n == Len(c)
           z == <<NUL>>
           b == c \o z
<1>1. n \in Nat /\ (\A j \in 1 .. n : c[j] # NUL) /\ c \in Seq(Octet)
  BY DEF NoneIs, Names
<1>2. z \in Seq(Octet) /\ Len(z) = 1 /\ z[1] = NUL
  BY DEF NUL, Octet
<1>3. /\ b \in Seq(Octet) /\ Len(b) = n + 1
      /\ \A j \in 1 .. n + 1 : b[j] = IF j <= n THEN c[j] ELSE z[j - n]
  <2> HIDE DEF z, n
  <2>1. /\ b \in Seq(Octet) /\ Len(b) = Len(c) + Len(z)
        /\ \A j \in 1 .. Len(c) + Len(z) : b[j] = IF j <= Len(c) THEN c[j] ELSE z[j - Len(c)]
    BY <1>1, <1>2, ConcatProperties, Zenon
  <2>2. Len(c) + Len(z) = n + 1
    BY <1>2 DEF n
  <2> QED BY <2>1, <2>2 DEF n
<1> HIDE DEF z, b
<1>4. IsStrLen(c, n)
  BY <1>1 DEF IsStrLen
<1>5. IsStrLen(b, n)
  <2>1. \A j \in 1 .. n : b[j] = c[j]
    BY <1>1, <1>3
  <2>2. b[n + 1] = z[1]
    <3>1. n + 1 \in 1 .. n + 1 /\ ~(n + 1 <= n) /\ n + 1 - n = 1
      BY <1>1
    <3> QED BY <1>3, <3>1
  <2>3. b[n + 1] = NUL /\ \A j \in 1 .. n : b[j] # NUL
    BY <1>1, <1>2, <2>1, <2>2
  <2>4. n \in Nat /\ Len(b) = n + 1
    BY <1>1, <1>3
  <2> HIDE DEF n
  <2> QED BY <2>3, <2>4 DEF IsStrLen
<1>6. StrLen(c) = n /\ StrLen(b) = n
  BY <1>1, <1>3, <1>4, <1>5, StrLenIs
<1>7. \A t \in Seq(Octet) : Len(t) = n /\ (\A j \in 1 .. n : t[j] = c[j]) => t = c
  BY <1>1, SameText
<1>8. CStr(c) = c
  <2>1. CStr(c) \in Seq(Octet) /\ Len(CStr(c)) = n /\ \A j \in 1 .. n : CStr(c)[j] = c[j]
    BY <1>1, <1>6, StrLenType
  <2> QED BY <1>7, <2>1
<1>9. CStr(b) = c
  <2>1. CStr(b) \in Seq(Octet) /\ Len(CStr(b)) = n /\ \A j \in 1 .. n : CStr(b)[j] = b[j]
    BY <1>3, <1>6, StrLenType
  <2>2. \A j \in 1 .. n : CStr(b)[j] = c[j]
    BY <1>1, <1>3, <2>1
  <2> QED BY <1>7, <2>1, <2>2
<1> QED BY <1>8, <1>9 DEF b, z

\* Both texts of a name are as long, and have no NUL where the name has none.
SameLength(t) == Len(Encoded[t]) = Len(Canonical[t])
NulFree(t) ==
    NoneIs(t, NUL) => /\ NoneIs(Canonical[t], NUL)
                      /\ LabelsFit(t, 255) => NoneIs(Encoded[t], NUL)

LEMMA NameTexts == \A t \in Names : SameLength(t) /\ NulFree(t)
<1> DEFINE P == {t \in Names : SameLength(t) /\ NulFree(t)}
<1>1. ASSUME NEW t \in Names, Label(t) # <<>> => Rest(t) \in P
      PROVE  t \in P
  <2>1. CASE Label(t) = <<>>
    <3>1. Canonical[t] = <<>> /\ Encoded[t] = <<>>
      BY <2>1, NoMoreLabels
    <3> QED BY <3>1 DEF SameLength, NulFree, NoneIs
  <2>2. CASE Label(t) # <<>>
    <3> DEFINE a == Label(t)
               r == Rest(t)
               k == <<Len(a) % 256>>
               d == <<Dot>>
               c == Canonical[r]
               e == Encoded[r]
    <3>0. Written(t, a, r, k, d, c, e)
      BY <2>2, FirstLabel, Zenon
    <3>1. /\ a \in Names /\ r \in Names /\ c \in Names /\ e \in Names
          /\ d \in Names /\ k \in Names /\ a # <<>>
          /\ Canonical[t] = a \o (d \o c) /\ Encoded[t] = (k \o a) \o e
      <4> HIDE DEF a, r, k, d, c, e
      <4> QED BY <2>2, <3>0, Zenon DEF Written, a
    <3>2. Len(d) = 1 /\ Len(k) = 1
      OBVIOUS
    <3>3. Len(e) = Len(c) /\ NulFree(r)
      BY <1>1, <2>2 DEF SameLength
    <3>4. NoneIs(d, NUL)
      BY DEF NoneIs, Dot, NUL
    <3>5. LabelsFit(t, 255) => NoneIs(k, NUL) /\ LabelsFit(r, 255)
      <4> SUFFICES ASSUME LabelsFit(t, 255) PROVE NoneIs(k, NUL) /\ LabelsFit(r, 255)
        OBVIOUS
      <4>1. Len(a) <= 255 /\ LabelsFit(r, 255)
        BY NameSplits DEF Splits
      <4>2. Len(a) \in Nat /\ Len(a) # 0
        BY <3>1 DEF Names
      <4>3. Len(a) % 256 # 0
        BY <4>1, <4>2
      <4> QED BY <4>1, <4>3 DEF NoneIs, NUL
    <3>6. NoneIs(t, NUL) => NoneIs(a, NUL) /\ NoneIs(r, NUL)
      <4> HIDE DEF a, r
      <4>1. Within(a, t) /\ Within(r, t)
        BY NameSplits DEF Splits, a, r
      <4> QED BY <4>1 DEF Within, NoneIs
    <3> HIDE DEF a, r, k, d, c, e
    <3>7. Len(Encoded[t]) = Len(Canonical[t])
      <4>1. d \o c \in Names /\ Len(d \o c) = Len(d) + Len(c)
        BY <3>1, NamesJoin, Zenon
      <4>2. Len(a \o (d \o c)) = Len(a) + Len(d \o c)
        BY <3>1, <4>1, NamesJoin, Zenon
      <4>3. k \o a \in Names /\ Len(k \o a) = Len(k) + Len(a)
        BY <3>1, NamesJoin, Zenon
      <4>4. Len((k \o a) \o e) = Len(k \o a) + Len(e)
        BY <3>1, <4>3, NamesJoin, Zenon
      <4>5. Len(a) \in Nat /\ Len(c) \in Nat
        BY <3>1, NamesJoin, Zenon
      <4>6. Len(Encoded[t]) = Len((k \o a) \o e) /\ Len(Canonical[t]) = Len(a \o (d \o c))
        BY <3>1, Zenon
      <4> HIDE <3>1
      <4> QED BY <3>2, <3>3, <4>1, <4>2, <4>3, <4>4, <4>5, <4>6
    <3>8. NulFree(t)
      <4> SUFFICES ASSUME NoneIs(t, NUL)
                   PROVE  /\ NoneIs(Canonical[t], NUL)
                          /\ LabelsFit(t, 255) => NoneIs(Encoded[t], NUL)
        BY DEF NulFree
      <4>1. d \o c \in Names /\ k \o a \in Names
        BY <3>1, NamesJoin, Zenon
      <4>2. NoneIs(a, NUL) /\ NoneIs(c, NUL) /\ (LabelsFit(r, 255) => NoneIs(e, NUL))
        BY <3>3, <3>6 DEF NulFree, c, e
      <4>3. NoneIs(d \o c, NUL)
        BY <3>1, <3>4, <4>2, NoneOfBoth, Zenon
      <4>4. NoneIs(a \o (d \o c), NUL)
        BY <3>1, <4>1, <4>2, <4>3, NoneOfBoth, Zenon
      <4>5. LabelsFit(t, 255) => NoneIs((k \o a) \o e, NUL)
        <5>1. LabelsFit(t, 255) => NoneIs(k \o a, NUL)
          BY <3>1, <3>5, <4>2, NoneOfBoth, Zenon
        <5> QED BY <3>1, <3>5, <4>1, <4>2, <5>1, NoneOfBoth, Zenon
      <4> QED BY <3>1, <4>4, <4>5
    <3> QED BY <3>7, <3>8 DEF SameLength
  <2> QED BY <2>1, <2>2
<1>2. \A t \in Names : t \in P
  <2> HIDE DEF P
  <2>1. \A t \in Names : (Label(t) # <<>> => Rest(t) \in P) => t \in P
    BY <1>1
  <2> QED BY <2>1, AllNames, Zenon
<1> QED BY <1>2

\* A name without its superfluous dots is written as the name itself.
LEMMA CanonicalEncoded == \A t \in Names : Encoded[Canonical[t]] = Encoded[t]
<1> DEFINE P == {t \in Names : Encoded[Canonical[t]] = Encoded[t]}
<1>1. ASSUME NEW t \in Names, Label(t) # <<>> => Rest(t) \in P
      PROVE  t \in P
  <2>1. CASE Label(t) = <<>>
    <3> DEFINE empty == <<>>
    <3>1. Canonical[t] = empty /\ Encoded[t] = empty
      BY <2>1, NoMoreLabels
    <3>2. empty \in Names /\ \A x \in 1 .. Len(empty) : empty[x] = Dot
      BY DEF Names
    <3>3. Label(empty) = <<>>
      <4> HIDE DEF empty
      <4> QED BY <3>2, NoLabel
    <3>4. Encoded[empty] = <<>>
      <4> HIDE DEF empty
      <4> QED BY <3>2, <3>3, NoMoreLabels
    <3> QED BY <3>1, <3>4
  <2>2. CASE Label(t) # <<>>
    <3> DEFINE a == Label(t)
               r == Rest(t)
               c == Canonical[r]
               n == Canonical[t]
    <3>1. /\ a \in Seq(Octet) /\ r \in Names /\ c \in Seq(Octet) /\ a # <<>>
          /\ n \in Names /\ n = a \o (<<Dot>> \o c)
          /\ Encoded[t] = (<<Len(a) % 256>> \o a) \o Encoded[r]
      <4>1. n \in Names
        BY CanonicalIs DEF Writes
      <4>2. Written(t, a, r, <<Len(a) % 256>>, <<Dot>>, c, Encoded[r])
        BY <2>2, FirstLabel, Zenon
      <4> HIDE DEF a, r, c, n
      <4>3. a # <<>>
        BY <2>2 DEF a
      <4>4. /\ n = a \o (<<Dot>> \o c) /\ a \in Names /\ r \in Names /\ c \in Names
            /\ Encoded[t] = (<<Len(a) % 256>> \o a) \o Encoded[r]
        BY <4>2, Zenon DEF Written, n
      <4> QED BY <4>1, <4>3, <4>4 DEF Names
    <3>2. Dot \in Octet /\ Dot \notin ToSet(a)
      BY NameSplits DEF Splits, Dot, Octet
    <3>3. strtok(n, Dot) = [token |-> a, rest |-> c]
      <4> HIDE DEF a, c, n
      <4>1. strtok(a \o (<<Dot>> \o c), Dot) = [token |-> a, rest |-> c]
        BY <3>1, <3>2, StrtokFirst, Zenon
      <4> QED BY <3>1, <4>1
    <3>4. Label(n) = a /\ Rest(n) = c
      <4> HIDE DEF a, c, n
      <4> QED BY <3>3 DEF Label, Rest
    <3>5. Encoded[c] = Encoded[r]
      BY <1>1, <2>2
    <3>6. Encoded[n] = (<<Len(a) % 256>> \o a) \o Encoded[c]
      <4> HIDE DEF a, c, n
      <4>1. Encoded[n] = (<<Len(Label(n)) % 256>> \o Label(n)) \o Encoded[Rest(n)]
        <5>1. n \in Names /\ Label(n) # <<>>
          BY <3>1, <3>4
        <5>2. Written(n, Label(n), Rest(n), <<Len(Label(n)) % 256>>, <<Dot>>,
                      Canonical[Rest(n)], Encoded[Rest(n)])
          BY <5>1, FirstLabel, Zenon
        <5> QED BY <5>2 DEF Written
      <4> QED BY <3>4, <4>1
    <3> QED BY <3>1, <3>5, <3>6
  <2> QED BY <2>1, <2>2
<1>2. \A t \in Names : t \in P
  <2> HIDE DEF P
  <2>1. \A t \in Names : (Label(t) # <<>> => Rest(t) \in P) => t \in P
    BY <1>1
  <2> QED BY <2>1, AllNames, Zenon
<1> QED BY <1>2

-----------------------------------------------------------------------------
\* Where a text is in a message.

Lies(m, p, s) == p + Len(s) <= Len(m) /\ \A j \in 1 .. Len(s) : m[p + j] = s[j]

LEMMA LiesWhole == \A m \in Names : Lies(m, 0, m)
  BY DEF Lies, Names

\* The parts of a text lie one behind the other.
LEMMA LiesPart ==
    ASSUME NEW m \in Names, NEW p \in Nat, NEW a \in Names, NEW b \in Names, Lies(m, p, a \o b)
    PROVE  Lies(m, p, a) /\ Lies(m, p + Len(a), b)
<1> DEFINE k == Len(a)
           l == Len(b)
           t == a \o b
           n == Len(m)
<1>1. /\ k \in Nat /\ l \in Nat /\ Len(t) = k + l
      /\ \A j \in 1 .. k + l : t[j] = IF j <= k THEN a[j] ELSE b[j - k]
  BY ConcatProperties DEF Names
<1>2. p + Len(t) <= n /\ \A j \in 1 .. Len(t) : m[p + j] = t[j]
  BY DEF Lies
<1>0. n \in Nat
  BY DEF Names
<1> HIDE DEF k, l, t, n
<1>3. p + k <= n /\ p + k + l <= n
  <2>1. p + (k + l) <= n
    BY <1>1, <1>2
  <2> QED BY <1>0, <1>1, <2>1
<1>4. \A j \in 1 .. k : m[p + j] = a[j]
  <2> SUFFICES ASSUME NEW j \in 1 .. k PROVE m[p + j] = a[j]
    OBVIOUS
  <2>1. j \in 1 .. k + l /\ j <= k
    BY <1>1
  <2>2. t[j] = a[j]
    BY <1>1, <2>1
  <2>3. m[p + j] = t[j]
    BY <1>1, <1>2, <2>1
  <2> QED BY <2>2, <2>3
<1>5. \A j \in 1 .. l : m[p + k + j] = b[j]
  <2> SUFFICES ASSUME NEW j \in 1 .. l PROVE m[p + k + j] = b[j]
    OBVIOUS
  <2> DEFINE i == k + j
  <2>1. i \in 1 .. k + l /\ ~(i <= k) /\ i - k = j /\ p + k + j = p + i
    BY <1>1
  <2> HIDE DEF i
  <2>2. t[i] = b[j]
    BY <1>1, <2>1
  <2>3. m[p + i] = t[i]
    BY <1>1, <1>2, <2>1
  <2> QED BY <2>1, <2>2, <2>3
<1> QED BY <1>3, <1>4, <1>5 DEF Lies, k, l, n

Buffers == [data : Names, fill : Octet]

LEMMA BufferType ==
    \A m \in Names, f \in Octet :
        Buffer(m, f) \in Buffers /\ Buffer(m, f).data = m /\ Buffer(m, f).fill = f
  BY DEF Buffer, Buffers

LEMMA AtType == \A b \in Buffers, p \in Nat : At(b, p) \in Octet
<1> SUFFICES ASSUME NEW b \in Buffers, NEW p \in Nat PROVE At(b, p) \in Octet
  OBVIOUS
<1>1. b.data \in Seq(Octet) /\ b.fill \in Octet
  BY DEF Buffers, Names
<1>2. CASE p < Len(b.data)
  <2> DEFINE d == b.data
             i == p + 1
  <2>1. i \in 1 .. Len(d) /\ d \in Seq(Octet)
    BY <1>1, <1>2
  <2> HIDE DEF d, i
  <2>2. d[i] \in Octet
    BY <2>1
  <2> QED BY <1>2, <2>2 DEF At, d, i
<1>3. CASE ~(p < Len(b.data))
  BY <1>1, <1>3 DEF At
<1> QED BY <1>2, <1>3

\* What is read where a text lies.
LEMMA ReadAt ==
    ASSUME NEW b \in Buffers, NEW p \in Nat, NEW s \in Names, Lies(b.data, p, s)
    PROVE  \A j \in 1 .. Len(s) : At(b, p + j - 1) = s[j]
<1> DEFINE d == b.data
           n == Len(s)
<1>1. d \in Seq(Octet)
  BY DEF Buffers, Names
<1>2. p + n <= Len(d) /\ \A j \in 1 .. n : d[p + j] = s[j]
  BY DEF Lies
<1> SUFFICES ASSUME NEW j \in 1 .. n PROVE At(b, p + j - 1) = s[j]
  OBVIOUS
<1>3. d[p + j] = s[j]
  BY <1>2
<1> DEFINE q == p + j - 1
<1>4. q + 1 = p + j /\ q < Len(d)
  <2>1. Len(d) \in Nat /\ n \in Nat
    BY <1>1 DEF Names
  <2> HIDE DEF d, n
  <2> QED BY <1>2, <2>1
<1> HIDE DEF q
<1>5. At(b, q) = d[q + 1]
  BY <1>4 DEF At
<1> QED BY <1>3, <1>4, <1>5 DEF q

LEMMA ReadOctets ==
    ASSUME NEW b \in Buffers, NEW p \in Nat, NEW s \in Names, Lies(b.data, p, s)
    PROVE  Octets(b, p, Len(s)) = s
<1> DEFINE n == Len(s)
           o == Octets(b, p, n)
<1>1. \A j \in 1 .. n : At(b, p + j - 1) = s[j] /\ s[j] \in Octet
  BY ReadAt DEF Names
<1>2. n \in Nat
  BY DEF Names
<1> HIDE DEF n
<1>3. o = [j \in 1 .. n |-> At(b, p + j - 1)]
  BY DEF Octets
<1>4. o \in [1 .. n -> Octet] /\ \A j \in 1 .. n : o[j] = s[j]
  BY <1>1, <1>3
<1> HIDE DEF o
<1>5. o \in Seq(Octet) /\ Len(o) = n
  BY <1>2, <1>4, FunctionIsSeq
<1> QED BY <1>4, <1>5, SameText DEF n, o, Names

\* A field of 16 bits.
LEMMA HighAndLow == \A n \in Nat : 256 * (n \div 256) + (n % 256) = n
  OBVIOUS

LEMMA FieldType ==
    \A n \in Nat : n \div 256 \in Octet =>
        U16(n) \in Names /\ Len(U16(n)) = 2 /\ U16(n)[1] = n \div 256 /\ U16(n)[2] = n % 256
<1> SUFFICES ASSUME NEW n \in Nat, n \div 256 \in Octet
             PROVE  /\ U16(n) \in Names /\ Len(U16(n)) = 2
                    /\ U16(n)[1] = n \div 256 /\ U16(n)[2] = n % 256
  OBVIOUS
<1> DEFINE x == n \div 256
           y == n % 256
<1>1. x \in Octet /\ y \in Octet
  BY DEF Octet
<1>2. U16(n) = <<x, y>>
  BY DEF U16
<1> HIDE DEF x, y
<1>3. <<x, y>> \in Names /\ Len(<<x, y>>) = 2 /\ <<x, y>>[1] = x /\ <<x, y>>[2] = y
  BY <1>1 DEF Names
<1> QED BY <1>2, <1>3 DEF x, y

LEMMA ReadWord ==
    ASSUME NEW b \in Buffers, NEW p \in Nat, NEW n \in Nat, n \div 256 \in Octet,
           Lies(b.data, p, U16(n))
    PROVE  Word(b, p) = n /\ At(b, p) = n \div 256
<1> DEFINE s == U16(n)
<1>1. s \in Names /\ Len(s) = 2 /\ s[1] = n \div 256 /\ s[2] = n % 256
  BY FieldType
<1> HIDE DEF s
<1>2. \A j \in 1 .. Len(s) : At(b, p + j - 1) = s[j]
  BY <1>1, ReadAt DEF s
<1>3. p + 1 - 1 = p /\ p + 2 - 1 = p + 1 /\ 1 \in 1 .. 2 /\ 2 \in 1 .. 2
  OBVIOUS
<1>4. At(b, p) = n \div 256 /\ At(b, p + 1) = n % 256
  BY <1>1, <1>2, <1>3
<1>5. 256 * (n \div 256) + (n % 256) = n
  BY HighAndLow
<1> QED BY <1>4, <1>5 DEF Word

-----------------------------------------------------------------------------
\* get_domain_name.

LEMMA StrncpyType == \A s \in Names : strncpy(s) \in Names
<1> SUFFICES ASSUME NEW s \in Names PROVE strncpy(s) \in Names
  OBVIOUS
<1> DEFINE k == Len(s) - StrLen(s)
<1>1. CStr(s) \in Names /\ StrLen(s) \in 0 .. Len(s)
  BY StrLenType DEF Names
<1>2. k \in Nat
  BY <1>1 DEF Names
<1> HIDE DEF k
<1>3. Filled(k, NUL) \in [1 .. k -> Octet]
  BY DEF Filled, NUL, Octet
<1>4. Filled(k, NUL) \in Names
  BY <1>2, <1>3, FunctionIsSeq DEF Names
<1>5. CStr(s) \o Filled(k, NUL) \in Names
  BY <1>1, <1>4, NamesJoin, Zenon
<1> QED BY <1>5 DEF strncpy, k

\* The octets it reads for one label, and the recursion over the labels.
LabelText(b, p, num) == strncpy(Octets(b, p, num)) \o <<Dot>>

TextOf(b, start) ==
    CHOOSE text : text = [size \in Nat |->
        LET num == At(b, start + size)
        IN  IF num = NUL \/ size > HOST_NAME_SIZE
            THEN <<>>
            ELSE strncpy(Octets(b, start + size + 1, num)) \o <<Dot>> \o text[size + num + 1]]

LEMMA LabelTextType ==
    \A b \in Buffers, p \in Nat, num \in Octet : LabelText(b, p, num) \in Names
<1> SUFFICES ASSUME NEW b \in Buffers, NEW p \in Nat, NEW num \in Octet
             PROVE  LabelText(b, p, num) \in Names
  OBVIOUS
<1>1. Octets(b, p, num) \in [1 .. num -> Octet]
  <2>1. \A j \in 1 .. num : At(b, p + j - 1) \in Octet
    <3>1. \A j \in 1 .. num : p + j - 1 \in Nat
      OBVIOUS
    <3> QED BY <3>1, AtType
  <2> QED BY <2>1 DEF Octets
<1>2. num \in Nat
  BY DEF Octet
<1>3. Octets(b, p, num) \in Names
  BY <1>1, <1>2, FunctionIsSeq DEF Names
<1>4. strncpy(Octets(b, p, num)) \in Names
  BY <1>3, StrncpyType
<1>5. <<Dot>> \in Names
  BY DEF Names, Dot, Octet
<1> QED BY <1>4, <1>5, NamesJoin, Zenon DEF LabelText

\* The recursion has a solution.
LEMMA TextIs ==
    ASSUME NEW b \in Buffers, NEW start \in Nat
    PROVE  \A size \in Nat :
               TextOf(b, start)[size] =
                   IF At(b, start + size) = NUL \/ size > HOST_NAME_SIZE THEN <<>>
                   ELSE LabelText(b, start + size + 1, At(b, start + size))
                        \o TextOf(b, start)[size + At(b, start + size) + 1]
<1> DEFINE num(size) == At(b, start + size)
           ends(size) == num(size) = NUL \/ size > HOST_NAME_SIZE
           word(size) == LabelText(b, start + size + 1, num(size))
           next(size) == size + num(size) + 1
           F == [f \in [Nat -> Names] |-> [size \in Nat |->
                   IF ends(size) THEN <<>> ELSE word(size) \o f[next(size)]]]
           left == [size \in Nat |-> IF size > HOST_NAME_SIZE THEN 0 ELSE HOST_NAME_SIZE + 1 - size]
<1>1. HOST_NAME_SIZE \in Nat
  BY SizeAssumption
<1>2. \A size \in Nat : /\ num(size) \in Octet /\ word(size) \in Names
                        /\ next(size) \in Nat /\ next(size) > size
  <2> SUFFICES ASSUME NEW size \in Nat
               PROVE  /\ num(size) \in Octet /\ word(size) \in Names
                      /\ next(size) \in Nat /\ next(size) > size
    OBVIOUS
  <2>1. start + size \in Nat /\ start + size + 1 \in Nat
    OBVIOUS
  <2>2. num(size) \in Octet
    BY <2>1, AtType
  <2>3. word(size) \in Names
    BY <2>1, <2>2, LabelTextType
  <2> HIDE DEF num
  <2>4. num(size) \in Nat
    BY <2>2 DEF Octet
  <2> QED BY <2>2, <2>3, <2>4
<1> HIDE DEF num, word, next
<1>3. left \in [Nat -> Nat]
  BY <1>1
<1>4. F \in [[Nat -> Names] -> [Nat -> Names]]
  <2>1. ASSUME NEW f \in [Nat -> Names], NEW size \in Nat
        PROVE  (IF ends(size) THEN <<>> ELSE word(size) \o f[next(size)]) \in Names
    <3>1. f[next(size)] \in Names /\ <<>> \in Names
      BY <1>2 DEF Names
    <3>2. word(size) \o f[next(size)] \in Names
      BY <1>2, <3>1, NamesJoin, Zenon
    <3> QED BY <3>1, <3>2
  <2> HIDE DEF ends
  <2> QED BY <2>1, Zenon
<1>5. LooksBelow(Nat, Names, left, F)
  <2> SUFFICES ASSUME NEW f \in [Nat -> Names], NEW g \in [Nat -> Names], NEW size \in Nat,
                      \A u \in Nat : left[u] < left[size] => f[u] = g[u]
               PROVE  F[f][size] = F[g][size]
    BY Zenon DEF LooksBelow
  <2>1. ~ends(size) => f[next(size)] = g[next(size)]
    <3> SUFFICES ASSUME ~ends(size) PROVE left[next(size)] < left[size]
      BY <1>2
    <3>1. next(size) \in Nat /\ next(size) > size /\ ~(size > HOST_NAME_SIZE)
      BY <1>2
    <3> QED BY <1>1, <3>1
  <2> HIDE DEF ends
  <2>2. F[f][size] = IF ends(size) THEN <<>> ELSE word(size) \o f[next(size)]
    OBVIOUS
  <2>3. F[g][size] = IF ends(size) THEN <<>> ELSE word(size) \o g[next(size)]
    OBVIOUS
  <2> HIDE DEF F
  <2> QED BY <2>1, <2>2, <2>3, Zenon
<1>6. IsSolved(Nat, Names, F)
  <2>1. Names # {}
    BY <1>2
  <2> HIDE DEF left, F
  <2> QED BY <1>3, <1>4, <1>5, <2>1, RecursionBySize, Zenon
<1>7. \E f : f = [size \in Nat |-> IF ends(size) THEN <<>> ELSE word(size) \o f[next(size)]]
  BY <1>6, Zenon DEF IsSolved
<1> DEFINE text == TextOf(b, start)
<1>8. text = [size \in Nat |-> IF ends(size) THEN <<>> ELSE word(size) \o text[next(size)]]
  BY <1>7, Zenon DEF TextOf, ends, word, next, num, LabelText
<1> HIDE DEF text
<1>9. \A size \in Nat : text[size] = IF ends(size) THEN <<>> ELSE word(size) \o text[next(size)]
  <2> HIDE DEF ends
  <2> QED BY <1>8, Zenon
<1> QED BY <1>9, Zenon DEF text, ends, word, next, num

\* Where the labels of a name lie, and a NUL behind them, they are read.
IsNameAt(b, p, t) ==
    /\ NoneIs(t, NUL) /\ LabelsFit(t, 255)
    /\ Lies(b.data, p, Encoded[t]) /\ At(b, p + Len(Encoded[t])) = NUL

ReadsLabels(b, start, t) ==
    \A size \in Nat :
        IsNameAt(b, start + size, t) /\ size + Len(Canonical[t]) <= HOST_NAME_SIZE
            => TextOf(b, start)[size] = Canonical[t]

\* The first label of such a name, and the rest of it.
LEMMA LabelAt ==
    ASSUME NEW b \in Buffers, NEW p \in Nat, NEW t \in Names, Label(t) # <<>>, IsNameAt(b, p, t)
    PROVE  /\ At(b, p) = Len(Label(t)) /\ At(b, p) # NUL
           /\ LabelText(b, p + 1, At(b, p)) = Label(t) \o <<Dot>>
           /\ IsNameAt(b, p + Len(Label(t)) + 1, Rest(t))
           /\ Len(Canonical[t]) = Len(Label(t)) + 1 + Len(Canonical[Rest(t)])
           /\ Len(Label(t)) \in Nat /\ Len(Canonical[Rest(t)]) \in Nat
<1> DEFINE a == Label(t)
           r == Rest(t)
           n == Len(a)
           k == <<n % 256>>
           d == <<Dot>>
           c == Canonical[r]
           e == Encoded[r]
           m == b.data
<1>0. Written(t, a, r, k, d, c, e)
  BY FirstLabel, Zenon
<1>1. /\ a \in Names /\ r \in Names /\ c \in Names /\ e \in Names
      /\ d \in Names /\ k \in Names
      /\ Canonical[t] = a \o (d \o c) /\ Encoded[t] = (k \o a) \o e
  <2> HIDE DEF a, r, k, d, c, e
  <2> QED BY <1>0, Zenon DEF Written
<1>2. /\ NoneIs(t, NUL) /\ LabelsFit(t, 255)
      /\ Lies(m, p, (k \o a) \o e) /\ At(b, p + Len(Encoded[t])) = NUL
  BY <1>1 DEF IsNameAt
<1>3. n \in Nat /\ n # 0 /\ n <= 255 /\ LabelsFit(r, 255)
  <2>1. n <= 255 /\ LabelsFit(r, 255)
    BY <1>2, NameSplits DEF Splits
  <2>2. n \in Nat /\ n # 0
    BY <1>1 DEF Names
  <2> QED BY <2>1, <2>2
<1>4. NoneIs(a, NUL) /\ NoneIs(r, NUL)
  <2>1. Within(a, t) /\ Within(r, t)
    BY NameSplits DEF Splits
  <2> HIDE DEF a, r
  <2>2. NoneIs(t, NUL)
    BY <1>2
  <2>3. \A s : Within(s, t) /\ NoneIs(t, NUL) => NoneIs(s, NUL)
    BY DEF Within, NoneIs
  <2> QED BY <2>1, <2>2, <2>3, Zenon
<1>5. Len(k) = 1 /\ k[1] = n /\ Len(d) = 1
  <2>1. n % 256 = n
    BY <1>3
  <2>2. Len(<<n>>) = 1 /\ <<n>>[1] = n
    OBVIOUS
  <2> QED BY <2>1, <2>2
<1>6. m \in Names
  BY DEF Buffers
<1> HIDE DEF a, r, n, k, d, c, e, m
<1>7. k \o a \in Names /\ Len(k \o a) = Len(k) + Len(a) /\ Len(k) \in Nat /\ Len(e) \in Nat
  BY <1>1, NamesJoin, Zenon
<1>8. Lies(m, p, k \o a) /\ Lies(m, p + Len(k \o a), e)
  BY <1>1, <1>2, <1>6, <1>7, LiesPart, Zenon
<1>9. Lies(m, p, k) /\ Lies(m, p + Len(k), a)
  BY <1>1, <1>6, <1>8, LiesPart, Zenon
<1>10. At(b, p) = n
  <2>1. \A j \in 1 .. Len(k) : At(b, p + j - 1) = k[j]
    BY <1>1, <1>9, ReadAt DEF m
  <2>2. 1 \in 1 .. 1 /\ p + 1 - 1 = p
    OBVIOUS
  <2> QED BY <1>5, <2>1, <2>2
<1>11. LabelText(b, p + 1, n) = a \o d
  <2>1. p + 1 \in Nat
    OBVIOUS
  <2>2. Lies(b.data, p + 1, a)
    BY <1>5, <1>9 DEF m
  <2>3. Octets(b, p + 1, Len(a)) = a
    BY <1>1, <2>1, <2>2, ReadOctets, Zenon
  <2>4. NUL \notin ToSet(a)
    BY <1>1, <1>4, CharOf DEF NoneIs, Names
  <2>5. strncpy(a) = a
    BY <2>4, Zenon DEF strncpy
  <2> QED BY <2>3, <2>5, Zenon DEF LabelText, n, d
<1>12. IsNameAt(b, p + n + 1, r)
  <2>1. p + Len(k \o a) = p + n + 1
    BY <1>3, <1>5, <1>7 DEF n
  <2>2. Lies(b.data, p + n + 1, e)
    BY <1>8, <2>1 DEF m
  <2>3. Len(Encoded[t]) = Len(k \o a) + Len(e)
    <3>1. Len((k \o a) \o e) = Len(k \o a) + Len(e)
      BY <1>1, <1>7, NamesJoin, Zenon
    <3>2. Encoded[t] = (k \o a) \o e
      BY <1>1
    <3> QED BY <3>1, <3>2, Zenon
  <2>4. p + Len(Encoded[t]) = p + n + 1 + Len(e)
    BY <1>3, <1>5, <1>7, <2>3 DEF n
  <2> QED BY <1>2, <1>3, <1>4, <2>2, <2>4 DEF IsNameAt, e
<1>13. Len(Canonical[t]) = n + 1 + Len(c) /\ Len(c) \in Nat
  <2>1. d \o c \in Names /\ Len(d \o c) = Len(d) + Len(c) /\ Len(c) \in Nat
    BY <1>1, NamesJoin, Zenon
  <2>2. Len(a \o (d \o c)) = Len(a) + Len(d \o c)
    BY <1>1, <2>1, NamesJoin, Zenon
  <2>3. Len(Canonical[t]) = Len(a \o (d \o c))
    BY <1>1, Zenon
  <2> QED BY <1>3, <1>5, <2>1, <2>2, <2>3 DEF n
<1> QED BY <1>3, <1>10, <1>11, <1>12, <1>13 DEF a, r, n, d, c, NUL

LEMMA LabelsAreRead ==
    ASSUME NEW b \in Buffers, NEW start \in Nat
    PROVE  \A t \in Names : ReadsLabels(b, start, t)
<1> DEFINE P == {t \in Names : ReadsLabels(b, start, t)}
           text == TextOf(b, start)
<1>1. ASSUME NEW t \in Names, Label(t) # <<>> => Rest(t) \in P
      PROVE  t \in P
  <2> SUFFICES ASSUME NEW size \in Nat, IsNameAt(b, start + size, t),
                      size + Len(Canonical[t]) <= HOST_NAME_SIZE
               PROVE  text[size] = Canonical[t]
    BY Zenon DEF ReadsLabels
  <2> DEFINE p == start + size
  <2>0. p \in Nat /\ IsNameAt(b, p, t)
    OBVIOUS
  <2>1. text[size] = IF At(b, p) = NUL \/ size > HOST_NAME_SIZE THEN <<>>
                     ELSE LabelText(b, p + 1, At(b, p)) \o text[size + At(b, p) + 1]
    BY TextIs
  <2> HIDE DEF text, p
  <2>2. CASE Label(t) = <<>>
    <3>1. Canonical[t] = <<>> /\ Encoded[t] = <<>>
      BY <2>2, NoMoreLabels
    <3>2. At(b, p + 0) = NUL
      BY <2>0, <3>1 DEF IsNameAt
    <3>3. p + 0 = p
      BY <2>0
    <3> QED BY <2>1, <3>1, <3>2, <3>3
  <2>3. CASE Label(t) # <<>>
    <3> DEFINE a == Label(t)
               r == Rest(t)
               n == Len(a)
               c == Canonical[r]
    <3>1. /\ At(b, p) = n /\ At(b, p) # NUL
          /\ LabelText(b, p + 1, At(b, p)) = a \o <<Dot>>
          /\ IsNameAt(b, p + n + 1, r)
          /\ Len(Canonical[t]) = n + 1 + Len(c) /\ n \in Nat /\ Len(c) \in Nat
      BY <2>0, <2>3, LabelAt, Zenon
    <3>2. Canonical[t] = a \o <<Dot>> \o c
      <4>1. Canonical[t] = WithDot[a] \o c /\ a \in Names
        BY <2>3, CanonicalIs, NameSplits DEF Writes, Splits
      <4> QED BY <4>1, LabelTexts
    <3>3. r \in P
      BY <1>1, <2>3
    <3> HIDE DEF a, r, n, c
    <3>4. /\ ~(size > HOST_NAME_SIZE) /\ size + n + 1 \in Nat
          /\ size + n + 1 + Len(c) <= HOST_NAME_SIZE
          /\ p + n + 1 = start + (size + n + 1)
      <4>1. HOST_NAME_SIZE \in Nat
        BY SizeAssumption
      <4> QED BY <3>1, <4>1 DEF p
    <3>5. ReadsLabels(b, start, r)
      BY <3>3
    <3>6. text[size + n + 1] = c
      <4>1. IsNameAt(b, start + (size + n + 1), r)
        BY <3>1, <3>4
      <4> QED BY <3>4, <3>5, <4>1, Zenon DEF ReadsLabels, c, text
    <3> QED BY <2>1, <3>1, <3>2, <3>4, <3>6
  <2> QED BY <2>2, <2>3
<1>2. \A t \in Names : t \in P
  <2> HIDE DEF P
  <2>1. \A t \in Names : (Label(t) # <<>> => Rest(t) \in P) => t \in P
    BY <1>1
  <2> QED BY <2>1, AllNames, Zenon
<1> QED BY <1>2

\* What reading a name needs of it.
Readable(t) ==
    /\ LabelsFit(t, 255) /\ Len(Label(t)) <= 191
    /\ Len(Canonical[t]) < HOST_NAME_SIZE

LEMMA CarriedIsReadable == \A t \in Names : Carried(t) => Readable(t)
  BY DEF Carried, Readable, Label

\* A name that can be carried is read where it was written.
LEMMA NameRead ==
    ASSUME NEW b \in Buffers, NEW p \in Nat, NEW t \in Names, Readable(t), IsNameAt(b, p, t)
    PROVE  /\ DomainText(b, p) = Canonical[t]
           /\ get_domain_name(b, p) = [name |-> Canonical[t], position |-> Len(Canonical[t])]
<1> DEFINE n == Len(Label(t))
<1>1. Readable(t) /\ n <= 191 /\ Len(Canonical[t]) < HOST_NAME_SIZE
  BY DEF Readable
<1>2. ~IsCompressed(b, p)
  <2>1. CASE Label(t) = <<>>
    <3>1. Encoded[t] = <<>>
      BY <2>1, NoMoreLabels
    <3>2. At(b, p + 0) = NUL /\ p + 0 = p
      BY <3>1 DEF IsNameAt
    <3> QED BY <3>2 DEF IsCompressed, NUL
  <2>2. CASE Label(t) # <<>>
    <3>1. At(b, p) = n /\ n \in Nat
      BY <2>2, LabelAt, Zenon
    <3> QED BY <1>1, <3>1 DEF IsCompressed
  <2> QED BY <2>1, <2>2
<1>3. Canonical[t] \in Names
  BY CanonicalIs DEF Writes
<1>4. NameText(b, p) = Canonical[t]
  <2>1. NameText(b, p) = TextOf(b, p)[0]
    BY Zenon DEF NameText, TextOf
  <2>2. ReadsLabels(b, p, t)
    BY LabelsAreRead
  <2>3. Len(Canonical[t]) \in Nat /\ HOST_NAME_SIZE \in Nat
    BY <1>3, SizeAssumption DEF Names
  <2>4. 0 \in Nat /\ p + 0 = p /\ 0 + Len(Canonical[t]) <= HOST_NAME_SIZE
    BY <1>1, <2>3
  <2>5. TextOf(b, p)[0] = Canonical[t]
    BY <2>2, <2>4, Zenon DEF ReadsLabels
  <2> QED BY <2>1, <2>5
<1>5. DomainText(b, p) = Canonical[t]
  BY <1>2, <1>4 DEF DomainText
<1>6. CStr(Canonical[t]) = Canonical[t]
  <2> DEFINE c == Canonical[t]
  <2>1. NoneIs(c, NUL)
    BY NameTexts DEF NulFree, IsNameAt
  <2> HIDE DEF c
  <2>2. c \in Names
    BY <1>3 DEF c
  <2>3. CStr(c) = c
    BY <2>1, <2>2, WholeText
  <2> QED BY <2>3 DEF c
<1>7. MovedOver(b, p) = Len(Canonical[t])
  BY <1>2, <1>5 DEF MovedOver
<1> QED BY <1>5, <1>6, <1>7 DEF get_domain_name

-----------------------------------------------------------------------------
\* The messages.

LEMMA LiesWithin ==
    ASSUME NEW m \in Names, NEW s \in Names, NEW r \in Names, NEW p \in Nat, NEW q \in Nat,
           Lies(m, p, s), Lies(s, q, r)
    PROVE  Lies(m, p + q, r)
<1> DEFINE k == Len(s)
           l == Len(r)
           n == Len(m)
<1>1. k \in Nat /\ l \in Nat /\ n \in Nat
  BY DEF Names
<1>2. p + k <= n /\ q + l <= k /\ (\A j \in 1 .. k : m[p + j] = s[j]) /\ \A j \in 1 .. l : s[q + j] = r[j]
  BY DEF Lies
<1> HIDE DEF k, l, n
<1>3. p + q + l <= n
  BY <1>1, <1>2
<1>4. ASSUME NEW j \in 1 .. l
      PROVE  m[p + q + j] = r[j]
  <2> DEFINE i == q + j
  <2>1. i \in 1 .. k /\ p + q + j = p + i
    BY <1>1, <1>2
  <2>2. s[i] = r[j]
    BY <1>2
  <2> HIDE DEF i
  <2>3. m[p + i] = s[i]
    BY <1>2, <2>1
  <2> QED BY <2>1, <2>2, <2>3
<1> QED BY <1>3, <1>4 DEF Lies, l, n

\* A record of five fields of two octets, and one more.
AreFields(s, p1, p3, p4, p5, p6) ==
    /\ s \in Names /\ Len(s) = 10 + Len(p6)
    /\ Lies(s, 0, p1) /\ Lies(s, 4, p3) /\ Lies(s, 6, p4) /\ Lies(s, 8, p5) /\ Lies(s, 10, p6)

LEMMA SixFields ==
    ASSUME NEW p1 \in Names, NEW p2 \in Names, NEW p3 \in Names,
           NEW p4 \in Names, NEW p5 \in Names, NEW p6 \in Names,
           Len(p1) = 2, Len(p2) = 2, Len(p3) = 2, Len(p4) = 2, Len(p5) = 2
    PROVE  AreFields(p1 \o p2 \o p3 \o p4 \o p5 \o p6, p1, p3, p4, p5, p6)
<1> DEFINE s2 == p1 \o p2
           s3 == s2 \o p3
           s4 == s3 \o p4
           s5 == s4 \o p5
           s6 == s5 \o p6
<1>2. s2 \in Names /\ Len(s2) = Len(p1) + Len(p2)
  BY NamesJoin, Zenon
<1> HIDE DEF s2
<1>3. s3 \in Names /\ Len(s3) = Len(s2) + Len(p3)
  BY <1>2, NamesJoin, Zenon
<1> HIDE DEF s3
<1>4. s4 \in Names /\ Len(s4) = Len(s3) + Len(p4)
  BY <1>3, NamesJoin, Zenon
<1> HIDE DEF s4
<1>5. s5 \in Names /\ Len(s5) = Len(s4) + Len(p5)
  BY <1>4, NamesJoin, Zenon
<1> HIDE DEF s5
<1>6. s6 \in Names /\ Len(s6) = Len(s5) + Len(p6) /\ Len(p6) \in Nat
  BY <1>5, NamesJoin, Zenon
<1> HIDE DEF s6
<1>7. Len(s3) = 6 /\ Len(s4) = 8 /\ Len(s5) = 10 /\ Len(s6) = 10 + Len(p6)
  <2>1. Len(s3) = 2 + 2 + 2
    BY <1>2, <1>3
  <2>2. Len(s4) = 8
    BY <1>4, <2>1
  <2>3. Len(s5) = 10
    BY <1>5, <2>2
  <2> QED BY <1>6, <2>1, <2>2, <2>3
<1>8. 0 \in Nat
  OBVIOUS
<1>9. Lies(s6, 0, s5) /\ Lies(s6, 0 + Len(s5), p6)
  <2>1. Lies(s6, 0, s5 \o p6)
    BY <1>6, LiesWhole DEF s6
  <2> QED BY <1>5, <1>6, <1>8, <2>1, LiesPart, Zenon
<1>10. Lies(s6, 0, s4) /\ Lies(s6, 0 + Len(s4), p5)
  <2>1. Lies(s6, 0, s4 \o p5)
    BY <1>9 DEF s5
  <2> QED BY <1>4, <1>6, <1>8, <2>1, LiesPart, Zenon
<1>11. Lies(s6, 0, s3) /\ Lies(s6, 0 + Len(s3), p4)
  <2>1. Lies(s6, 0, s3 \o p4)
    BY <1>10 DEF s4
  <2> QED BY <1>3, <1>6, <1>8, <2>1, LiesPart, Zenon
<1>12. Lies(s6, 0, s2) /\ Lies(s6, 0 + Len(s2), p3)
  <2>1. Lies(s6, 0, s2 \o p3)
    BY <1>11 DEF s3
  <2> QED BY <1>2, <1>6, <1>8, <2>1, LiesPart, Zenon
<1>13. Lies(s6, 0, p1)
  <2>1. Lies(s6, 0, p1 \o p2)
    BY <1>12 DEF s2
  <2> QED BY <1>6, <1>8, <2>1, LiesPart, Zenon
<1>14. Lies(s6, 4, p3) /\ Lies(s6, 6, p4) /\ Lies(s6, 8, p5) /\ Lies(s6, 10, p6)
  <2>1. 0 + Len(s2) = 4 /\ 0 + Len(s3) = 6 /\ 0 + Len(s4) = 8 /\ 0 + Len(s5) = 10
    BY <1>2, <1>7
  <2> QED BY <1>9, <1>10, <1>11, <1>12, <2>1
<1>15. AreFields(s6, p1, p3, p4, p5, p6)
  BY <1>6, <1>7, <1>13, <1>14 DEF AreFields
<1> QED BY <1>15 DEF s2, s3, s4, s5, s6

\* The two octets of the flags a buffer may have.
FlagPairs == Octet \X Octet

LEMMA TwoOctets ==
    \A x, y \in Octet : /\ <<x, y>> \in Names /\ Len(<<x, y>>) = 2
                        /\ <<x, y>>[1] = x /\ <<x, y>>[2] = y
  BY DEF Names

LEMMA SmallFields ==
    \A n \in Octet : /\ n \in Nat /\ n \div 256 = 0 /\ n \div 256 \in Octet /\ n % 256 = n
                     /\ U16(n) \in Names /\ Len(U16(n)) = 2
<1>1. \A n \in Octet : n \in Nat /\ n \div 256 = 0 /\ n % 256 = n
  BY DEF Octet
<1>2. 0 \in Octet
  BY DEF Octet
<1> QED BY <1>1, <1>2, FieldType

\* Its identifier and the number of its answers.
LEMMA HeaderIs ==
    ASSUME NEW flags \in FlagPairs, NEW id \in Octet, NEW query \in Nat, NEW an \in Octet
    PROVE  /\ dns_header(flags, id, query, 1, an, 0, 0) \in Names
           /\ Len(dns_header(flags, id, query, 1, an, 0, 0)) = 12
           /\ Lies(dns_header(flags, id, query, 1, an, 0, 0), 0, <<id, 0>>)
           /\ Lies(dns_header(flags, id, query, 1, an, 0, 0), 6, U16(an))
<1> DEFINE x == (flags[1] % 128) + 128 * (htons(query) % 2)
           p1 == <<id % 256, id \div 256>>
           p2 == <<x, flags[2]>>
           h == dns_header(flags, id, query, 1, an, 0, 0)
<1>1. x \in Octet /\ flags[2] \in Octet
  <2>1. flags[1] \in Octet /\ flags[2] \in Octet
    BY DEF FlagPairs
  <2>2. \A n \in Octet : n % 128 \in 0 .. 127
    BY DEF Octet
  <2>3. htons(query) \in Nat
    BY DEF htons
  <2>4. \A n \in Nat : n % 2 \in 0 .. 1
    OBVIOUS
  <2>5. \A n \in 0 .. 127, m \in 0 .. 1 : n + 128 * m \in Octet
    BY DEF Octet
  <2> QED BY <2>1, <2>2, <2>3, <2>4, <2>5
<1> HIDE DEF x
<1>2. p1 = <<id, 0>> /\ p1 \in Names /\ Len(p1) = 2
  BY SmallFields, TwoOctets
<1>3. p2 \in Names /\ Len(p2) = 2
  BY <1>1, TwoOctets
<1>4. 0 \in Octet /\ 1 \in Octet
  BY DEF Octet
<1> DEFINE u0 == U16(0)
           u1 == U16(1)
           un == U16(an)
<1>5. u0 \in Names /\ Len(u0) = 2 /\ u1 \in Names /\ Len(u1) = 2 /\ un \in Names /\ Len(un) = 2
  BY <1>4, SmallFields
<1>6. h = p1 \o p2 \o u1 \o un \o u0 \o u0
  BY Zenon DEF dns_header, x
<1> HIDE DEF p1, p2, u0, u1, un, h
<1>7. AreFields(h, p1, u1, un, u0, u0)
  BY <1>2, <1>3, <1>5, <1>6, SixFields, Zenon
<1>8. h \in Names /\ Len(h) = 12 /\ Lies(h, 0, p1) /\ Lies(h, 6, un)
  BY <1>5, <1>7 DEF AreFields
<1> QED BY <1>2, <1>8 DEF h, un

\* A message that asks for a name, up to the end of the question.
Asks(h, n, z, q) == h \o n \o z \o q

\* What a reader finds there.
IsQuestion(b, id, an, t) ==
    /\ At(b, 0) = id /\ At(b, 1) = 0 /\ an_count(b) = an
    /\ IsNameAt(b, 12, t)
    /\ Word(b, 13 + Len(Encoded[t])) = TYPE_A /\ Word(b, 15 + Len(Encoded[t])) = CLASS_IN

\* The section for a name that can be carried.
CanBeSent(t) == Readable(t) /\ NoneIs(t, NUL)

LEMMA SectionIs ==
    ASSUME NEW t \in Names, CanBeSent(t)
    PROVE  /\ NameSection(t) = Encoded[t] /\ NameSection(Canonical[t]) = Encoded[t]
           /\ Encoded[t] \in Names /\ Len(Encoded[t]) \in Nat
           /\ Len(Encoded[t]) = Len(Canonical[t])
<1> DEFINE e == Encoded[t]
<1>1. e \in Names
  BY EncodedIs DEF Writes
<1>2. NoneIs(e, NUL) /\ Len(e) = Len(Canonical[t])
  BY NameTexts DEF CanBeSent, Readable, NulFree, SameLength
<1>3. CStr(e \o <<NUL>>) = e
  <2> HIDE DEF e
  <2> QED BY <1>1, <1>2, WholeText
<1>4. Encoded[Canonical[t]] = e
  BY CanonicalEncoded
<1>5. Len(e) \in Nat
  BY <1>1 DEF Names
<1> QED BY <1>1, <1>2, <1>3, <1>4, <1>5 DEF NameSection, get_dns_name

LEMMA QuestionIs == Question \in Names /\ Len(Question) = 4
                    /\ Question = U16(TYPE_A) \o U16(CLASS_IN)
                    /\ U16(TYPE_A) \in Names /\ Len(U16(TYPE_A)) = 2 /\ U16(CLASS_IN) \in Names
<1>1. TYPE_A \in Octet /\ CLASS_IN \in Octet
  BY DEF TYPE_A, CLASS_IN, Octet
<1>2. U16(TYPE_A) \in Names /\ Len(U16(TYPE_A)) = 2 /\ U16(CLASS_IN) \in Names /\ Len(U16(CLASS_IN)) = 2
  BY <1>1, SmallFields
<1>3. U16(TYPE_A) \o U16(CLASS_IN) \in Names /\ Len(U16(TYPE_A) \o U16(CLASS_IN)) = 4
  <2> DEFINE x == U16(TYPE_A)
             y == U16(CLASS_IN)
  <2>1. x \in Names /\ y \in Names /\ Len(x) = 2 /\ Len(y) = 2
    BY <1>2
  <2> HIDE DEF x, y
  <2>2. x \o y \in Names /\ Len(x \o y) = Len(x) + Len(y)
    BY <2>1, NamesJoin, Zenon
  <2>3. Len(x \o y) = 4
    BY <2>1, <2>2
  <2> QED BY <2>2, <2>3 DEF x, y
<1> QED BY <1>2, <1>3 DEF Question

QuestionSize(q, t) == q \in Names /\ Len(q) = 17 + Len(Encoded[t])

\* The question is read from a buffer that starts with it.
LEMMA QuestionRead ==
    ASSUME NEW b \in Buffers, NEW t \in Names, CanBeSent(t), NEW id \in Octet, NEW an \in Octet,
           NEW h \in Names, Len(h) = 12, Lies(h, 0, <<id, 0>>), Lies(h, 6, U16(an)),
           Lies(b.data, 0, Asks(h, NameSection(t), <<NUL>>, Question))
    PROVE  /\ IsQuestion(b, id, an, t)
           /\ QuestionSize(Asks(h, NameSection(t), <<NUL>>, Question), t)
<1> DEFINE m == b.data
           n == NameSection(t)
           z == <<NUL>>
           q == Question
           k == Len(n)
           hn == h \o n
           hnz == hn \o z
           all == hnz \o q
<1>0. m \in Names
  BY DEF Buffers
<1>1. n \in Names /\ n = Encoded[t] /\ k \in Nat
  BY SectionIs
<1>2. z \in Names /\ Len(z) = 1 /\ z[1] = NUL
  BY DEF Names, NUL, Octet
<1>3. q \in Names /\ Len(q) = 4
  BY QuestionIs
<1> HIDE DEF z, q, n, k
<1>4. hn \in Names /\ Len(hn) = 12 + k
  <2>1. hn \in Names /\ Len(hn) = Len(h) + Len(n)
    BY <1>1, NamesJoin, Zenon
  <2> QED BY <2>1 DEF k
<1> HIDE DEF hn
<1>5. hnz \in Names /\ Len(hnz) = 13 + k
  <2>1. hnz \in Names /\ Len(hnz) = Len(hn) + Len(z)
    BY <1>2, <1>4, NamesJoin, Zenon
  <2> QED BY <1>1, <1>2, <1>4, <2>1
<1> HIDE DEF hnz
<1>6. all \in Names /\ Len(all) = 17 + k
  <2>1. all \in Names /\ Len(all) = Len(hnz) + Len(q)
    BY <1>3, <1>5, NamesJoin, Zenon
  <2> QED BY <1>1, <1>3, <1>5, <2>1
<1>7. all = Asks(h, n, z, q)
  BY DEF Asks, hnz, hn
<1> HIDE DEF all, m
<1>8. Lies(m, 0, all) /\ 0 \in Nat
  BY <1>7 DEF m, n, z, q
<1>9. Lies(m, 0, hnz) /\ Lies(m, 13 + k, q)
  <2>1. Lies(m, 0, hnz) /\ Lies(m, 0 + Len(hnz), q)
    BY <1>0, <1>3, <1>5, <1>8, LiesPart, Zenon DEF all
  <2>2. 0 + Len(hnz) = 13 + k
    BY <1>1, <1>5
  <2> QED BY <2>1, <2>2
<1>10. Lies(m, 0, hn) /\ Lies(m, 12 + k, z)
  <2>1. Lies(m, 0, hn) /\ Lies(m, 0 + Len(hn), z)
    BY <1>0, <1>2, <1>4, <1>8, <1>9, LiesPart, Zenon DEF hnz
  <2>2. 0 + Len(hn) = 12 + k
    BY <1>1, <1>4
  <2> QED BY <2>1, <2>2
<1>11. Lies(m, 0, h) /\ Lies(m, 12, n)
  <2>1. Lies(m, 0, h) /\ Lies(m, 0 + Len(h), n)
    BY <1>0, <1>1, <1>8, <1>10, LiesPart, Zenon DEF hn
  <2>2. 0 + Len(h) = 12
    OBVIOUS
  <2> QED BY <2>1, <2>2
<1>12. IsNameAt(b, 12, t)
  <2> DEFINE p == 12 + k
  <2>1. p \in Nat /\ p + 1 - 1 = p /\ 1 \in 1 .. 1
    BY <1>1
  <2> HIDE DEF p
  <2>2. \A j \in 1 .. Len(z) : At(b, p + j - 1) = z[j]
    BY <1>2, <1>10, <2>1, ReadAt DEF p, m
  <2>3. At(b, p) = NUL
    BY <1>2, <2>1, <2>2
  <2> QED BY <1>1, <1>11, <2>3 DEF IsNameAt, CanBeSent, Readable, p, k, m
<1>13. At(b, 0) = id /\ At(b, 1) = 0
  <2> DEFINE s == <<id, 0>>
  <2>1. s \in Names /\ Len(s) = 2 /\ s[1] = id /\ s[2] = 0
    <3>1. 0 \in Octet
      BY DEF Octet
    <3> QED BY <3>1, TwoOctets, Zenon
  <2> HIDE DEF s
  <2>2. Lies(m, 0 + 0, s)
    BY <1>0, <1>8, <1>11, <2>1, LiesWithin, Zenon DEF s
  <2>3. Lies(m, 0, s)
    BY <2>2
  <2>4. \A j \in 1 .. Len(s) : At(b, 0 + j - 1) = s[j]
    BY <1>8, <2>1, <2>3, ReadAt DEF m
  <2>5. 0 + 1 - 1 = 0 /\ 0 + 2 - 1 = 1 /\ 1 \in 1 .. 2 /\ 2 \in 1 .. 2
    OBVIOUS
  <2> QED BY <2>1, <2>4, <2>5
<1>14. an_count(b) = an
  <2> DEFINE u == U16(an)
  <2>1. u \in Names /\ an \in Nat /\ an \div 256 \in Octet
    BY SmallFields
  <2>2. Lies(m, 0 + 6, u)
    <3>1. 6 \in Nat
      OBVIOUS
    <3> HIDE DEF u
    <3> QED BY <1>0, <1>8, <1>11, <2>1, <3>1, LiesWithin, Zenon DEF u
  <2>3. Lies(b.data, 6, U16(an)) /\ 6 \in Nat
    BY <2>2 DEF m
  <2> HIDE DEF u
  <2>4. Word(b, 6) = an
    BY <2>1, <2>3, ReadWord, Zenon
  <2> QED BY <2>4 DEF an_count
<1>15. Word(b, 13 + k) = TYPE_A /\ Word(b, 15 + k) = CLASS_IN
  <2> DEFINE p == 13 + k
             w == 15 + k
  <2>1. p \in Nat /\ w \in Nat /\ p + 2 = w
    BY <1>1
  <2> HIDE DEF p, w
  <2>2. /\ q = U16(TYPE_A) \o U16(CLASS_IN) /\ U16(TYPE_A) \in Names
        /\ Len(U16(TYPE_A)) = 2 /\ U16(CLASS_IN) \in Names
    BY QuestionIs DEF q
  <2>3. Lies(m, p, U16(TYPE_A)) /\ Lies(m, p + Len(U16(TYPE_A)), U16(CLASS_IN))
    BY <1>0, <1>9, <2>1, <2>2, LiesPart, Zenon DEF p
  <2>4. Lies(b.data, p, U16(TYPE_A)) /\ Lies(b.data, w, U16(CLASS_IN))
    BY <2>1, <2>2, <2>3 DEF m
  <2>5. Word(b, p) = TYPE_A
    <3>1. p \in Nat /\ TYPE_A \in Nat /\ TYPE_A \div 256 \in Octet
      BY <2>1 DEF TYPE_A, Octet
    <3>2. Lies(b.data, p, U16(TYPE_A))
      BY <2>4
    <3> QED BY <3>1, <3>2, ReadWord, Zenon
  <2>6. Word(b, w) = CLASS_IN
    <3>1. w \in Nat /\ CLASS_IN \in Nat /\ CLASS_IN \div 256 \in Octet
      BY <2>1 DEF CLASS_IN, Octet
    <3>2. Lies(b.data, w, U16(CLASS_IN))
      BY <2>4
    <3> QED BY <3>1, <3>2, ReadWord, Zenon
  <2> QED BY <2>5, <2>6, Zenon DEF p, w
<1>16. IsQuestion(b, id, an, t)
  BY <1>1, <1>12, <1>13, <1>14, <1>15 DEF IsQuestion, k
<1> QED BY <1>1, <1>6, <1>7, <1>16 DEF QuestionSize, n, z, q, k

-----------------------------------------------------------------------------
\* parse_dns_query.

Domain(b) == get_domain_name(b, 12)
Start(b) == [reader |-> QuestionAt(b) + 4, answers |-> <<>>]

LEMMA ParseIs ==
    ASSUME NEW b
    PROVE  parse_dns_query(b) =
               [id |-> At(b, 0) + 256 * At(b, 1), qname |-> Domain(b).name,
                qtype |-> Word(b, QuestionAt(b)), qclass |-> Word(b, QuestionAt(b) + 2),
                answers |-> ParsedAnswers(b)[an_count(b)].answers]
  BY Zenon DEF parse_dns_query, Domain

\* The loop over the answers, for none and for one.
LEMMA AnswersAre ==
    ASSUME NEW b
    PROVE  /\ an_count(b) = 0 => ParsedAnswers(b)[an_count(b)] = Start(b)
           /\ an_count(b) = 1 => /\ ParsedAnswers(b)[0] = Start(b)
                                /\ ParsedAnswers(b)[an_count(b)] = ParseAnswer(b, Start(b))
<1> DEFINE x == Start(b)
           n == an_count(b)
           parsed == ParsedAnswers(b)
<1>1. n \in {0, 1} => \E f : f = [i \in 0 .. n |-> IF i = 0 THEN x ELSE ParseAnswer(b, f[i - 1])]
  <2> SUFFICES ASSUME n \in {0, 1}
               PROVE  \E f : f = [i \in 0 .. n |-> IF i = 0 THEN x ELSE ParseAnswer(b, f[i - 1])]
    OBVIOUS
  <2> HIDE DEF x, n
  <2> DEFINE f == [i \in 0 .. n |-> IF i = 0 THEN x ELSE ParseAnswer(b, x)]
             g == [i \in 0 .. n |-> IF i = 0 THEN x ELSE ParseAnswer(b, f[i - 1])]
  <2>1. \A i \in 0 .. n : i = 0 \/ f[i - 1] = x
    OBVIOUS
  <2>2. f = g
    <3> HIDE DEF f
    <3>1. \A i \in 0 .. n : (IF i = 0 THEN x ELSE ParseAnswer(b, x))
                           = (IF i = 0 THEN x ELSE ParseAnswer(b, f[i - 1]))
      BY <2>1, Zenon
    <3> QED BY <3>1, Zenon DEF f
  <2> QED BY <2>2, Zenon
<1>2. n \in {0, 1} => parsed = [i \in 0 .. n |-> IF i = 0 THEN x ELSE ParseAnswer(b, parsed[i - 1])]
  BY <1>1, Zenon DEF ParsedAnswers, Start
<1> HIDE DEF x, n, parsed
<1>3. n = 0 => parsed[0] = x
  BY <1>2
<1>4. n = 1 => parsed[0] = x /\ parsed[1] = ParseAnswer(b, x)
  <2> SUFFICES ASSUME n = 1 PROVE parsed[0] = x /\ parsed[1] = ParseAnswer(b, x)
    OBVIOUS
  <2>1. \A i \in 0 .. n : parsed[i] = IF i = 0 THEN x ELSE ParseAnswer(b, parsed[i - 1])
    BY <1>2
  <2>2. 0 \in 0 .. n /\ 1 \in 0 .. n /\ 1 # 0 /\ 1 - 1 = 0
    OBVIOUS
  <2>3. parsed[0] = x /\ parsed[1] = ParseAnswer(b, parsed[1 - 1])
    BY <2>1, <2>2
  <2> QED BY <2>2, <2>3
<1> QED BY <1>3, <1>4 DEF x, n, parsed

\* What parse_dns_query finds there.
QuestionIsParsed(b, id, an, t) ==
    /\ an = 0 \/ ~OverrunsName(b, 17 + Len(Encoded[t])) => ~Overruns(b)
    /\ parse_dns_query(b).id = id /\ parse_dns_query(b).qname = Canonical[t]
    /\ parse_dns_query(b).qtype = TYPE_A /\ parse_dns_query(b).qclass = CLASS_IN
    /\ an = 0 => parse_dns_query(b).answers = <<>>
    /\ an = 1 => parse_dns_query(b).answers =
                     ParseAnswer(b, [reader |-> 17 + Len(Encoded[t]), answers |-> <<>>]).answers

LEMMA QuestionParsed ==
    ASSUME NEW b \in Buffers, NEW t \in Names, CanBeSent(t), NEW id \in Octet, NEW an \in {0, 1},
           IsQuestion(b, id, an, t)
    PROVE  QuestionIsParsed(b, id, an, t)
<1> DEFINE n == Len(Encoded[t])
           c == Canonical[t]
<1>1. n \in Nat /\ Len(c) = n
  BY SectionIs
<1>2. /\ At(b, 0) = id /\ At(b, 1) = 0 /\ an_count(b) = an /\ IsNameAt(b, 12, t)
      /\ Word(b, 13 + n) = TYPE_A /\ Word(b, 15 + n) = CLASS_IN
  BY DEF IsQuestion
<1>3. Readable(t) /\ Len(c) < HOST_NAME_SIZE
  BY DEF CanBeSent, Readable
<1>4. DomainText(b, 12) = c /\ Domain(b) = [name |-> c, position |-> Len(c)]
  <2>1. 12 \in Nat
    OBVIOUS
  <2> QED BY <1>2, <1>3, <2>1, NameRead, Zenon DEF Domain
<1> HIDE DEF n, c
<1>5. QuestionAt(b) = 13 + n /\ QuestionAt(b) + 2 = 15 + n /\ QuestionAt(b) + 4 = 17 + n
  <2>1. QuestionAt(b) = 12 + n + 1
    BY <1>1, <1>4 DEF QuestionAt, Domain
  <2> QED BY <1>1, <2>1
<1>6. an = 0 \/ ~OverrunsName(b, 17 + n) => ~Overruns(b)
  <2>1. an_count(b) <= MAX_ANSWERS
    BY <1>2 DEF MAX_ANSWERS
  <2>2. ~OverrunsName(b, 12)
    <3>1. Len(DomainText(b, 12)) < HOST_NAME_SIZE
      BY <1>3, <1>4
    <3>2. HOST_NAME_SIZE \in Nat /\ Len(DomainText(b, 12)) \in Nat
      BY <1>1, <1>4, SizeAssumption
    <3> QED BY <3>1, <3>2 DEF OverrunsName
  <2>3. ASSUME NEW i \in 1 .. an_count(b), ~OverrunsName(b, 17 + n)
        PROVE  ~OverrunsName(b, ParsedAnswers(b)[i - 1].reader)
    <3>1. an_count(b) = 1 /\ i - 1 = 0
      BY <1>2
    <3>2. ParsedAnswers(b)[0] = Start(b)
      BY <3>1, AnswersAre, Zenon
    <3>3. Start(b).reader = 17 + n
      BY <1>5 DEF Start
    <3>4. ParsedAnswers(b)[i - 1].reader = 17 + n
      BY <3>1, <3>2, <3>3
    <3> QED BY <2>3, <3>4
  <2>4. an = 0 => 1 .. an_count(b) = {}
    BY <1>2
  <2> QED BY <2>1, <2>2, <2>3, <2>4 DEF Overruns, StaysInArrays
<1>7. At(b, 0) + 256 * At(b, 1) = id
  BY <1>2 DEF Octet
<1>8. Start(b) = [reader |-> 17 + n, answers |-> <<>>]
  BY <1>5, Zenon DEF Start
<1>9. parse_dns_query(b) =
               [id |-> id, qname |-> c, qtype |-> TYPE_A, qclass |-> CLASS_IN,
                answers |-> ParsedAnswers(b)[an_count(b)].answers]
  BY <1>2, <1>4, <1>5, <1>7, ParseIs
<1>10. /\ an = 0 => ParsedAnswers(b)[an_count(b)].answers = <<>>
       /\ an = 1 => ParsedAnswers(b)[an_count(b)].answers = ParseAnswer(b, Start(b)).answers
  BY <1>2, <1>8, AnswersAre
<1> QED BY <1>6, <1>8, <1>9, <1>10 DEF QuestionIsParsed, n, c

\* The record of the answer.
ResourceIs(r) ==
    /\ r \in Names /\ Lies(r, 0, U16(TYPE_A)) /\ Lies(r, 8, U16(4)) /\ Lies(r, 10, IP)

LEMMA ResourceType == ResourceIs(Resource)
<1> DEFINE p1 == U16(TYPE_A)
           p2 == U16(CLASS_IN)
           p3 == <<0, 0>>
           p4 == U16(TTL)
           p5 == U16(4)
<1>1. TYPE_A \in Octet /\ CLASS_IN \in Octet /\ TTL \in Octet /\ 4 \in Octet /\ 0 \in Octet
  BY DEF TYPE_A, CLASS_IN, TTL, Octet
<1>2. /\ p1 \in Names /\ p2 \in Names /\ p3 \in Names /\ p4 \in Names /\ p5 \in Names
      /\ Len(p1) = 2 /\ Len(p2) = 2 /\ Len(p3) = 2 /\ Len(p4) = 2 /\ Len(p5) = 2
  <2>1. p1 \in Names /\ Len(p1) = 2
    BY <1>1, SmallFields, Zenon
  <2>2. p2 \in Names /\ Len(p2) = 2
    BY <1>1, SmallFields, Zenon
  <2>3. p3 \in Names /\ Len(p3) = 2
    BY <1>1, TwoOctets, Zenon
  <2>4. p4 \in Names /\ Len(p4) = 2
    BY <1>1, SmallFields, Zenon
  <2>5. p5 \in Names /\ Len(p5) = 2
    BY <1>1, SmallFields, Zenon
  <2> HIDE DEF p1, p2, p3, p4, p5
  <2> QED BY <2>1, <2>2, <2>3, <2>4, <2>5
<1>3. IP \in Names
  BY DEF IP, Names, Octet
<1>4. Resource = p1 \o p2 \o p3 \o p4 \o p5 \o IP
  BY Zenon DEF Resource
<1> HIDE DEF p1, p2, p3, p4, p5
<1>5. AreFields(Resource, p1, p3, p4, p5, IP)
  BY <1>2, <1>3, <1>4, SixFields, Zenon
<1> QED BY <1>5 DEF ResourceIs, AreFields, p1, p5

Found4(c) == <<[name |-> c, type |-> TYPE_A, rdata |-> IP]>>

\* The answer is read from a buffer that holds it, behind a name without a NUL.
LEMMA AnswerRead ==
    ASSUME NEW b \in Buffers, NEW p \in Nat, NEW t \in Names, CanBeSent(t),
           Lies(b.data, p, Encoded[t]), Lies(b.data, p + Len(Encoded[t]), Resource)
    PROVE  /\ ParseAnswer(b, [reader |-> p, answers |-> <<>>]).answers = Found4(Canonical[t])
           /\ ~OverrunsName(b, p)
<1> DEFINE m == b.data
           n == Len(Encoded[t])
           x == p + n
           c == Canonical[t]
           start == [reader |-> p, answers |-> <<>>]
<1>0. m \in Names
  BY DEF Buffers
<1>1. n \in Nat /\ x \in Nat /\ Len(c) = n
  BY SectionIs
<1>2. ResourceIs(Resource)
  BY ResourceType
<1> DEFINE r == Resource
<1> HIDE DEF r, m, n, x, c
<1>3. r \in Names /\ Lies(r, 0, U16(TYPE_A)) /\ Lies(r, 8, U16(4)) /\ Lies(r, 10, IP)
  BY <1>2 DEF ResourceIs, r
<1>4. Lies(m, x, r)
  BY DEF m, x, n, r
<1>5. /\ U16(TYPE_A) \in Names /\ TYPE_A \in Nat /\ TYPE_A \div 256 = 0 /\ TYPE_A \div 256 \in Octet
      /\ U16(4) \in Names /\ 4 \div 256 \in Octet
  <2>1. TYPE_A \in Octet
    BY DEF TYPE_A, Octet
  <2>2. U16(TYPE_A) \in Names /\ TYPE_A \in Nat /\ TYPE_A \div 256 = 0 /\ TYPE_A \div 256 \in Octet
    BY <2>1, SmallFields
  <2>3. 4 \in Octet
    BY DEF Octet
  <2>4. U16(4) \in Names /\ 4 \div 256 \in Octet
    BY <2>3, SmallFields
  <2> QED BY <2>2, <2>4
<1>6. IP \in Names /\ Len(IP) = 4
  BY DEF IP, Names, Octet
<1>7. 0 \in Nat /\ 8 \in Nat /\ 10 \in Nat /\ 4 \in Nat /\ x + 0 = x /\ x + 8 \in Nat /\ x + 10 \in Nat
  BY <1>1
<1>8. Lies(m, x + 0, U16(TYPE_A)) /\ Lies(m, x + 8, U16(4)) /\ Lies(m, x + 10, IP)
  <2>1. U16(TYPE_A) \in Names /\ 0 \in Nat
    BY <1>5
  <2>2. Lies(m, x + 0, U16(TYPE_A))
    BY <1>0, <1>1, <1>3, <1>4, <2>1, LiesWithin, Zenon
  <2>3. U16(4) \in Names /\ 8 \in Nat
    BY <1>5
  <2>4. Lies(m, x + 8, U16(4))
    BY <1>0, <1>1, <1>3, <1>4, <2>3, LiesWithin, Zenon
  <2>5. IP \in Names /\ 10 \in Nat
    BY <1>6
  <2>6. Lies(m, x + 10, IP)
    BY <1>0, <1>1, <1>3, <1>4, <2>5, LiesWithin, Zenon
  <2> QED BY <2>2, <2>4, <2>6
<1>9. Word(b, x) = TYPE_A /\ At(b, x) = 0
  <2>1. Lies(b.data, x, U16(TYPE_A))
    BY <1>7, <1>8 DEF m
  <2>2. Word(b, x) = TYPE_A /\ At(b, x) = TYPE_A \div 256
    BY <1>1, <1>5, <2>1, ReadWord, Zenon
  <2> QED BY <1>5, <2>2
<1>10. Word(b, x + 8) = 4
  <2>1. Lies(b.data, x + 8, U16(4))
    BY <1>8 DEF m
  <2> QED BY <1>5, <1>7, <2>1, ReadWord, Zenon
<1>11. Octets(b, x + 10, 4) = IP
  <2>1. Lies(b.data, x + 10, IP)
    BY <1>8 DEF m
  <2>2. Octets(b, x + 10, Len(IP)) = IP
    BY <1>6, <1>7, <2>1, ReadOctets, Zenon
  <2> QED BY <1>6, <2>2
<1>12. get_domain_name(b, p) = [name |-> c, position |-> n] /\ ~OverrunsName(b, p)
  <2>1. Readable(t)
    BY DEF CanBeSent
  <2>2. IsNameAt(b, p, t)
    BY <1>9 DEF IsNameAt, CanBeSent, Readable, x, n, NUL
  <2>3. DomainText(b, p) = c /\ get_domain_name(b, p) = [name |-> c, position |-> Len(c)]
    BY <2>1, <2>2, NameRead, Zenon DEF c
  <2>4. Len(c) \in Nat /\ HOST_NAME_SIZE \in Nat /\ Len(c) < HOST_NAME_SIZE
    BY <1>1, <2>1, SizeAssumption DEF Readable, c
  <2>5. ~OverrunsName(b, p)
    BY <2>3, <2>4 DEF OverrunsName
  <2> QED BY <1>1, <2>3, <2>5
<1>13. ParseAnswer(b, start) = StoreAnswer(b, start, [name |-> c, position |-> n])
  BY <1>12, Zenon DEF ParseAnswer
<1>14. StoreAnswer(b, start, [name |-> c, position |-> n]).answers =
           Append(<<>>, [name |-> c, type |-> TYPE_A, rdata |-> IP])
  <2>1. StoreAnswer(b, start, [name |-> c, position |-> n]).answers =
           Append(<<>>, [name |-> c, type |-> Word(b, p + n),
                         rdata |-> IF Word(b, p + n) = TYPE_A
                                   THEN Octets(b, p + n + 10, Word(b, p + n + 8)) ELSE <<>>])
    BY Zenon DEF StoreAnswer
  <2>2. p + n = x
    BY Zenon DEF x
  <2>3. StoreAnswer(b, start, [name |-> c, position |-> n]).answers =
           Append(<<>>, [name |-> c, type |-> Word(b, x),
                         rdata |-> IF Word(b, x) = TYPE_A
                                   THEN Octets(b, x + 10, Word(b, x + 8)) ELSE <<>>])
    <3> HIDE DEF start
    <3> QED BY <2>1, <2>2, Zenon
  <2>4. Octets(b, x + 10, Word(b, x + 8)) = IP
    BY <1>10, <1>11, Zenon
  <2>5. Word(b, x) = TYPE_A
    BY <1>9
  <2> HIDE DEF start
  <2> QED BY <2>3, <2>4, <2>5
<1>15. \A e : Append(<<>>, e) = <<e>>
  OBVIOUS
<1> QED BY <1>12, <1>13, <1>14, <1>15 DEF Found4, c

-----------------------------------------------------------------------------
\* What is sent is read.

QueryIsRead(b, t) ==
    /\ ~Overruns(b)
    /\ parse_dns_query(b).id = 23 /\ parse_dns_query(b).qname = Canonical[t]
    /\ parse_dns_query(b).qtype = TYPE_A /\ parse_dns_query(b).qclass = CLASS_IN
    /\ parse_dns_query(b).answers = <<>>

\* Whatever the name, its section and a query for it are octets.
LEMMA SectionType == \A t \in Names : NameSection(t) \in Names
<1> SUFFICES ASSUME NEW t \in Names PROVE NameSection(t) \in Names
  OBVIOUS
<1>1. Encoded[t] \in Names /\ <<NUL>> \in Names
  BY EncodedIs DEF Writes, Names, NUL, Octet
<1>2. Encoded[t] \o <<NUL>> \in Names
  BY <1>1, NamesJoin, Zenon
<1>3. CStr(Encoded[t] \o <<NUL>>) \in Names
  BY <1>2, StrLenType, Zenon DEF Names
<1> QED BY <1>3, Zenon DEF NameSection, get_dns_name

LEMMA QueryType ==
    ASSUME NEW flags \in FlagPairs, NEW t \in Names
    PROVE  QueryMessage(flags, t) \in Names
<1> DEFINE h == dns_header(flags, 23, 0, 1, 0, 0, 0)
<1>1. h \in Names
  <2>1. 23 \in Octet /\ 0 \in Nat /\ 0 \in Octet
    BY DEF Octet
  <2> QED BY <2>1, HeaderIs, Zenon
<1>2. NameSection(t) \in Names /\ <<NUL>> \in Names /\ Question \in Names
  <2>1. <<NUL>> \in Names
    BY DEF Names, NUL, Octet
  <2> QED BY <2>1, SectionType, QuestionIs
<1> HIDE DEF h
<1>3. h \o NameSection(t) \in Names
  BY <1>1, <1>2, NamesJoin, Zenon
<1>4. h \o NameSection(t) \o <<NUL>> \in Names
  BY <1>2, <1>3, NamesJoin, Zenon
<1>5. h \o NameSection(t) \o <<NUL>> \o Question \in Names
  BY <1>2, <1>4, NamesJoin, Zenon
<1> QED BY <1>5, Zenon DEF QueryMessage, h

LEMMA QueryRead ==
    ASSUME NEW flags \in FlagPairs, NEW fill \in Octet, NEW t \in Names, CanBeSent(t)
    PROVE  QueryIsRead(Buffer(QueryMessage(flags, t), fill), t)
<1> DEFINE h == dns_header(flags, 23, 0, 1, 0, 0, 0)
           m == QueryMessage(flags, t)
           b == Buffer(m, fill)
<1>1. 23 \in Octet /\ 0 \in Nat /\ 0 \in Octet
  BY DEF Octet
<1>2. h \in Names /\ Len(h) = 12 /\ Lies(h, 0, <<23, 0>>) /\ Lies(h, 6, U16(0))
  BY <1>1, HeaderIs, Zenon
<1>3. m = Asks(h, NameSection(t), <<NUL>>, Question)
  BY Zenon DEF QueryMessage, Asks
<1> HIDE DEF h, m
<1>4. m \in Names
  BY QueryType, Zenon DEF m
<1>5. b \in Buffers /\ b.data = m
  BY <1>4, BufferType
<1> HIDE DEF b
<1>6. Lies(b.data, 0, Asks(h, NameSection(t), <<NUL>>, Question))
  BY <1>3, <1>4, <1>5, LiesWhole
<1>7. IsQuestion(b, 23, 0, t)
  BY <1>1, <1>2, <1>5, <1>6, QuestionRead, Zenon
<1>8. 0 \in {0, 1}
  OBVIOUS
<1>9. QuestionIsParsed(b, 23, 0, t)
  BY <1>1, <1>5, <1>7, <1>8, QuestionParsed, Zenon
<1>10. QueryIsRead(b, t)
  BY <1>9 DEF QuestionIsParsed, QueryIsRead
<1> QED BY <1>10 DEF b, m

ReplyIsRead(b, id, t) ==
    /\ ~Overruns(b)
    /\ parse_dns_query(b).id = id /\ parse_dns_query(b).qname = Canonical[t]
    /\ parse_dns_query(b).answers = Found4(Canonical[t])

LEMMA ReplyRead ==
    ASSUME NEW flags \in FlagPairs, NEW id \in Octet, NEW fill \in Octet, NEW t \in Names, CanBeSent(t)
    PROVE  /\ ReplyMessage(flags, id, Canonical[t]) \in Names
           /\ ReplyIsRead(Buffer(ReplyMessage(flags, id, Canonical[t]), fill), id, t)
<1> DEFINE h == dns_header(flags, id, 1, 1, 1, 0, 0)
           m == ReplyMessage(flags, id, Canonical[t])
           b == Buffer(m, fill)
           n == NameSection(t)
           q == Asks(h, n, <<NUL>>, Question)
           qn == q \o n
           r == Resource
<1>1. 1 \in Nat /\ 1 \in Octet /\ 0 \in Nat
  BY DEF Octet
<1>2. h \in Names /\ Len(h) = 12 /\ Lies(h, 0, <<id, 0>>) /\ Lies(h, 6, U16(1))
  BY <1>1, HeaderIs, Zenon
<1>3. NameSection(Canonical[t]) = n /\ n \in Names /\ n = Encoded[t]
  BY SectionIs
<1>4. m = qn \o r
  <2>1. m = Asks(h, NameSection(Canonical[t]), <<NUL>>, Question) \o NameSection(Canonical[t]) \o Resource
    <3> HIDE DEF n
    <3> QED BY Zenon DEF ReplyMessage, Asks
  <2> HIDE DEF h, n
  <2> QED BY <1>3, <2>1, Zenon
<1> HIDE DEF h, m, n
<1>5. q \in Names
  <2>1. <<NUL>> \in Names /\ Question \in Names
    <3>1. <<NUL>> \in Names
      BY DEF Names, NUL, Octet
    <3> QED BY <3>1, QuestionIs
  <2>2. h \o n \in Names
    BY <1>2, <1>3, NamesJoin, Zenon
  <2>3. h \o n \o <<NUL>> \in Names
    BY <2>1, <2>2, NamesJoin, Zenon
  <2>4. h \o n \o <<NUL>> \o Question \in Names
    BY <2>1, <2>3, NamesJoin, Zenon
  <2> QED BY <2>4 DEF Asks
<1>6. r \in Names
  BY ResourceType DEF ResourceIs
<1> HIDE DEF q, r
<1>7. qn \in Names /\ Len(qn) = Len(q) + Len(n)
  BY <1>3, <1>5, NamesJoin, Zenon
<1>8. m \in Names
  BY <1>4, <1>6, <1>7, NamesJoin, Zenon
<1> HIDE DEF qn
<1>9. b \in Buffers /\ b.data = m
  BY <1>8, BufferType
<1> HIDE DEF b
<1>10. Lies(m, 0, qn) /\ Lies(m, 0 + Len(qn), r)
  <2>1. Lies(m, 0, qn \o r)
    BY <1>4, <1>8, LiesWhole
  <2> QED BY <1>1, <1>6, <1>7, <1>8, <2>1, LiesPart, Zenon
<1>11. Lies(m, 0, q) /\ Lies(m, 0 + Len(q), n)
  <2>1. Lies(m, 0, q \o n)
    BY <1>10 DEF qn
  <2> QED BY <1>1, <1>3, <1>5, <1>8, <2>1, LiesPart, Zenon
<1>12. IsQuestion(b, id, 1, t) /\ Len(q) = 17 + Len(Encoded[t])
  <2>1. Lies(b.data, 0, Asks(h, NameSection(t), <<NUL>>, Question))
    BY <1>9, <1>11 DEF q, n
  <2>2. /\ IsQuestion(b, id, 1, t)
        /\ QuestionSize(Asks(h, NameSection(t), <<NUL>>, Question), t)
    BY <1>1, <1>2, <1>9, <2>1, QuestionRead, Zenon
  <2>3. QuestionSize(q, t)
    BY <2>2, Zenon DEF q, n
  <2> QED BY <2>2, <2>3 DEF QuestionSize
<1> DEFINE p == 17 + Len(Encoded[t])
<1>13. p \in Nat /\ Lies(b.data, p, Encoded[t]) /\ Lies(b.data, p + Len(Encoded[t]), Resource)
  <2>1. Len(Encoded[t]) \in Nat
    BY SectionIs
  <2>2. 0 + Len(q) = p /\ 0 + Len(qn) = p + Len(Encoded[t])
    BY <1>3, <1>7, <1>12, <2>1
  <2> QED BY <1>3, <1>9, <1>10, <1>11, <2>1, <2>2 DEF r
<1>14. /\ ParseAnswer(b, [reader |-> p, answers |-> <<>>]).answers = Found4(Canonical[t])
       /\ ~OverrunsName(b, p)
  <2> HIDE DEF p
  <2> QED BY <1>9, <1>13, AnswerRead, Zenon
<1>15. 1 \in {0, 1}
  OBVIOUS
<1>16. QuestionIsParsed(b, id, 1, t)
  BY <1>9, <1>12, <1>15, QuestionParsed, Zenon
<1>17. ReplyIsRead(b, id, t)
  BY <1>14, <1>16 DEF QuestionIsParsed, ReplyIsRead
<1> QED BY <1>8, <1>17 DEF b, m

-----------------------------------------------------------------------------
\* The names that are typed.

\* The host is always text without a NUL, whatever has been typed.
NameTyped ==
    /\ host \in Seq(Octet) /\ NoneIs(host, NUL)
    /\ pieces \in 0 .. MaxPieces

LEMMA TypedNames == NamesSpec => []NameTyped
<1>1. NamesInit => NameTyped
  BY PiecesAssumption DEF NamesInit, NameTyped, NoneIs
<1>2. ASSUME NameTyped, [NamesNext]_names_vars
      PROVE  NameTyped'
  <2>1. ASSUME NEW s \in Seq(Octet), NoneIs(s, NUL), host' = host \o s,
               pieces < MaxPieces, pieces' = pieces + 1
        PROVE  NameTyped'
    <3>1. host \o s \in Names /\ NoneIs(host \o s, NUL)
      BY <1>2, <2>1, NamesJoin, NoneOfBoth, Zenon DEF NameTyped, Names
    <3>2. pieces' \in 0 .. MaxPieces
      BY <1>2, <2>1, PiecesAssumption DEF NameTyped
    <3> QED BY <2>1, <3>1, <3>2 DEF NameTyped, Names
  <2>2. CASE TypeDot
    <3>1. <<Dot>> \in Seq(Octet) /\ NoneIs(<<Dot>>, NUL)
      BY DEF Dot, Octet, NoneIs, NUL
    <3>2. Dot \in Octet
      BY DEF Dot, Octet
    <3>3. host' = host \o <<Dot>>
      BY <1>2, <2>2, <3>2, AppendIsConcat, Zenon DEF TypeDot, NameTyped
    <3> QED BY <2>1, <2>2, <3>1, <3>3 DEF TypeDot
  <2>3. ASSUME NEW n \in Lengths, TypeLetters(n)
        PROVE  NameTyped'
    <3> DEFINE c == 97 + pieces
               s == Filled(n, c)
    <3>1. n \in Nat /\ pieces \in Nat /\ pieces < MaxPieces /\ MaxPieces \in 0 .. 26
      BY <1>2, <2>3, PiecesAssumption DEF NameTyped, TypeLetters
    <3>2. c \in Octet /\ c # NUL
      BY <3>1 DEF Octet, NUL
    <3> HIDE DEF c
    <3>3. s \in [1 .. n -> Octet]
      BY <3>2 DEF Filled
    <3>4. s \in Seq(Octet) /\ Len(s) = n
      BY <3>1, <3>3, FunctionIsSeq
    <3>5. NoneIs(s, NUL)
      BY <3>1, <3>2, <3>4 DEF NoneIs, Filled
    <3>6. host' = host \o s /\ pieces' = pieces + 1
      BY <2>3 DEF TypeLetters, c
    <3> HIDE DEF s
    <3> QED BY <2>1, <3>1, <3>4, <3>5, <3>6
  <2>4. CASE UNCHANGED names_vars
    BY <1>2, <2>4 DEF names_vars, NameTyped, NoneIs
  <2> QED BY <1>2, <2>2, <2>3, <2>4 DEF NamesNext
<1> QED BY <1>1, <1>2, PTL DEF NamesSpec

\* The server reads in a query what was asked: for every name that can be carried,
\* of any number of labels of any length, and whatever lies in the buffers.
THEOREM ServerReads == NamesSpec => []ServerReadsQuery
<1>1. NameTyped => ServerReadsQuery
  <2> SUFFICES ASSUME NameTyped, Carried(host), NEW flags \in Flags, NEW fill \in Fills
               PROVE  QueryIsRead(Buffer(QueryMessage(flags, host), fill), host)
    BY DEF ServerReadsQuery, QueryIsRead
  <2>1. host \in Names /\ CanBeSent(host)
    BY CarriedIsReadable DEF NameTyped, CanBeSent, Names
  <2>2. flags \in FlagPairs /\ fill \in Octet
    BY BuffersAssumption DEF FlagPairs
  <2> QED BY <2>1, <2>2, QueryRead, Zenon
<1> QED BY <1>1, TypedNames, PTL

\* The client reads in the server's reply one answer: the name asked for, with the
\* address, although the answer's name has no terminator of its own.
THEOREM ClientReads == NamesSpec => []ClientReadsAnswer
<1>1. NameTyped => ClientReadsAnswer
  <2> SUFFICES ASSUME NameTyped, Carried(host), NEW flags \in Flags, NEW fill \in Fills
               PROVE  ReplyIsRead(Buffer(ReplyMessage(flags, 23, Canonical[host]), fill), 23, host)
    BY DEF ClientReadsAnswer, ReplyIsRead, Found4
  <2>1. host \in Names /\ CanBeSent(host)
    BY CarriedIsReadable DEF NameTyped, CanBeSent, Names
  <2>2. flags \in FlagPairs /\ fill \in Octet
    BY BuffersAssumption DEF FlagPairs
  <2>3. 23 \in Octet
    BY DEF Octet
  <2> QED BY <2>1, <2>2, <2>3, ReplyRead, Zenon
<1> QED BY <1>1, TypedNames, PTL

-----------------------------------------------------------------------------
\* get_domain_name of TD6.

Texts6 == [name : Names, position : Int]

\* What is found behind i octets of text where no label follows.
Ended(at) ==
    [name |-> <<>>,
     position |-> IF at.buffer_len = -1 THEN Uncompressed(at.i) ELSE at.buffer_len]

Stops(b, at) == At(b, at.p) = NUL \/ at.i > HOST_NAME_SIZE

\* What is found from a label on, with what is found behind it.
Longer(b, at, rest) == [name |-> Copied(b, at) \o rest.name, position |-> rest.position]

ChainOf(b) ==
    CHOOSE chain : chain = [at \in Places |->
        IF At(b, at.p) = NUL \/ at.i > HOST_NAME_SIZE
        THEN [name |-> <<>>,
              position |-> IF at.buffer_len = -1 THEN Uncompressed(at.i) ELSE at.buffer_len]
        ELSE [name |-> Copied(b, at) \o chain[Further(b, at)].name,
              position |-> chain[Further(b, at)].position]]

LEMMA PlaceType ==
    \A p \in Nat, i \in Nat, l \in Int :
        Place(p, i, l) \in Places /\ Place(p, i, l).p = p /\ Place(p, i, l).i = i
        /\ Place(p, i, l).buffer_len = l
  BY DEF Place, Places

LEMMA OffsetType == \A b \in Buffers, p \in Nat : Word(b, p) \in Nat /\ Offset(b, p) \in Nat
<1> SUFFICES ASSUME NEW b \in Buffers, NEW p \in Nat
             PROVE  Word(b, p) \in Nat /\ Offset(b, p) \in Nat
  OBVIOUS
<1>1. At(b, p) \in Octet /\ At(b, p + 1) \in Octet
  BY AtType
<1>2. \A x, y \in Octet : 256 * x + y \in Nat
  BY DEF Octet
<1>3. Word(b, p) \in Nat
  BY <1>1, <1>2 DEF Word
<1>4. \A n \in Nat : n % 16384 \in Nat
  OBVIOUS
<1> QED BY <1>3, <1>4 DEF Offset

\* A turn of the loop copies text and goes on behind more of it.
GoesOn(b, at) ==
    /\ Copied(b, at) \in Names /\ Further(b, at) \in Places
    /\ Further(b, at).i > at.i

LEMMA TurnType == \A b \in Buffers, at \in Places : GoesOn(b, at)
<1> SUFFICES ASSUME NEW b \in Buffers, NEW at \in Places PROVE GoesOn(b, at)
  OBVIOUS
<1> DEFINE s == LabelStart(b, at)
           n == At(b, s)
           bl == IF RestIsElsewhere(b, at.p, at.i) THEN at.i + 2 ELSE at.buffer_len
<1>1. at.p \in Nat /\ at.i \in Nat /\ at.buffer_len \in Int
  BY DEF Places
<1>2. s \in Nat
  BY <1>1, OffsetType DEF LabelStart
<1>3. n \in Octet /\ n \in Nat
  <2> HIDE DEF s
  <2> QED BY <1>2, AtType DEF Octet
<1>4. bl \in Int
  BY <1>1
<1>5. Copied(b, at) = LabelText(b, s + 1, n)
  BY Zenon DEF Copied, LabelText
<1>6. Further(b, at) = Place(s + n + 1, at.i + n + 1, bl)
  BY Zenon DEF Further
<1> HIDE DEF s, n, bl
<1>7. Copied(b, at) \in Names
  <2>1. s + 1 \in Nat
    BY <1>2
  <2> QED BY <1>3, <1>5, <2>1, LabelTextType
<1>8. s + n + 1 \in Nat /\ at.i + n + 1 \in Nat /\ at.i + n + 1 > at.i
  BY <1>1, <1>2, <1>3
<1>9. Further(b, at) \in Places /\ Further(b, at).i = at.i + n + 1
  BY <1>4, <1>6, <1>8, PlaceType
<1> QED BY <1>7, <1>8, <1>9 DEF GoesOn

\* The recursion has a solution.
LEMMA ChainIs ==
    ASSUME NEW b \in Buffers
    PROVE  \A at \in Places :
               ChainOf(b)[at] = IF Stops(b, at) THEN Ended(at)
                                ELSE Longer(b, at, ChainOf(b)[Further(b, at)])
<1> DEFINE F == [f \in [Places -> Texts6] |-> [at \in Places |->
                   IF Stops(b, at) THEN Ended(at) ELSE Longer(b, at, f[Further(b, at)])]]
           left == [at \in Places |->
                      IF at.i > HOST_NAME_SIZE THEN 0 ELSE HOST_NAME_SIZE + 1 - at.i]
<1>1. HOST_NAME_SIZE \in Nat
  BY SizeAssumption
<1>2. \A at \in Places : at.i \in Nat /\ at.buffer_len \in Int
  BY DEF Places
<1>3. \A at \in Places : Copied(b, at) \in Names /\ Further(b, at) \in Places
                         /\ Further(b, at).i > at.i
  BY TurnType DEF GoesOn
<1>4. left \in [Places -> Nat]
  BY <1>1, <1>2
<1>5. \A at \in Places : Ended(at) \in Texts6
  <2>1. \A at \in Places : (IF at.buffer_len = -1 THEN Uncompressed(at.i) ELSE at.buffer_len) \in Int
    BY <1>2 DEF Uncompressed
  <2>2. <<>> \in Names
    BY DEF Names
  <2> QED BY <2>1, <2>2 DEF Ended, Texts6
<1>6. \A at \in Places, x \in Texts6 : Longer(b, at, x) \in Texts6
  <2> SUFFICES ASSUME NEW at \in Places, NEW x \in Texts6 PROVE Longer(b, at, x) \in Texts6
    OBVIOUS
  <2>1. x.name \in Names /\ x.position \in Int
    BY DEF Texts6
  <2>2. Copied(b, at) \o x.name \in Names
    BY <1>3, <2>1, NamesJoin, Zenon
  <2> QED BY <2>1, <2>2 DEF Longer, Texts6
<1>7. F \in [[Places -> Texts6] -> [Places -> Texts6]]
  <2>1. ASSUME NEW f \in [Places -> Texts6], NEW at \in Places
        PROVE  (IF Stops(b, at) THEN Ended(at) ELSE Longer(b, at, f[Further(b, at)])) \in Texts6
    <3>1. f[Further(b, at)] \in Texts6
      BY <1>3
    <3>2. Longer(b, at, f[Further(b, at)]) \in Texts6
      BY <1>6, <3>1, Zenon
    <3> QED BY <1>5, <3>2
  <2> QED BY <2>1, Zenon
<1>8. LooksBelow(Places, Texts6, left, F)
  <2> SUFFICES ASSUME NEW f \in [Places -> Texts6], NEW g \in [Places -> Texts6], NEW at \in Places,
                      \A u \in Places : left[u] < left[at] => f[u] = g[u]
               PROVE  F[f][at] = F[g][at]
    BY Zenon DEF LooksBelow
  <2>1. ~Stops(b, at) => f[Further(b, at)] = g[Further(b, at)]
    <3> SUFFICES ASSUME ~Stops(b, at) PROVE left[Further(b, at)] < left[at]
      BY <1>3
    <3> DEFINE u == Further(b, at)
    <3>1. u \in Places /\ u.i > at.i /\ ~(at.i > HOST_NAME_SIZE) /\ u.i \in Nat /\ at.i \in Nat
      BY <1>2, <1>3 DEF Stops
    <3> HIDE DEF u
    <3>2. left[u] < left[at]
      BY <1>1, <3>1
    <3> QED BY <3>2 DEF u
  <2>2. F[f][at] = IF Stops(b, at) THEN Ended(at) ELSE Longer(b, at, f[Further(b, at)])
    BY Zenon
  <2>3. F[g][at] = IF Stops(b, at) THEN Ended(at) ELSE Longer(b, at, g[Further(b, at)])
    BY Zenon
  <2> HIDE DEF F
  <2> QED BY <2>1, <2>2, <2>3, Zenon
<1>9. IsSolved(Places, Texts6, F)
  <2>1. Texts6 # {}
    <3>1. Place(0, 0, 0) \in Places
      BY PlaceType
    <3> QED BY <1>5, <3>1
  <2> HIDE DEF left, F
  <2> QED BY <1>4, <1>7, <1>8, <2>1, RecursionBySize, Zenon
<1>10. \E f : f = [at \in Places |-> IF Stops(b, at) THEN Ended(at) ELSE Longer(b, at, f[Further(b, at)])]
  BY <1>9, Zenon DEF IsSolved
<1> DEFINE chain == ChainOf(b)
<1>11. chain = [at \in Places |->
                  IF Stops(b, at) THEN Ended(at) ELSE Longer(b, at, chain[Further(b, at)])]
  BY <1>10, Zenon DEF ChainOf, Stops, Ended, Longer
<1> HIDE DEF chain
<1>12. \A at \in Places : chain[at] = IF Stops(b, at) THEN Ended(at)
                                      ELSE Longer(b, at, chain[Further(b, at)])
  BY <1>11, Zenon
<1> QED BY <1>12, Zenon DEF chain

\* What is found at p behind i octets of text, l being what buffer_len holds.
FindsAt(b, p, i, l, text, position) ==
    ChainOf(b)[Place(p, i, l)] = [name |-> text, position |-> position]

\* The position behind i octets of text and no further pointer.
Final(i, l) == IF l = -1 THEN i + 1 ELSE l

LEMMA FindsNothing ==
    ASSUME NEW b \in Buffers, NEW p \in Nat, NEW i \in Nat, NEW l \in Int, At(b, p) = NUL
    PROVE  FindsAt(b, p, i, l, <<>>, Final(i, l))
<1> DEFINE at == Place(p, i, l)
<1>1. at \in Places /\ at.p = p /\ at.i = i /\ at.buffer_len = l
  BY PlaceType
<1> HIDE DEF at
<1>2. Stops(b, at)
  BY <1>1 DEF Stops
<1>3. ChainOf(b)[at] = Ended(at)
  BY <1>1, <1>2, ChainIs
<1>4. Ended(at) = [name |-> <<>>, position |-> Final(i, l)]
  BY <1>1 DEF Ended, Final, Uncompressed
<1> QED BY <1>3, <1>4, Zenon DEF FindsAt, at

\* The turn at p reads the label at s, of n octets, and leaves bl in buffer_len.
Turns(b, p, i, l, s, n, bl) ==
    /\ Copied(b, Place(p, i, l)) = LabelText(b, s + 1, n)
    /\ Further(b, Place(p, i, l)) = Place(s + n + 1, i + n + 1, bl)

LEMMA TurnIs ==
    ASSUME NEW b \in Buffers, NEW p \in Nat, NEW i \in Nat, NEW l \in Int
    PROVE  /\ ~IsCompressed(b, p) => Turns(b, p, i, l, p, At(b, p), l)
           /\ IsCompressed(b, p) => Turns(b, p, i, l, Offset(b, p), At(b, Offset(b, p)), i + 2)
<1> DEFINE at == Place(p, i, l)
<1>1. at.p = p /\ at.i = i /\ at.buffer_len = l
  BY PlaceType
<1> HIDE DEF at
<1>2. RestIsElsewhere(b, at.p, at.i) <=> IsCompressed(b, p)
  BY <1>1 DEF RestIsElsewhere
<1>3. Copied(b, at) = LabelText(b, LabelStart(b, at) + 1, At(b, LabelStart(b, at)))
  BY Zenon DEF Copied, LabelText
<1>4. Further(b, at) = Place(LabelStart(b, at) + At(b, LabelStart(b, at)) + 1,
                             at.i + At(b, LabelStart(b, at)) + 1,
                             IF RestIsElsewhere(b, at.p, at.i) THEN at.i + 2 ELSE at.buffer_len)
  BY Zenon DEF Further
<1>5. ~IsCompressed(b, p) => LabelStart(b, at) = p
  BY <1>1, <1>2 DEF LabelStart
<1>6. IsCompressed(b, p) => LabelStart(b, at) = Offset(b, p)
  BY <1>1, <1>2 DEF LabelStart
<1>7. ~IsCompressed(b, p) => Turns(b, p, i, l, p, At(b, p), l)
  BY <1>1, <1>2, <1>3, <1>4, <1>5, Zenon DEF Turns, at
<1>8. IsCompressed(b, p) => Turns(b, p, i, l, Offset(b, p), At(b, Offset(b, p)), i + 2)
  BY <1>1, <1>2, <1>3, <1>4, <1>6, Zenon DEF Turns, at
<1> QED BY <1>7, <1>8

\* What is found after a turn.
LEMMA FindsMore ==
    ASSUME NEW b \in Buffers, NEW p \in Nat, NEW i \in Nat, NEW l \in Int,
           NEW s, NEW n, NEW bl, NEW text, NEW position,
           At(b, p) # NUL, i <= HOST_NAME_SIZE, Turns(b, p, i, l, s, n, bl),
           FindsAt(b, s + n + 1, i + n + 1, bl, text, position)
    PROVE  FindsAt(b, p, i, l, LabelText(b, s + 1, n) \o text, position)
<1> DEFINE at == Place(p, i, l)
           rest == ChainOf(b)[Further(b, at)]
<1>1. at \in Places /\ at.p = p /\ at.i = i
  BY PlaceType
<1>2. rest = [name |-> text, position |-> position]
  BY Zenon DEF Turns, FindsAt
<1>3. Copied(b, at) = LabelText(b, s + 1, n)
  BY Zenon DEF Turns
<1> HIDE DEF at, rest
<1>4. ~Stops(b, at)
  <2>1. HOST_NAME_SIZE \in Nat
    BY SizeAssumption
  <2> QED BY <1>1, <2>1 DEF Stops
<1>5. ChainOf(b)[at] = Longer(b, at, rest)
  BY <1>1, <1>4, ChainIs, Zenon DEF rest
<1>6. Longer(b, at, rest) = [name |-> LabelText(b, s + 1, n) \o text, position |-> position]
  BY <1>2, <1>3 DEF Longer
<1> QED BY <1>5, <1>6, Zenon DEF FindsAt, at

\* A name that TD6's library can read where its labels lie.
IsName6At(b, p, t) == IsNameAt(b, p, t) /\ LabelsFit(t, 191)

\* Its first label, and the rest of it.
FirstIs(b, p, t) ==
    /\ At(b, p) = Len(Label(t)) /\ At(b, p) # NUL /\ ~IsCompressed(b, p)
    /\ LabelText(b, p + 1, At(b, p)) = Label(t) \o <<Dot>>
    /\ IsName6At(b, p + Len(Label(t)) + 1, Rest(t))
    /\ Canonical[t] = Label(t) \o <<Dot>> \o Canonical[Rest(t)]
    /\ Len(Canonical[t]) = Len(Label(t)) + 1 + Len(Canonical[Rest(t)])
    /\ Len(Label(t)) \in Nat /\ Len(Canonical[Rest(t)]) \in Nat

LEMMA LabelAt6 ==
    ASSUME NEW b \in Buffers, NEW p \in Nat, NEW t \in Names, Label(t) # <<>>, IsName6At(b, p, t)
    PROVE  FirstIs(b, p, t)
<1>1. IsNameAt(b, p, t) /\ LabelsFit(t, 191)
  BY DEF IsName6At
<1>2. /\ At(b, p) = Len(Label(t)) /\ At(b, p) # NUL
      /\ LabelText(b, p + 1, At(b, p)) = Label(t) \o <<Dot>>
      /\ IsNameAt(b, p + Len(Label(t)) + 1, Rest(t))
      /\ Len(Canonical[t]) = Len(Label(t)) + 1 + Len(Canonical[Rest(t)])
      /\ Len(Label(t)) \in Nat /\ Len(Canonical[Rest(t)]) \in Nat
  BY <1>1, LabelAt, Zenon
<1>3. Len(Label(t)) <= 191 /\ LabelsFit(Rest(t), 191)
  BY <1>1, NameSplits DEF Splits
<1>4. Canonical[t] = Label(t) \o <<Dot>> \o Canonical[Rest(t)]
  <2>1. Canonical[t] = WithDot[Label(t)] \o Canonical[Rest(t)] /\ Label(t) \in Names
    BY CanonicalIs, NameSplits DEF Writes, Splits
  <2> QED BY <2>1, LabelTexts
<1>5. ~IsCompressed(b, p)
  <2> DEFINE n == Len(Label(t))
  <2>1. At(b, p) = n /\ n \in Nat /\ n <= 191
    BY <1>2, <1>3
  <2> HIDE DEF n
  <2> QED BY <2>1 DEF IsCompressed
<1> QED BY <1>2, <1>3, <1>4, <1>5, Zenon DEF FirstIs, IsName6At

\* A name without a pointer is read label by label.
FindsLabels(b, t) ==
    \A p \in Nat, i \in Nat, l \in Int :
        IsName6At(b, p, t) /\ i + Len(Canonical[t]) <= HOST_NAME_SIZE
            => FindsAt(b, p, i, l, Canonical[t], Final(i + Len(Canonical[t]), l))

LEMMA LabelsAreFound ==
    ASSUME NEW b \in Buffers
    PROVE  \A t \in Names : FindsLabels(b, t)
<1> DEFINE P == {t \in Names : FindsLabels(b, t)}
<1>1. ASSUME NEW t \in Names, Label(t) # <<>> => Rest(t) \in P
      PROVE  t \in P
  <2> SUFFICES ASSUME NEW p \in Nat, NEW i \in Nat, NEW l \in Int, IsName6At(b, p, t),
                      i + Len(Canonical[t]) <= HOST_NAME_SIZE
               PROVE  FindsAt(b, p, i, l, Canonical[t], Final(i + Len(Canonical[t]), l))
    BY Zenon DEF FindsLabels
  <2>1. CASE Label(t) = <<>>
    <3>1. Canonical[t] = <<>> /\ Encoded[t] = <<>> /\ Len(<<>>) = 0
      BY <2>1, NoMoreLabels
    <3>2. At(b, p + 0) = NUL /\ p + 0 = p /\ i + 0 = i
      BY <3>1 DEF IsName6At, IsNameAt
    <3>3. FindsAt(b, p, i, l, <<>>, Final(i, l))
      BY <3>2, FindsNothing
    <3> QED BY <3>1, <3>2, <3>3
  <2>2. CASE Label(t) # <<>>
    <3> DEFINE n == Len(Label(t))
               r == Rest(t)
               c == Canonical[r]
               k == Len(c)
               a == Label(t)
    <3>1. FirstIs(b, p, t)
      BY <2>2, LabelAt6, Zenon
    <3>2. /\ At(b, p) = n /\ At(b, p) # NUL /\ ~IsCompressed(b, p)
          /\ LabelText(b, p + 1, At(b, p)) = a \o <<Dot>>
          /\ IsName6At(b, p + n + 1, r)
          /\ Canonical[t] = a \o <<Dot>> \o c
          /\ Len(Canonical[t]) = n + 1 + k
          /\ n \in Nat /\ k \in Nat
      BY <3>1, Zenon DEF FirstIs
    <3>3. FindsLabels(b, r)
      BY <1>1, <2>2
    <3> HIDE DEF n, k, r, c, a
    <3>4. /\ p + n + 1 \in Nat /\ i + n + 1 \in Nat /\ i <= HOST_NAME_SIZE
          /\ i + n + 1 + k <= HOST_NAME_SIZE /\ i + n + 1 + k = i + Len(Canonical[t])
      <4>1. HOST_NAME_SIZE \in Nat
        BY SizeAssumption
      <4>2. n \in Nat /\ k \in Nat /\ Len(Canonical[t]) = n + 1 + k
        BY <3>2
      <4>3. i + (n + 1 + k) <= HOST_NAME_SIZE
        BY <4>2
      <4> HIDE <3>2
      <4> QED BY <4>1, <4>2, <4>3
    <3>5. FindsAt(b, p + n + 1, i + n + 1, l, c, Final(i + n + 1 + k, l))
      BY <3>2, <3>3, <3>4, Zenon DEF FindsLabels, c, k
    <3>6. Turns(b, p, i, l, p, n, l)
      BY <3>2, TurnIs, Zenon
    <3>7. FindsAt(b, p, i, l, LabelText(b, p + 1, n) \o c, Final(i + n + 1 + k, l))
      BY <3>2, <3>4, <3>5, <3>6, FindsMore, Zenon
    <3> QED BY <3>2, <3>4, <3>7, Zenon
  <2> QED BY <2>1, <2>2
<1>2. \A t \in Names : t \in P
  <2> HIDE DEF P
  <2>1. \A t \in Names : (Label(t) # <<>> => Rest(t) \in P) => t \in P
    BY <1>1
  <2> QED BY <2>1, AllNames, Zenon
<1> QED BY <1>2

\* A pointer leads to a name, and its two octets end the text that it is in.
LEMMA PointerFound ==
    ASSUME NEW b \in Buffers, NEW p \in Nat, NEW i \in Nat, NEW l \in Int, NEW q \in Nat,
           NEW t \in Names, Label(t) # <<>>, IsName6At(b, q, t),
           i + Len(Canonical[t]) <= HOST_NAME_SIZE,
           IsCompressed(b, p), Offset(b, p) = q
    PROVE  FindsAt(b, p, i, l, Canonical[t], i + 2)
<1> DEFINE n == Len(Label(t))
           r == Rest(t)
           c == Canonical[r]
           k == Len(c)
           a == Label(t)
<1>1. FirstIs(b, q, t)
  BY LabelAt6, Zenon
<1>2. /\ At(b, q) = n
      /\ LabelText(b, q + 1, At(b, q)) = a \o <<Dot>>
      /\ IsName6At(b, q + n + 1, r)
      /\ Canonical[t] = a \o <<Dot>> \o c
      /\ Len(Canonical[t]) = n + 1 + k
      /\ n \in Nat /\ k \in Nat
  BY <1>1, Zenon DEF FirstIs
<1>3. FindsLabels(b, r)
  <2>1. r \in Names
    BY NameSplits DEF Splits
  <2> QED BY <2>1, LabelsAreFound
<1> HIDE DEF n, k, r, c, a
<1>4. /\ q + n + 1 \in Nat /\ i + n + 1 \in Nat /\ i <= HOST_NAME_SIZE
      /\ i + n + 1 + k <= HOST_NAME_SIZE /\ i + 2 \in Int /\ i + 2 # -1
  <2>1. HOST_NAME_SIZE \in Nat
    BY SizeAssumption
  <2> QED BY <1>2, <2>1
<1>5. FindsAt(b, q + n + 1, i + n + 1, i + 2, c, Final(i + n + 1 + k, i + 2))
  BY <1>2, <1>3, <1>4, Zenon DEF FindsLabels, c, k
<1>6. Final(i + n + 1 + k, i + 2) = i + 2
  BY <1>4 DEF Final
<1>7. Turns(b, p, i, l, q, n, i + 2)
  BY <1>2, TurnIs, Zenon
<1>8. At(b, p) # NUL
  <2>1. At(b, p) \in Octet
    BY AtType
  <2> QED BY <2>1 DEF IsCompressed, NUL, Octet
<1>9. FindsAt(b, q + n + 1, i + n + 1, i + 2, c, i + 2)
  BY <1>5, <1>6, Zenon
<1>10. FindsAt(b, p, i, l, LabelText(b, q + 1, n) \o c, i + 2)
  BY <1>4, <1>7, <1>8, <1>9, FindsMore, Zenon
<1> QED BY <1>2, <1>10, Zenon

\* What get_domain_name6 makes of it.
Reads6(b, p, name, position) ==
    get_domain_name6(b, p) = [name |-> name, position |-> position]

LEMMA FoundIsRead ==
    ASSUME NEW b, NEW p, NEW text \in Names, NEW position,
           FindsAt(b, p, 0, -1, text, position), NoneIs(text, NUL)
    PROVE  Reads6(b, p, text, position)
<1> DEFINE result == ChainOf(b)[Place(p, 0, -1)]
<1>1. get_domain_name6(b, p) = [name |-> CStr(result.name), position |-> result.position]
  BY Zenon DEF get_domain_name6, ChainOf
<1>2. result = [name |-> text, position |-> position]
  BY Zenon DEF FindsAt
<1> HIDE DEF result
<1>3. result.name = text /\ result.position = position
  BY <1>2
<1>4. CStr(text) = text
  BY WholeText
<1> QED BY <1>1, <1>3, <1>4, Zenon DEF Reads6

LEMMA CanonicalText ==
    ASSUME NEW b, NEW p, NEW t \in Names, IsName6At(b, p, t)
    PROVE  Canonical[t] \in Names /\ Len(Canonical[t]) \in Nat /\ NoneIs(Canonical[t], NUL)
<1>1. Canonical[t] \in Names
  BY CanonicalIs DEF Writes
<1>2. NoneIs(Canonical[t], NUL)
  BY NameTexts DEF NulFree, IsName6At, IsNameAt
<1> QED BY <1>1, <1>2 DEF Names

\* A name that is written out is read, and with it its terminator.
LEMMA WrittenRead ==
    ASSUME NEW b \in Buffers, NEW p \in Nat, NEW t \in Names, IsName6At(b, p, t),
           Len(Canonical[t]) <= HOST_NAME_SIZE
    PROVE  Reads6(b, p, Canonical[t], Len(Canonical[t]) + 1)
<1> DEFINE c == Canonical[t]
           n == Len(c)
<1>1. c \in Names /\ n \in Nat /\ NoneIs(c, NUL)
  BY CanonicalText
<1>2. FindsLabels(b, t)
  BY LabelsAreFound
<1> HIDE DEF c, n
<1>3. 0 \in Nat /\ -1 \in Int /\ 0 + n = n /\ Final(n, -1) = n + 1
  BY <1>1 DEF Final
<1>4. FindsAt(b, p, 0, -1, c, Final(0 + n, -1))
  <2>1. 0 + Len(Canonical[t]) <= HOST_NAME_SIZE
    BY <1>3 DEF n, c
  <2> QED BY <1>2, <1>3, <2>1, Zenon DEF FindsLabels, c, n
<1>5. FindsAt(b, p, 0, -1, c, n + 1)
  BY <1>3, <1>4, Zenon
<1> QED BY <1>1, <1>5, FoundIsRead, Zenon DEF c, n

\* A pointer, where a message has one, and the offsets it can have.
IsPointer(b, p, q) == Word(b, p) = 192 * 256 + q

InReach(q) == q < 16384

LEMMA PointerIs ==
    ASSUME NEW b \in Buffers, NEW p \in Nat, NEW q \in Nat, InReach(q), IsPointer(b, p, q)
    PROVE  IsCompressed(b, p) /\ Offset(b, p) = q
<1> DEFINE x == At(b, p)
           y == At(b, p + 1)
<1>1. x \in Octet /\ y \in Octet
  BY AtType
<1>2. Word(b, p) = 256 * x + y
  BY DEF Word
<1>3. Word(b, p) = 192 * 256 + q
  BY DEF IsPointer
<1> HIDE DEF x, y
<1>4. x >= 192
  <2>1. \A m, n \in Octet : 256 * m + n = 192 * 256 + q => m >= 192
    BY DEF Octet
  <2> QED BY <1>1, <1>2, <1>3, <2>1
<1>5. (192 * 256 + q) % 16384 = q
  BY DEF InReach
<1> QED BY <1>3, <1>4, <1>5 DEF IsCompressed, Offset, x

\* A pointer is read as the name it leads to.
LEMMA PointerRead ==
    ASSUME NEW b \in Buffers, NEW p \in Nat, NEW q \in Nat, InReach(q), IsPointer(b, p, q),
           NEW t \in Names, Label(t) # <<>>, IsName6At(b, q, t),
           Len(Canonical[t]) <= HOST_NAME_SIZE
    PROVE  Reads6(b, p, Canonical[t], 2)
<1>1. 0 \in Nat /\ -1 \in Int /\ 0 + 2 = 2
  OBVIOUS
<1>2. IsCompressed(b, p) /\ Offset(b, p) = q
  BY PointerIs
<1>3. Canonical[t] \in Names /\ Len(Canonical[t]) \in Nat /\ NoneIs(Canonical[t], NUL)
  BY CanonicalText
<1>4. 0 + Len(Canonical[t]) <= HOST_NAME_SIZE
  BY <1>3
<1>5. FindsAt(b, p, 0, -1, Canonical[t], 0 + 2)
  BY <1>1, <1>2, <1>4, PointerFound, Zenon
<1>6. FindsAt(b, p, 0, -1, Canonical[t], 2)
  BY <1>1, <1>5, Zenon
<1> QED BY <1>3, <1>6, FoundIsRead, Zenon

LEMMA TwoJoin == \A y, z \in Octet : <<y>> \o <<z>> = <<y, z>>
<1> SUFFICES ASSUME NEW y \in Octet, NEW z \in Octet PROVE <<y>> \o <<z>> = <<y, z>>
  OBVIOUS
<1> DEFINE a == <<y>>
           c == <<z>>
           t == <<y, z>>
<1>1. a \in Seq(Octet) /\ c \in Seq(Octet) /\ Len(a) = 1 /\ Len(c) = 1 /\ a[1] = y /\ c[1] = z
  OBVIOUS
<1>2. t \in Seq(Octet) /\ Len(t) = 2 /\ t[1] = y /\ t[2] = z
  OBVIOUS
<1> HIDE DEF a, c, t
<1>3. a \o c \in Seq(Octet) /\ Len(a \o c) = 2 /\ (a \o c)[1] = y /\ (a \o c)[2] = z
  <2>1. /\ a \o c \in Seq(Octet) /\ Len(a \o c) = Len(a) + Len(c)
        /\ \A i \in 1 .. Len(a) + Len(c) : (a \o c)[i] = IF i <= Len(a) THEN a[i] ELSE c[i - Len(a)]
    BY <1>1, ConcatProperties, Zenon
  <2>2. 1 \in 1 .. 2 /\ 2 \in 1 .. 2 /\ 1 <= 1 /\ ~(2 <= 1) /\ 2 - 1 = 1
    OBVIOUS
  <2> QED BY <1>1, <2>1, <2>2
<1>4. a \o c = t
  <2>1. \A i \in 1 .. 2 : i = 1 \/ i = 2
    OBVIOUS
  <2>2. \A i \in 1 .. 2 : (a \o c)[i] = t[i]
    BY <1>2, <1>3, <2>1
  <2> QED BY <1>2, <1>3, <2>2, SameText
<1> QED BY <1>4 DEF a, c, t

\* A label of one letter with a pointer behind it.
OneLetter(b, p, x) == At(b, p) = 1 /\ At(b, p + 1) = x

LEMMA SiblingRead ==
    ASSUME NEW b \in Buffers, NEW p \in Nat, NEW x \in Octet \ {NUL}, OneLetter(b, p, x),
           NEW q \in Nat, InReach(q), IsPointer(b, p + 2, q),
           NEW t \in Names, Label(t) # <<>>, IsName6At(b, q, t),
           Len(Canonical[t]) + 2 <= HOST_NAME_SIZE
    PROVE  Reads6(b, p, <<x, Dot>> \o Canonical[t], 4)
<1> DEFINE c == Canonical[t]
           s == <<x>>
           d == <<Dot>>
<1>1. /\ 0 \in Nat /\ -1 \in Int /\ 2 \in Nat /\ 2 + 2 = 4
      /\ p + 1 \in Nat /\ p + 2 \in Nat /\ p + 1 + 1 = p + 2 /\ 0 + 1 + 1 = 2
  OBVIOUS
<1>2. IsCompressed(b, p + 2) /\ Offset(b, p + 2) = q
  BY <1>1, PointerIs
<1>3. c \in Names /\ Len(c) \in Nat /\ NoneIs(c, NUL)
  BY CanonicalText
<1>4. FindsAt(b, p + 2, 2, -1, c, 2 + 2)
  <2>1. 2 + Len(c) <= HOST_NAME_SIZE
    <3>1. HOST_NAME_SIZE \in Nat
      BY SizeAssumption
    <3> HIDE DEF c
    <3>2. Len(c) + 2 <= HOST_NAME_SIZE
      BY DEF c
    <3> QED BY <1>3, <3>1, <3>2
  <2> QED BY <1>1, <1>2, <2>1, PointerFound, Zenon
<1>5. At(b, p) = 1 /\ At(b, p + 1) = x
  BY DEF OneLetter
<1>6. ~IsCompressed(b, p) /\ At(b, p) # NUL
  BY <1>5 DEF IsCompressed, NUL
<1>7. Turns(b, p, 0, -1, p, 1, -1)
  BY <1>1, <1>5, <1>6, TurnIs, Zenon
<1>8. 0 <= HOST_NAME_SIZE
  BY SizeAssumption
<1>9. FindsAt(b, p + 1 + 1, 0 + 1 + 1, -1, c, 4)
  BY <1>1, <1>4, Zenon
<1>10. FindsAt(b, p, 0, -1, LabelText(b, p + 1, 1) \o c, 4)
  <2> HIDE DEF c
  <2> QED BY <1>1, <1>6, <1>7, <1>8, <1>9, FindsMore, Zenon
<1>11. s \in Names /\ d \in Names /\ Len(s) = 1 /\ s[1] = x /\ NoneIs(s, NUL)
  BY DEF Names, Dot, Octet, NoneIs
<1>12. LabelText(b, p + 1, 1) = s \o d
  <2>1. Octets(b, p + 1, 1) = s
    <3>1. Octets(b, p + 1, 1) = [j \in 1 .. 1 |-> At(b, p + 1 + j - 1)]
      BY DEF Octets
    <3>2. \A j \in 1 .. 1 : At(b, p + 1 + j - 1) = s[j]
      <4>1. \A j \in 1 .. 1 : j = 1 /\ p + 1 + j - 1 = p + 1
        OBVIOUS
      <4> QED BY <1>5, <1>11, <4>1
    <3>3. s = [j \in 1 .. 1 |-> s[j]]
      BY <1>11
    <3> HIDE DEF s
    <3> QED BY <3>1, <3>2, <3>3
  <2>2. NUL \notin ToSet(s)
    <3> HIDE DEF s
    <3> QED BY <1>11, CharOf DEF NoneIs, Names
  <2>3. strncpy(s) = s
    BY <2>2, Zenon DEF strncpy
  <2> QED BY <2>1, <2>3, Zenon DEF LabelText
<1>13. s \o d = <<x, Dot>>
  <2>1. x \in Octet /\ Dot \in Octet
    BY DEF Dot, Octet
  <2> QED BY <2>1, TwoJoin, Zenon
<1>14. NoneIs(<<x, Dot>> \o c, NUL) /\ <<x, Dot>> \o c \in Names
  <2> DEFINE sd == <<x, Dot>>
  <2>1. sd \in Names /\ NoneIs(sd, NUL)
    BY DEF Names, Dot, Octet, NoneIs, NUL
  <2> HIDE DEF sd, c
  <2>2. NoneIs(sd \o c, NUL) /\ sd \o c \in Names
    BY <1>3, <2>1, NoneOfBoth, NamesJoin, Zenon
  <2> QED BY <2>2 DEF sd
<1>15. FindsAt(b, p, 0, -1, <<x, Dot>> \o c, 4)
  BY <1>10, <1>12, <1>13, Zenon
<1> QED BY <1>14, <1>15, FoundIsRead, Zenon

-----------------------------------------------------------------------------
\* The end of a name, from one of its labels on, is a name where it lies.

StartsLabel(c, k) == k \in 1 .. Len(c) /\ (k = 1 \/ c[k - 1] = Dot)

IsEnding(b, p, t, k, u) ==
    /\ u \in Names /\ Label(u) # <<>> /\ IsName6At(b, p + k - 1, u)
    /\ Canonical[u] = SubSeq(Canonical[t], k, Len(Canonical[t]))
    /\ Len(Canonical[u]) <= Len(Canonical[t])

Endings(b, t) ==
    \A p \in Nat, k \in Nat :
        IsName6At(b, p, t) /\ StartsLabel(Canonical[t], k) => \E u : IsEnding(b, p, t, k, u)

LEMMA EndingsAre ==
    ASSUME NEW b \in Buffers
    PROVE  \A t \in Names : Endings(b, t)
<1> DEFINE P == {t \in Names : Endings(b, t)}
<1>1. ASSUME NEW t \in Names, Label(t) # <<>> => Rest(t) \in P
      PROVE  t \in P
  <2> SUFFICES ASSUME NEW p \in Nat, NEW k \in Nat, IsName6At(b, p, t),
                      StartsLabel(Canonical[t], k)
               PROVE  \E u : IsEnding(b, p, t, k, u)
    BY Zenon DEF Endings
  <2>1. Label(t) # <<>>
    <3> SUFFICES ASSUME Label(t) = <<>> PROVE FALSE
      OBVIOUS
    <3>1. Canonical[t] = <<>> /\ Len(<<>>) = 0
      BY NoMoreLabels
    <3> QED BY <3>1 DEF StartsLabel
  <2> DEFINE n == Len(Label(t))
             r == Rest(t)
             c == Canonical[r]
             a == Label(t)
             ct == Canonical[t]
             d == <<Dot>>
  <2>2. FirstIs(b, p, t)
    BY <2>1, LabelAt6, Zenon
  <2>3. /\ IsName6At(b, p + n + 1, r) /\ ct = a \o d \o c
        /\ Len(ct) = n + 1 + Len(c)
        /\ n \in Nat /\ Len(c) \in Nat
    BY <2>2, Zenon DEF FirstIs
  <2>4. a \in Seq(Octet) /\ r \in Names /\ Dot \notin ToSet(a)
    BY NameSplits DEF Splits, Names
  <2>5. c \in Seq(Octet) /\ ct \in Seq(Octet) /\ d \in Seq(Octet) /\ Len(d) = 1
    BY <2>4, CanonicalIs DEF Writes, Names, Dot, Octet
  <2>6. Endings(b, r)
    BY <1>1, <2>1
  <2>7. k \in 1 .. Len(ct) /\ (k = 1 \/ ct[k - 1] = Dot)
    BY DEF StartsLabel
  <2>8. CASE k = 1
    <3>1. SubSeq(ct, 1, Len(ct)) = ct
      <4> HIDE DEF ct
      <4> QED BY <2>5
    <3>2. p + 1 - 1 = p /\ Len(ct) <= Len(ct)
      BY <2>3
    <3>3. IsEnding(b, p, t, k, t)
      BY <2>1, <2>8, <3>1, <3>2 DEF IsEnding
    <3> QED BY <3>3
  <2>9. CASE k # 1
    <3> DEFINE ad == a \o d
               i == k - n - 1
               m == Len(c)
    <3>1. ad \in Seq(Octet) /\ Len(ad) = n + 1 /\ \A j \in 1 .. n : ad[j] = a[j]
      BY <2>3, <2>4, <2>5, ConcatProperties
    <3>2. /\ \A j \in 1 .. n + 1 : ct[j] = ad[j]
          /\ \A j \in 1 .. m : ct[n + 1 + j] = c[j]
      <4> HIDE DEF ad, n, m, c, ct, d
      <4>0. ct = ad \o c
        BY <2>3 DEF ad
      <4>7. ad \in Seq(Octet) /\ c \in Seq(Octet) /\ Len(ad) = n + 1
        BY <2>5, <3>1
      <4>8. \A j \in 1 .. Len(ad) + Len(c) :
               (ad \o c)[j] = IF j <= Len(ad) THEN ad[j] ELSE c[j - Len(ad)]
        BY <4>7, ConcatProperties
      <4>1. \A j \in 1 .. Len(ad) + Len(c) : ct[j] = IF j <= Len(ad) THEN ad[j] ELSE c[j - Len(ad)]
        BY <4>0, <4>8, Zenon
      <4>2. \A j \in 1 .. n + 1 + m : ct[j] = IF j <= n + 1 THEN ad[j] ELSE c[j - (n + 1)]
        BY <4>7, <4>1, Zenon DEF m
      <4>3. m \in Nat /\ n \in Nat
        BY <2>3 DEF m
      <4> HIDE <4>0, <4>1
      <4>4. \A j \in 1 .. m : n + 1 + j \in 1 .. n + 1 + m /\ ~(n + 1 + j <= n + 1) /\ n + 1 + j - (n + 1) = j
        BY <4>3
      <4>5. \A j \in 1 .. n + 1 : j \in 1 .. n + 1 + m
        BY <4>3
      <4>6. \A j \in 1 .. n + 1 : ct[j] = ad[j]
        BY <4>2, <4>5
      <4>9. ASSUME NEW j \in 1 .. m PROVE ct[n + 1 + j] = c[j]
        <5>1. PICK x \in Nat : x = n + 1 + j
          BY <4>3
        <5>2. x \in 1 .. n + 1 + m /\ ~(x <= n + 1) /\ x - (n + 1) = j
          BY <4>3, <5>1
        <5>3. ct[x] = c[x - (n + 1)]
          BY <4>2, <5>2, Zenon
        <5> QED BY <5>1, <5>2, <5>3, Zenon
      <4> QED BY <4>6, <4>9
    <3>3. \A j \in 1 .. n : ct[j] # Dot
      <4>1. \A j \in 1 .. n : a[j] # Dot
        BY <2>4, CharOf
      <4>2. \A j \in 1 .. n : j \in 1 .. n + 1
        BY <2>3
      <4> HIDE DEF ct, a, ad, n
      <4> QED BY <3>1, <3>2, <4>1, <4>2
    <3> HIDE DEF ad, n, m, c, ct, d, a
    <3>4. /\ m \in Nat /\ n \in Nat /\ Len(ct) = n + 1 + m /\ k \in 2 .. n + 1 + m
          /\ ct[k - 1] = Dot
      <4>1. m \in Nat /\ n \in Nat /\ Len(ct) = n + 1 + m
        BY <2>3 DEF m
      <4> QED BY <2>7, <2>9, <4>1
    <3>5. k - 1 >= n + 1
      <4> SUFFICES ASSUME k - 1 <= n PROVE FALSE
        BY <3>4
      <4>1. k - 1 \in 1 .. n
        BY <3>4
      <4> QED BY <3>3, <3>4, <4>1
    <3>6. i \in 1 .. m /\ i \in Nat /\ (i # 1 => i - 1 \in 1 .. m /\ n + 1 + (i - 1) = k - 1)
      BY <3>4, <3>5
    <3>7. p + n + 1 \in Nat /\ p + n + 1 + i - 1 = p + k - 1
      BY <3>4
    <3> HIDE DEF i
    <3>8. StartsLabel(c, i)
      <4>1. i = 1 \/ c[i - 1] = Dot
        BY <3>2, <3>4, <3>6
      <4> QED BY <3>6, <4>1 DEF StartsLabel, m
    <3>9. PICK u : IsEnding(b, p + n + 1, r, i, u)
      BY <2>3, <2>6, <3>6, <3>7, <3>8, Zenon DEF Endings, c
    <3>10. /\ u \in Names /\ Label(u) # <<>> /\ IsName6At(b, p + n + 1 + i - 1, u)
           /\ Canonical[u] = SubSeq(c, i, m) /\ Len(Canonical[u]) <= m
      BY <3>9, Zenon DEF IsEnding, c, m
    <3>11. SubSeq(c, i, m) = SubSeq(ct, k, Len(ct))
      <4> DEFINE x == SubSeq(c, i, m)
                 y == SubSeq(ct, k, Len(ct))
      <4>1. /\ x \in Seq(Octet) /\ Len(x) = m - i + 1
            /\ \A j \in 1 .. m - i + 1 : x[j] = c[i + j - 1]
        <5>1. i \in Nat \ {0} /\ m \in 0 .. Len(c) /\ i <= m + 1
          BY <3>4, <3>6 DEF m
        <5> QED BY <2>5, <5>1, Part
      <4>2. /\ y \in Seq(Octet) /\ Len(y) = m - i + 1
            /\ \A j \in 1 .. m - i + 1 : y[j] = ct[k + j - 1]
        <5>1. k \in Nat \ {0} /\ Len(ct) \in 0 .. Len(ct) /\ k <= Len(ct) + 1
              /\ Len(ct) - k + 1 = m - i + 1
          BY <3>4 DEF i
        <5>2. /\ y \in Seq(Octet) /\ Len(y) = Len(ct) - k + 1
              /\ \A j \in 1 .. Len(ct) - k + 1 : y[j] = ct[k + j - 1]
          BY <2>5, <5>1, Part
        <5> QED BY <5>1, <5>2
      <4> HIDE DEF x, y
      <4>3. \A j \in 1 .. m - i + 1 : i + j - 1 \in 1 .. m /\ n + 1 + (i + j - 1) = k + j - 1
        BY <3>4, <3>6 DEF i
      <4>4. \A j \in 1 .. Len(x) : x[j] = y[j]
        BY <3>2, <4>1, <4>2, <4>3, ZenonT(40)
      <4>5. x = y
        BY <4>1, <4>2, <4>4, SameText
      <4> QED BY <4>5 DEF x, y
    <3>12. m <= Len(ct)
      BY <3>4
    <3>13. Len(Canonical[u]) <= Len(ct)
      <4>1. Canonical[u] \in Names
        BY <3>10, CanonicalIs DEF Writes
      <4>2. Len(Canonical[u]) \in Nat
        BY <4>1 DEF Names
      <4>3. Len(Canonical[u]) <= m
        BY <3>10, Zenon
      <4>4. m \in Nat /\ Len(ct) \in Nat
        BY <3>4
      <4>5. \A x, y, z \in Nat : x <= y /\ y <= z => x <= z
        OBVIOUS
      <4> QED BY <3>12, <4>2, <4>3, <4>4, <4>5, Zenon
    <3>14. IsEnding(b, p, t, k, u)
      BY <3>7, <3>10, <3>11, <3>13, Zenon DEF IsEnding, ct
    <3> QED BY <3>14
  <2> QED BY <2>8, <2>9
<1>2. \A t \in Names : t \in P
  <2> HIDE DEF P
  <2>1. \A t \in Names : (Label(t) # <<>> => Rest(t) \in P) => t \in P
    BY <1>1
  <2> QED BY <2>1, AllNames, Zenon
<1> QED BY <1>2

-----------------------------------------------------------------------------
\* The messages of TD6.

\* What a record's fields are.
IsRecord(r, name, type, rdata) ==
    /\ r \in Names /\ Len(r) = Len(name) + 10 + Len(rdata)
    /\ Lies(r, 0, name)
    /\ Lies(r, Len(name), U16(type))
    /\ Lies(r, Len(name) + 8, U16(Len(rdata)))
    /\ Lies(r, Len(name) + 10, rdata)

LEMMA RecordIs ==
    ASSUME NEW name \in Names, NEW type \in Octet, NEW rdata \in Names, Len(rdata) \in Octet
    PROVE  IsRecord(Record(name, type, rdata), name, type, rdata)
<1> DEFINE p1 == U16(type)
           p2 == U16(CLASS_IN)
           p3 == <<0, 0>>
           p4 == U16(TTL)
           p5 == U16(Len(rdata))
           s2 == p1 \o p2
           s3 == s2 \o p3
           s4 == s3 \o p4
           s5 == s4 \o p5
           s6 == s5 \o rdata
           r == name \o s6
           n == Len(name)
<1>1. CLASS_IN \in Octet /\ TTL \in Octet /\ 0 \in Octet
  BY DEF CLASS_IN, TTL, Octet
<1>2. p1 \in Names /\ Len(p1) = 2
  BY SmallFields, Zenon
<1>3. p2 \in Names /\ Len(p2) = 2
  BY <1>1, SmallFields, Zenon
<1>4. p3 \in Names /\ Len(p3) = 2
  BY <1>1, TwoOctets, Zenon
<1>5. p4 \in Names /\ Len(p4) = 2
  BY <1>1, SmallFields, Zenon
<1>6. p5 \in Names /\ Len(p5) = 2
  BY SmallFields, Zenon
<1>7. Record(name, type, rdata) = name \o p1 \o p2 \o p3 \o p4 \o p5 \o rdata
  BY Zenon DEF Record
<1> HIDE DEF p1, p2, p3, p4, p5
<1>8. s2 \in Names /\ s3 \in Names /\ s4 \in Names /\ s5 \in Names /\ s6 \in Names
  <2>1. s2 \in Names
    BY <1>2, <1>3, NamesJoin, Zenon
  <2>2. s3 \in Names
    BY <1>4, <2>1, NamesJoin, Zenon
  <2>3. s4 \in Names
    BY <1>5, <2>2, NamesJoin, Zenon
  <2>4. s5 \in Names
    BY <1>6, <2>3, NamesJoin, Zenon
  <2>5. s6 \in Names
    BY <2>4, NamesJoin, Zenon
  <2> QED BY <2>1, <2>2, <2>3, <2>4, <2>5
<1>9. name \o p1 \o p2 \o p3 \o p4 \o p5 \o rdata = r
  <2> HIDE DEF s2, s3, s4, s5, s6
  <2>0. \A x, y, z \in Names : (x \o y) \o z = x \o (y \o z)
    BY TextsAssociate DEF Names
  <2>1. (name \o p1) \o p2 = name \o s2
    <3>1. p1 \in Names /\ p2 \in Names
      BY <1>2, <1>3
    <3>2. (name \o p1) \o p2 = name \o (p1 \o p2)
      BY <2>0, <3>1, Zenon
    <3> QED BY <3>2, Zenon DEF s2
  <2>2. (name \o s2) \o p3 = name \o s3
    <3>1. s2 \in Names /\ p3 \in Names
      BY <1>4, <1>8
    <3>2. (name \o s2) \o p3 = name \o (s2 \o p3)
      BY <2>0, <3>1, Zenon
    <3> QED BY <3>2, Zenon DEF s3
  <2>3. (name \o s3) \o p4 = name \o s4
    <3>1. s3 \in Names /\ p4 \in Names
      BY <1>5, <1>8
    <3>2. (name \o s3) \o p4 = name \o (s3 \o p4)
      BY <2>0, <3>1, Zenon
    <3> QED BY <3>2, Zenon DEF s4
  <2>4. (name \o s4) \o p5 = name \o s5
    <3>1. s4 \in Names /\ p5 \in Names
      BY <1>6, <1>8
    <3>2. (name \o s4) \o p5 = name \o (s4 \o p5)
      BY <2>0, <3>1, Zenon
    <3> QED BY <3>2, Zenon DEF s5
  <2>5. (name \o s5) \o rdata = name \o s6
    <3>1. s5 \in Names /\ rdata \in Names
      BY <1>8
    <3>2. (name \o s5) \o rdata = name \o (s5 \o rdata)
      BY <2>0, <3>1, Zenon
    <3> QED BY <3>2, Zenon DEF s6
  <2> QED BY <2>1, <2>2, <2>3, <2>4, <2>5, Zenon
<1>10. AreFields(s6, p1, p3, p4, p5, rdata)
  BY <1>2, <1>3, <1>4, <1>5, <1>6, SixFields, Zenon DEF s2, s3, s4, s5, s6
<1> HIDE DEF s6, r
<1>11. Len(s6) = 10 + Len(rdata) /\ Lies(s6, 0, p1) /\ Lies(s6, 8, p5) /\ Lies(s6, 10, rdata)
  BY <1>10 DEF AreFields
<1>12. r \in Names /\ Len(r) = Len(name) + Len(s6) /\ Len(name) \in Nat
  BY <1>8, NamesJoin, Zenon DEF r
<1> HIDE DEF n
<1>13. Lies(r, 0, name) /\ Lies(r, n, s6)
  <2>1. 0 \in Nat /\ 0 + Len(name) = Len(name)
    BY <1>12
  <2>2. Lies(r, 0, name \o s6)
    BY <1>12, LiesWhole DEF r
  <2>3. Lies(r, 0, name) /\ Lies(r, 0 + Len(name), s6)
    BY <1>8, <1>12, <2>1, <2>2, LiesPart, Zenon
  <2> QED BY <2>1, <2>3 DEF n
<1>14. n \in Nat /\ 0 \in Nat /\ 8 \in Nat /\ 10 \in Nat /\ n + 0 = n
  BY <1>12 DEF n
<1>15. Lies(r, n + 0, p1)
  BY <1>2, <1>8, <1>11, <1>12, <1>13, <1>14, LiesWithin, Zenon
<1>16. Lies(r, n + 8, p5)
  BY <1>6, <1>8, <1>11, <1>12, <1>13, <1>14, LiesWithin, ZenonT(40)
<1>17. Lies(r, n + 10, rdata)
  BY <1>8, <1>11, <1>12, <1>13, <1>14, LiesWithin, ZenonT(40)
<1>18. Len(r) = Len(name) + 10 + Len(rdata)
  <2>1. Len(rdata) \in Nat
    BY DEF Octet
  <2> QED BY <1>11, <1>12, <2>1
<1>19. IsRecord(r, name, type, rdata)
  BY <1>12, <1>13, <1>14, <1>15, <1>16, <1>17, <1>18 DEF IsRecord, n, p1, p5
<1> QED BY <1>7, <1>9, <1>19

\* A record is read where it lies, behind a name that is read.
LEMMA RecordRead ==
    ASSUME NEW b \in Buffers, NEW p \in Nat, NEW r, NEW name \in Names, NEW type \in Octet,
           NEW rdata \in Names, Len(rdata) \in Octet, IsRecord(r, name, type, rdata),
           Lies(b.data, p, r), NEW text, Reads6(b, p, text, Len(name)), NEW acc
    PROVE  ParseAnswer6(b, [reader |-> p, answers |-> acc]) =
               [reader |-> p + Len(r),
                answers |-> Append(acc, [name |-> text, type |-> type,
                                         rdata |-> IF type = TYPE_A THEN rdata ELSE <<>>])]
<1> DEFINE m == b.data
           n == Len(name)
           x == p + n
           l == Len(rdata)
           parsed == [reader |-> p, answers |-> acc]
           domain == [name |-> text, position |-> n]
<1>1. /\ r \in Names /\ Len(r) = n + 10 + l /\ Lies(r, n, U16(type))
      /\ Lies(r, n + 8, U16(l)) /\ Lies(r, n + 10, rdata)
  BY DEF IsRecord
<1>2. m \in Names
  BY DEF Buffers
<1>3. n \in Nat /\ l \in Nat /\ n + 8 \in Nat /\ n + 10 \in Nat
  BY DEF Names
<1>4. U16(type) \in Names /\ U16(l) \in Names
  BY SmallFields, Zenon
<1> HIDE DEF m, n, l
<1>5. x \in Nat /\ x + 8 \in Nat /\ x + 10 \in Nat /\ p + (n + 8) = x + 8 /\ p + (n + 10) = x + 10
  BY <1>3
<1>6. Lies(m, p, r)
  BY DEF m
<1>7. Lies(m, p + n, U16(type))
  BY <1>1, <1>2, <1>3, <1>4, <1>6, LiesWithin, Zenon
<1>8. Lies(m, p + (n + 8), U16(l))
  BY <1>1, <1>2, <1>3, <1>4, <1>6, LiesWithin, Zenon
<1>9. Lies(m, p + (n + 10), rdata)
  BY <1>1, <1>2, <1>3, <1>4, <1>6, LiesWithin, Zenon
<1>10. type \in Nat /\ type \div 256 \in Octet /\ l \div 256 \in Octet
  BY SmallFields, ZenonT(40) DEF l
<1> HIDE DEF parsed, domain
<1>11. Word(b, x) = type
  <2> HIDE DEF x
  <2>1. Lies(b.data, x, U16(type))
    BY <1>7 DEF m, x
  <2> QED BY <1>5, <1>10, <2>1, ReadWord, Zenon
<1>12. Word(b, x + 8) = l
  <2>1. Lies(b.data, x + 8, U16(l))
    BY <1>5, <1>8, Zenon DEF m
  <2> HIDE DEF x
  <2> QED BY <1>3, <1>5, <1>10, <2>1, ReadWord, Zenon
<1>13. Octets(b, x + 10, l) = rdata
  <2>1. Lies(b.data, x + 10, rdata)
    BY <1>5, <1>9, Zenon DEF m
  <2> HIDE DEF x
  <2> QED BY <1>5, <2>1, ReadOctets, Zenon DEF l
<1>14. get_domain_name6(b, p) = domain
  BY Zenon DEF Reads6, domain, n
<1>15. ParseAnswer6(b, parsed) = StoreAnswer(b, parsed, domain)
  <2>1. parsed.reader = p
    BY DEF parsed
  <2> QED BY <1>14, <2>1, Zenon DEF ParseAnswer6
<1>16. parsed.reader + domain.position = x /\ domain.name = text /\ parsed.answers = acc
  BY DEF parsed, domain
<1> HIDE DEF x
<1>17. StoreAnswer(b, parsed, domain) =
          [reader |-> x + 10 + l,
           answers |-> Append(acc, [name |-> text, type |-> type,
                                    rdata |-> IF type = TYPE_A THEN rdata ELSE <<>>])]
  BY <1>11, <1>12, <1>13, <1>16, Zenon DEF StoreAnswer
<1>18. x + 10 + l = p + Len(r)
  BY <1>1, <1>3 DEF x
<1> QED BY <1>15, <1>17, <1>18, Zenon DEF parsed

\* The header of TD6: its identifier, one question, and the number of its answers.
IsHeader6(h, id, an) ==
    /\ h \in Names /\ Len(h) = 12
    /\ Lies(h, 0, U16(id)) /\ Lies(h, 4, U16(1)) /\ Lies(h, 6, U16(an))

LEMMA HeaderIs6 ==
    ASSUME NEW id \in Nat, id \div 256 \in Octet, NEW query \in Nat, NEW an \in Octet
    PROVE  IsHeader6(dns_header6(id, query, 1, an, 0, 0), id, an)
<1> DEFINE x == 128 * (query % 2) + 1
           p1 == U16(id)
           p2 == <<x, 0>>
           u0 == U16(0)
           u1 == U16(1)
           un == U16(an)
           h == dns_header6(id, query, 1, an, 0, 0)
<1>1. x \in Octet
  <2>1. query % 2 \in 0 .. 1
    OBVIOUS
  <2>2. \A y \in 0 .. 1 : 128 * y + 1 \in Octet
    BY DEF Octet
  <2> QED BY <2>1, <2>2
<1> HIDE DEF x
<1>2. 0 \in Octet /\ 1 \in Octet
  BY DEF Octet
<1>3. p1 \in Names /\ Len(p1) = 2
  BY FieldType
<1>4. p2 \in Names /\ Len(p2) = 2
  BY <1>1, <1>2, TwoOctets
<1>5. u0 \in Names /\ Len(u0) = 2 /\ u1 \in Names /\ Len(u1) = 2 /\ un \in Names /\ Len(un) = 2
  BY <1>2, SmallFields
<1>6. h = p1 \o p2 \o u1 \o un \o u0 \o u0
  BY Zenon DEF dns_header6, Flags6, x
<1> HIDE DEF p1, p2, u0, u1, un, h
<1>7. AreFields(h, p1, u1, un, u0, u0)
  BY <1>3, <1>4, <1>5, <1>6, SixFields, Zenon
<1>8. h \in Names /\ Len(h) = 12 /\ Lies(h, 0, p1) /\ Lies(h, 4, u1) /\ Lies(h, 6, un)
  BY <1>5, <1>7 DEF AreFields
<1> QED BY <1>8 DEF IsHeader6, h, p1, u1, un

\* The names that TD6's library can carry.
CanBeSent6(t) ==
    /\ LabelsFit(t, 191) /\ Len(Canonical[t]) < HOST_NAME_SIZE - 2 /\ NoneIs(t, NUL)

LEMMA SentByBoth ==
    ASSUME NEW t \in Names, CanBeSent6(t)
    PROVE  CanBeSent(t) /\ LabelsFit(t, 255)
<1> DEFINE n == Len(t)
<1>1. n \in Nat
  BY DEF Names
<1>2. LabelsFit(t, 255)
  <2>1. \A k \in 192 .. n : \E j \in k - 191 .. k : t[j] = Dot
    BY DEF CanBeSent6, LabelsFit
  <2> HIDE DEF n
  <2>2. ASSUME NEW k \in 256 .. n PROVE \E j \in k - 255 .. k : t[j] = Dot
    <3>1. k \in 192 .. n
      BY <1>1
    <3>2. PICK j \in k - 191 .. k : t[j] = Dot
      BY <2>1, <3>1
    <3>3. j \in k - 255 .. k
      BY <1>1, <3>1
    <3> QED BY <3>2, <3>3
  <2> QED BY <2>2 DEF LabelsFit, n
<1>3. Len(Label(t)) <= 191
  BY NameSplits DEF Splits, CanBeSent6
<1>4. Len(Canonical[t]) < HOST_NAME_SIZE
  <2>1. Canonical[t] \in Names
    BY CanonicalIs DEF Writes
  <2>2. Len(Canonical[t]) \in Nat
    BY <2>1 DEF Names
  <2>3. Len(Canonical[t]) < HOST_NAME_SIZE - 2
    BY DEF CanBeSent6
  <2> QED BY <2>2, <2>3, SizeAssumption
<1> QED BY <1>2, <1>3, <1>4 DEF CanBeSent, Readable, CanBeSent6

\* The section for a name, with its terminator.
LEMMA SectionIs6 ==
    ASSUME NEW t \in Names, CanBeSent6(t)
    PROVE  /\ NameSection6(t) = Encoded[t] \o <<NUL>>
           /\ NameSection6(t) \in Names
           /\ Len(NameSection6(t)) = Len(Canonical[t]) + 1
           /\ Encoded[t] \in Names /\ <<NUL>> \in Names
           /\ Len(Encoded[t]) = Len(Canonical[t]) /\ Len(Canonical[t]) \in Nat
<1> DEFINE e == Encoded[t]
           z == <<NUL>>
<1>1. CanBeSent(t)
  BY SentByBoth
<1>2. NameSection(t) = e /\ e \in Names /\ Len(e) \in Nat /\ Len(e) = Len(Canonical[t])
  BY <1>1, SectionIs
<1>3. NameSection6(t) = NameSection(t) \o z
  BY Zenon DEF NameSection6, NameSection, get_dns_name6
<1>4. z \in Names /\ Len(z) = 1
  BY DEF Names, NUL, Octet
<1> HIDE DEF e, z
<1>5. e \o z \in Names /\ Len(e \o z) = Len(e) + Len(z)
  BY <1>2, <1>4, NamesJoin, Zenon
<1> QED BY <1>2, <1>3, <1>4, <1>5 DEF e, z

\* Where a section lies, the name can be read.
LEMMA SectionLies ==
    ASSUME NEW b \in Buffers, NEW p \in Nat, NEW t \in Names, CanBeSent6(t),
           Lies(b.data, p, NameSection6(t))
    PROVE  IsName6At(b, p, t)
<1> DEFINE m == b.data
           e == Encoded[t]
           z == <<NUL>>
           k == Len(e)
<1>1. NameSection6(t) = e \o z /\ e \in Names /\ z \in Names /\ k \in Nat
  BY SectionIs6
<1>2. m \in Names /\ Len(z) = 1 /\ z[1] = NUL
  BY DEF Buffers
<1> HIDE DEF m, e, z
<1>3. Lies(m, p, e \o z)
  BY <1>1 DEF m
<1>4. Lies(m, p, e) /\ Lies(m, p + Len(e), z)
  BY <1>1, <1>2, <1>3, LiesPart, Zenon
<1> DEFINE q == p + k
<1>5. q \in Nat /\ q + 1 - 1 = q /\ 1 \in 1 .. 1
  BY <1>1
<1>6. Lies(b.data, q, z)
  BY <1>4 DEF m, k
<1> HIDE DEF q, k
<1>7. \A j \in 1 .. Len(z) : At(b, q + j - 1) = z[j]
  BY <1>1, <1>5, <1>6, ReadAt, Zenon
<1>8. At(b, q) = NUL
  BY <1>2, <1>5, <1>7
<1>9. NoneIs(t, NUL) /\ LabelsFit(t, 255) /\ LabelsFit(t, 191)
  BY SentByBoth DEF CanBeSent6
<1> QED BY <1>4, <1>8, <1>9 DEF IsName6At, IsNameAt, q, k, e, m

\* A message that asks for a name, up to the end of the question.
Asks6(h, s, q) == h \o s \o q

\* What a reader finds there.
IsQuestion6(b, id, an, t) ==
    /\ Word(b, 0) = id /\ qd_count(b) = 1 /\ an_count(b) = an
    /\ IsName6At(b, 12, t)
    /\ Word(b, 13 + Len(Canonical[t])) = TYPE_A
    /\ Word(b, 15 + Len(Canonical[t])) = CLASS_IN

QuestionSize6(q, t) == q \in Names /\ Len(q) = 17 + Len(Canonical[t])

LEMMA AsksType ==
    ASSUME NEW t \in Names, CanBeSent6(t), NEW h \in Names, Len(h) = 12
    PROVE  QuestionSize6(Asks6(h, NameSection6(t), Question), t)
<1> DEFINE s == NameSection6(t)
           q == Question
           k == Len(Canonical[t])
           hs == h \o s
<1>1. s \in Names /\ Len(s) = k + 1 /\ k \in Nat
  BY SectionIs6
<1>2. q \in Names /\ Len(q) = 4
  BY QuestionIs
<1> HIDE DEF s, q, k
<1>3. hs \in Names /\ Len(hs) = Len(h) + Len(s)
  BY <1>1, NamesJoin, Zenon
<1> HIDE DEF hs
<1>4. hs \o q \in Names /\ Len(hs \o q) = Len(hs) + Len(q)
  BY <1>2, <1>3, NamesJoin, Zenon
<1>5. Len(hs \o q) = 17 + k
  BY <1>1, <1>2, <1>3, <1>4
<1> QED BY <1>4, <1>5 DEF Asks6, QuestionSize6, hs, s, q, k

LEMMA QuestionRead6 ==
    ASSUME NEW b \in Buffers, NEW t \in Names, CanBeSent6(t),
           NEW id \in Nat, id \div 256 \in Octet, NEW an \in Octet,
           NEW h, IsHeader6(h, id, an),
           Lies(b.data, 0, Asks6(h, NameSection6(t), Question))
    PROVE  IsQuestion6(b, id, an, t)
<1> DEFINE m == b.data
           s == NameSection6(t)
           q == Question
           k == Len(Canonical[t])
           hs == h \o s
           ta == U16(TYPE_A)
           ci == U16(CLASS_IN)
<1>1. m \in Names
  BY DEF Buffers
<1>2. s \in Names /\ Len(s) = k + 1 /\ k \in Nat
  BY SectionIs6
<1>3. q \in Names /\ Len(q) = 4 /\ q = ta \o ci /\ ta \in Names /\ Len(ta) = 2 /\ ci \in Names
  BY QuestionIs
<1>4. h \in Names /\ Len(h) = 12 /\ Lies(h, 0, U16(id)) /\ Lies(h, 4, U16(1)) /\ Lies(h, 6, U16(an))
  BY DEF IsHeader6
<1> HIDE DEF m, s, q, k, ta, ci
<1>5. hs \in Names /\ Len(hs) = Len(h) + Len(s)
  BY <1>2, <1>4, NamesJoin, Zenon
<1> HIDE DEF hs
<1>6. 0 \in Nat /\ 4 \in Nat /\ 6 \in Nat /\ 12 \in Nat /\ 0 + 4 = 4 /\ 0 + 6 = 6 /\ 0 + 12 = 12 /\ 0 + 0 = 0
  OBVIOUS
<1>7. Lies(m, 0, hs) /\ Lies(m, 0 + Len(hs), q)
  <2>1. Lies(m, 0, hs \o q)
    BY DEF Asks6, m, hs, s, q
  <2> QED BY <1>1, <1>3, <1>5, <1>6, <2>1, LiesPart, Zenon
<1>8. Lies(m, 0, h) /\ Lies(m, 0 + Len(h), s)
  <2>1. Lies(m, 0, h \o s)
    BY <1>7 DEF hs
  <2> QED BY <1>1, <1>2, <1>4, <1>6, <2>1, LiesPart, Zenon
<1>9. IsName6At(b, 12, t)
  <2>1. Lies(b.data, 12, NameSection6(t))
    BY <1>4, <1>6, <1>8, Zenon DEF m, s
  <2> QED BY <1>6, <2>1, SectionLies, Zenon
<1>10. U16(id) \in Names /\ U16(1) \in Names /\ U16(an) \in Names /\ an \in Nat /\ an \div 256 \in Octet
  <2>1. U16(id) \in Names
    BY FieldType
  <2>2. 1 \in Octet
    BY DEF Octet
  <2>3. U16(1) \in Names
    BY <2>2, SmallFields, Zenon
  <2>4. U16(an) \in Names /\ an \in Nat /\ an \div 256 \in Octet
    BY SmallFields, ZenonT(40)
  <2> QED BY <2>1, <2>3, <2>4
<1>19. \A x \in Nat, r \in Names : Lies(h, x, r) => Lies(b.data, x, r)
  <2> SUFFICES ASSUME NEW x \in Nat, NEW r \in Names, Lies(h, x, r) PROVE Lies(b.data, x, r)
    OBVIOUS
  <2>1. h \in Names /\ Lies(m, 0, h)
    BY <1>4, <1>8
  <2>2. Lies(m, 0 + x, r)
    BY <1>1, <1>6, <2>1, LiesWithin, Zenon
  <2>3. 0 + x = x
    OBVIOUS
  <2> QED BY <2>2, <2>3 DEF m
<1>11. Word(b, 0) = id
  <2>1. U16(id) \in Names /\ Lies(h, 0, U16(id))
    BY <1>4, <1>10
  <2>2. Lies(b.data, 0, U16(id))
    BY <1>6, <1>19, <2>1, Zenon
  <2> QED BY <1>6, <2>2, ReadWord, ZenonT(40)
<1>12. qd_count(b) = 1
  <2>1. U16(1) \in Names /\ Lies(h, 4, U16(1))
    BY <1>4, <1>10
  <2>2. Lies(b.data, 4, U16(1))
    BY <1>6, <1>19, <2>1, Zenon
  <2> DEFINE one == 1
  <2>3. one \in Nat /\ one \div 256 \in Octet /\ Lies(b.data, 4, U16(one))
    BY <2>2 DEF Octet
  <2>5. 4 \in Nat
    OBVIOUS
  <2> HIDE DEF one
  <2>4. Word(b, 4) = one
    BY <2>3, <2>5, ReadWord, Zenon
  <2> QED BY <2>4 DEF qd_count, one
<1>13. an_count(b) = an
  <2>1. U16(an) \in Names /\ Lies(h, 6, U16(an))
    BY <1>4, <1>10
  <2>2. Lies(b.data, 6, U16(an))
    BY <1>6, <1>19, <2>1, Zenon
  <2>3. Word(b, 6) = an
    BY <1>6, <1>10, <2>2, ReadWord, ZenonT(40)
  <2> QED BY <2>3 DEF an_count
<1> DEFINE p == 13 + k
           w == 15 + k
<1>14. p \in Nat /\ w \in Nat /\ p + 2 = w /\ 0 + Len(hs) = p
  BY <1>2, <1>4, <1>5
<1> HIDE DEF p, w
<1>15. Lies(m, p, ta) /\ Lies(m, p + Len(ta), ci)
  <2>1. Lies(m, p, ta \o ci)
    BY <1>3, <1>7, <1>14
  <2> QED BY <1>1, <1>3, <1>14, <2>1, LiesPart, Zenon
<1>16. Word(b, p) = TYPE_A
  <2>1. TYPE_A \in Nat /\ TYPE_A \div 256 \in Octet
    BY DEF TYPE_A, Octet
  <2>2. Lies(b.data, p, U16(TYPE_A))
    BY <1>15 DEF m, ta
  <2> QED BY <1>14, <2>1, <2>2, ReadWord, Zenon
<1>17. Word(b, w) = CLASS_IN
  <2>1. CLASS_IN \in Nat /\ CLASS_IN \div 256 \in Octet
    BY DEF CLASS_IN, Octet
  <2>2. Lies(b.data, w, U16(CLASS_IN))
    BY <1>3, <1>14, <1>15 DEF m, ci
  <2> QED BY <1>14, <2>1, <2>2, ReadWord, Zenon
<1> QED BY <1>9, <1>11, <1>12, <1>13, <1>16, <1>17, Zenon DEF IsQuestion6, p, w, k

-----------------------------------------------------------------------------
\* parse_dns_query of TD6.

Nothing6(p) == [reader |-> p, answers |-> <<>>]

AskedOf(b) ==
    CHOOSE asked : asked = [i \in 0 .. qd_count(b) |->
        IF i = 0 THEN [reader |-> 12, queries |-> <<>>] ELSE ParseQuery6(b, asked[i - 1])]

AnsweredOf(b) ==
    CHOOSE answered : answered = [i \in 0 .. an_count(b) |->
        IF i = 0 THEN [reader |-> AskedOf(b)[qd_count(b)].reader, answers |-> <<>>]
        ELSE ParseAnswer6(b, answered[i - 1])]

LEMMA ParseIs6 ==
    ASSUME NEW b
    PROVE  parse_dns_query6(b) =
               [id |-> Identifier(b), queries |-> AskedOf(b)[qd_count(b)].queries,
                answers |-> AnsweredOf(b)[an_count(b)].answers]
  BY Zenon DEF parse_dns_query6, AskedOf, AnsweredOf

\* The loop over the queries, for one.
LEMMA AskedIs ==
    ASSUME NEW b, qd_count(b) = 1
    PROVE  AskedOf(b)[qd_count(b)] = ParseQuery6(b, [reader |-> 12, queries |-> <<>>])
<1> DEFINE x == [reader |-> 12, queries |-> <<>>]
           y == ParseQuery6(b, x)
           f == [i \in 0 .. qd_count(b) |-> IF i = 0 THEN x ELSE y]
           asked == AskedOf(b)
<1>1. \E g : g = [i \in 0 .. qd_count(b) |-> IF i = 0 THEN x ELSE ParseQuery6(b, g[i - 1])]
  <2>1. f = [i \in 0 .. qd_count(b) |-> IF i = 0 THEN x ELSE ParseQuery6(b, f[i - 1])]
    <3>1. \A i \in 0 .. qd_count(b) : i = 0 \/ f[i - 1] = x
      <4> HIDE DEF x, y
      <4> QED OBVIOUS
    <3> HIDE DEF f, x
    <3>2. \A i \in 0 .. qd_count(b) : (IF i = 0 THEN x ELSE y)
                                   = (IF i = 0 THEN x ELSE ParseQuery6(b, f[i - 1]))
      BY <3>1, Zenon
    <3> QED BY <3>2, Zenon DEF f
  <2> QED BY <2>1, Zenon
<1>2. asked = [i \in 0 .. qd_count(b) |-> IF i = 0 THEN x ELSE ParseQuery6(b, asked[i - 1])]
  BY <1>1, Zenon DEF AskedOf
<1> HIDE DEF x, y, f, asked
<1>3. \A i \in 0 .. qd_count(b) : asked[i] = IF i = 0 THEN x ELSE ParseQuery6(b, asked[i - 1])
  BY <1>2, Zenon
<1>4. 0 \in 0 .. qd_count(b) /\ 1 \in 0 .. qd_count(b) /\ 1 # 0 /\ 1 - 1 = 0
  OBVIOUS
<1>5. asked[0] = x
  BY <1>3, <1>4, Zenon
<1>6. asked[1] = ParseQuery6(b, asked[1 - 1])
  BY <1>3, <1>4, Zenon
<1> QED BY <1>4, <1>5, <1>6 DEF asked, x

\* The loop over the answers, for none and for four.
LEMMA AnsweredIs ==
    ASSUME NEW b, NEW p, AskedOf(b)[qd_count(b)].reader = p,
           NEW s1, NEW s2, NEW s3, NEW s4,
           s1 = ParseAnswer6(b, Nothing6(p)), s2 = ParseAnswer6(b, s1),
           s3 = ParseAnswer6(b, s2), s4 = ParseAnswer6(b, s3)
    PROVE  /\ an_count(b) = 0 => AnsweredOf(b)[an_count(b)] = Nothing6(p)
           /\ an_count(b) = 4 => AnsweredOf(b)[an_count(b)] = s4
<1> DEFINE x == Nothing6(p)
           n == an_count(b)
           f == [i \in 0 .. n |-> IF i = 0 THEN x ELSE IF i = 1 THEN s1 ELSE
                                  IF i = 2 THEN s2 ELSE IF i = 3 THEN s3 ELSE s4]
           answered == AnsweredOf(b)
<1> SUFFICES ASSUME n \in {0, 4}
             PROVE  /\ n = 0 => answered[n] = x
                    /\ n = 4 => answered[n] = s4
  OBVIOUS
<1>1. \E g : g = [i \in 0 .. n |-> IF i = 0 THEN x ELSE ParseAnswer6(b, g[i - 1])]
  <2>1. \A i \in 0 .. n : f[i] = IF i = 0 THEN x ELSE ParseAnswer6(b, f[i - 1])
    <3> HIDE DEF x, n
    <3> SUFFICES ASSUME NEW i \in 0 .. n
                 PROVE  f[i] = IF i = 0 THEN x ELSE ParseAnswer6(b, f[i - 1])
      OBVIOUS
    <3>1. i = 0 \/ i = 1 \/ i = 2 \/ i = 3 \/ i = 4
      OBVIOUS
    <3>2. CASE i = 0
      BY <3>2
    <3>3. CASE i = 1
      <4>1. f[i] = s1 /\ f[i - 1] = x
        BY <3>3
      <4> QED BY <3>3, <4>1 DEF x
    <3>4. CASE i = 2
      <4>1. f[i] = s2 /\ f[i - 1] = s1
        BY <3>4
      <4> QED BY <3>4, <4>1
    <3>5. CASE i = 3
      <4>1. f[i] = s3 /\ f[i - 1] = s2
        BY <3>5
      <4> QED BY <3>5, <4>1
    <3>6. CASE i = 4
      <4>1. f[i] = s4 /\ f[i - 1] = s3
        BY <3>6
      <4> QED BY <3>6, <4>1
    <3> HIDE DEF f
    <3> QED BY <3>1, <3>2, <3>3, <3>4, <3>5, <3>6
  <2>2. f = [i \in 0 .. n |-> f[i]]
    BY Zenon
  <2> HIDE DEF f, n, x
  <2>3. f = [i \in 0 .. n |-> IF i = 0 THEN x ELSE ParseAnswer6(b, f[i - 1])]
    BY <2>1, <2>2, Zenon
  <2> QED BY <2>3, Zenon
<1>2. answered = [i \in 0 .. n |-> IF i = 0 THEN x ELSE ParseAnswer6(b, answered[i - 1])]
  BY <1>1, Zenon DEF AnsweredOf, Nothing6
<1> HIDE DEF f, answered, n, x
<1>3. \A i \in 0 .. n : answered[i] = IF i = 0 THEN x ELSE ParseAnswer6(b, answered[i - 1])
  BY <1>2, Zenon
<1>4. answered[0] = x
  <2>1. 0 \in 0 .. n
    OBVIOUS
  <2> QED BY <1>3, <2>1, Zenon
<1>5. n = 4 => answered[4] = s4
  <2> SUFFICES ASSUME n = 4 PROVE answered[4] = s4
    OBVIOUS
  <2>1. \A i \in 1 .. 4 : answered[i] = ParseAnswer6(b, answered[i - 1])
    <3>1. \A i \in 1 .. 4 : i \in 0 .. n /\ i # 0
      OBVIOUS
    <3> QED BY <1>3, <3>1, Zenon
  <2>2. /\ 1 \in 1 .. 4 /\ 2 \in 1 .. 4 /\ 3 \in 1 .. 4 /\ 4 \in 1 .. 4
        /\ 1 - 1 = 0 /\ 2 - 1 = 1 /\ 3 - 1 = 2 /\ 4 - 1 = 3
    OBVIOUS
  <2>3. answered[1] = s1
    <3>1. answered[1] = ParseAnswer6(b, answered[1 - 1])
      BY <2>1, <2>2, Zenon
    <3> QED BY <1>4, <2>2, <3>1 DEF x
  <2>4. answered[2] = s2
    <3>1. answered[2] = ParseAnswer6(b, answered[2 - 1])
      BY <2>1, <2>2, Zenon
    <3> QED BY <2>2, <2>3, <3>1
  <2>5. answered[3] = s3
    <3>1. answered[3] = ParseAnswer6(b, answered[3 - 1])
      BY <2>1, <2>2, Zenon
    <3> QED BY <2>2, <2>4, <3>1
  <2>6. answered[4] = ParseAnswer6(b, answered[4 - 1])
    BY <2>1, <2>2, Zenon
  <2> QED BY <2>2, <2>5, <2>6
<1> QED BY <1>4, <1>5

\* What parse_dns_query finds in the question, and where it goes on.
QuestionIsParsed6(b, t) ==
    AskedOf(b)[qd_count(b)] =
        [reader |-> 17 + Len(Canonical[t]),
         queries |-> <<[qname |-> Canonical[t], qtype |-> TYPE_A, qclass |-> CLASS_IN]>>]

LEMMA QuestionParsed6 ==
    ASSUME NEW b \in Buffers, NEW t \in Names, CanBeSent6(t), NEW id, NEW an,
           IsQuestion6(b, id, an, t)
    PROVE  QuestionIsParsed6(b, t)
<1> DEFINE c == Canonical[t]
           k == Len(c)
           parsed == [reader |-> 12, queries |-> <<>>]
           domain == [name |-> c, position |-> k + 1]
           p == 13 + k
<1>1. /\ qd_count(b) = 1 /\ IsName6At(b, 12, t)
      /\ Word(b, p) = TYPE_A /\ Word(b, 15 + k) = CLASS_IN
  BY DEF IsQuestion6
<1>2. k \in Nat /\ k <= HOST_NAME_SIZE
  <2>1. k \in Nat
    BY SectionIs6
  <2>2. k < HOST_NAME_SIZE - 2
    BY DEF CanBeSent6
  <2> HIDE DEF k
  <2> QED BY <2>1, <2>2, SizeAssumption
<1>3. get_domain_name6(b, 12) = domain
  <2>1. 12 \in Nat
    OBVIOUS
  <2>2. Reads6(b, 12, c, k + 1)
    BY <1>1, <1>2, <2>1, WrittenRead, Zenon
  <2> QED BY <2>2, Zenon DEF Reads6
<1>4. p \in Nat /\ 12 + (k + 1) = p /\ p + 2 = 15 + k /\ p + 4 = 17 + k
  BY <1>2
<1> HIDE DEF parsed, domain, c, k, p
<1>5. parsed.reader = 12 /\ parsed.queries = <<>> /\ domain.name = c /\ domain.position = k + 1
  BY DEF parsed, domain
<1>6. 12 + domain.position = p
  BY <1>4, <1>5
<1>7. ParseQuery6(b, parsed) =
          [reader |-> p + 4,
           queries |-> Append(<<>>, [qname |-> c, qtype |-> Word(b, p), qclass |-> Word(b, p + 2)])]
  BY <1>3, <1>5, <1>6, Zenon DEF ParseQuery6
<1>8. \A e : Append(<<>>, e) = <<e>>
  OBVIOUS
<1>9. ParseQuery6(b, parsed) =
          [reader |-> 17 + k,
           queries |-> <<[qname |-> c, qtype |-> TYPE_A, qclass |-> CLASS_IN]>>]
  BY <1>1, <1>4, <1>7, <1>8, Zenon
<1>10. AskedOf(b)[qd_count(b)] = ParseQuery6(b, parsed)
  BY <1>1, AskedIs, Zenon DEF parsed
<1> QED BY <1>9, <1>10, Zenon DEF QuestionIsParsed6, c, k

\* What a message that was sent is read as.
QueryIsRead6(b, id, t) ==
    /\ parse_dns_query6(b).id = id
    /\ parse_dns_query6(b).queries =
           <<[qname |-> Canonical[t], qtype |-> TYPE_A, qclass |-> CLASS_IN]>>
    /\ parse_dns_query6(b).answers = <<>>

LEMMA QueryRead6 ==
    ASSUME NEW id \in Nat, id \div 256 \in Octet, NEW fill \in Octet,
           NEW t \in Names, CanBeSent6(t)
    PROVE  QueryIsRead6(Buffer(QueryMessage6(id, t), fill), id, t)
<1> DEFINE h == dns_header6(id, 0, 1, 0, 0, 0)
           m == QueryMessage6(id, t)
           b == Buffer(m, fill)
<1>1. 0 \in Nat /\ 0 \in Octet
  BY DEF Octet
<1>2. IsHeader6(h, id, 0)
  BY <1>1, HeaderIs6, Zenon
<1>3. m = Asks6(h, NameSection6(t), Question)
  BY Zenon DEF Asks6, QueryMessage6
<1> HIDE DEF h, m
<1>4. h \in Names /\ Len(h) = 12
  BY <1>2 DEF IsHeader6
<1>5. m \in Names
  <2>1. QuestionSize6(m, t)
    BY <1>3, <1>4, AsksType, Zenon
  <2> QED BY <2>1 DEF QuestionSize6
<1>6. b \in Buffers /\ b.data = m
  BY <1>5, BufferType
<1> HIDE DEF b
<1>7. Lies(b.data, 0, Asks6(h, NameSection6(t), Question))
  BY <1>3, <1>5, <1>6, LiesWhole
<1>8. IsQuestion6(b, id, 0, t)
  BY <1>1, <1>2, <1>6, <1>7, QuestionRead6, Zenon
<1>9. QuestionIsParsed6(b, t)
  BY <1>6, <1>8, QuestionParsed6, Zenon
<1> DEFINE p == AskedOf(b)[qd_count(b)].reader
<1>10. an_count(b) = 0 /\ Identifier(b) = id
  BY <1>8 DEF IsQuestion6, Identifier
<1>11. AnsweredOf(b)[an_count(b)] = Nothing6(p)
  BY <1>10, AnsweredIs, Zenon
<1>12. Nothing6(p).answers = <<>>
  BY DEF Nothing6
<1>13. AskedOf(b)[qd_count(b)].queries =
           <<[qname |-> Canonical[t], qtype |-> TYPE_A, qclass |-> CLASS_IN]>>
  BY <1>9 DEF QuestionIsParsed6
<1>14. parse_dns_query6(b) =
               [id |-> Identifier(b), queries |-> AskedOf(b)[qd_count(b)].queries,
                answers |-> AnsweredOf(b)[an_count(b)].answers]
  BY ParseIs6, Zenon
<1> HIDE DEF p
<1>15. /\ parse_dns_query6(b).id = Identifier(b)
       /\ parse_dns_query6(b).queries = AskedOf(b)[qd_count(b)].queries
       /\ parse_dns_query6(b).answers = AnsweredOf(b)[an_count(b)].answers
  BY <1>14
<1> QED BY <1>10, <1>11, <1>12, <1>13, <1>15, Zenon DEF QueryIsRead6, b, m

LEMMA IdentifierType == \A id \in Identifiers(0) : id \in Nat /\ id \div 256 \in Octet
<1> DEFINE w == 256 * 256
<1>1. \A r \in Nat : r % w \in Nat /\ r % w < w
  OBVIOUS
<1>2. \A n \in Nat : n < w => n \div 256 \in Nat /\ n \div 256 < 256
  OBVIOUS
<1>3. Identifiers(0) = {r % w : r \in RandomIds}
  BY Zenon DEF Identifiers
<1> HIDE DEF w
<1>4. \A r \in RandomIds : r \in Nat
  BY RandomAssumption
<1>5. \A id \in Identifiers(0) : id \in Nat /\ id < w
  BY <1>1, <1>3, <1>4, Zenon
<1>6. \A n \in Nat : n < 256 => n \in Octet
  BY DEF Octet
<1> QED BY <1>2, <1>5, <1>6, Zenon

\* A message that was sent is read as it was meant, with the very identifier that
\* build_dns_header drew for it: for every name of labels that are no pointers.
THEOREM QueriesRead6 == NamesSpec => []ReadsQuery6
<1>1. NameTyped => ReadsQuery6
  <2> SUFFICES ASSUME NameTyped, Carried6, NEW id \in Identifiers(0), NEW fill \in Fills
               PROVE  QueryIsRead6(Buffer(QueryMessage6(id, host), fill), id, host)
    BY Zenon DEF ReadsQuery6, QueryIsRead6
  <2>1. host \in Names /\ CanBeSent6(host)
    BY DEF NameTyped, CanBeSent6, Names, Carried6
  <2>2. fill \in Octet
    BY BuffersAssumption
  <2>3. id \in Nat /\ id \div 256 \in Octet
    BY IdentifierType, Zenon
  <2> QED BY <2>1, <2>2, <2>3, QueryRead6, Zenon
<1> QED BY <1>1, TypedNames, PTL

-----------------------------------------------------------------------------
\* A name server's response of four records.

Flattens(a, b, c, d) == FlattenSeq(<<a, b, c, d>>) = a \o b \o c \o d

LEMMA FourFlatten ==
    ASSUME NEW a, NEW b, NEW c, NEW d
    PROVE  Flattens(a, b, c, d)
<1> DEFINE s == <<a, b, c, d>>
           ab == a \o b
           abc == ab \o c
           abcd == abc \o d
           f == [i \in 1 .. 4 |-> IF i = 1 THEN a ELSE IF i = 2 THEN ab ELSE
                                  IF i = 3 THEN abc ELSE abcd]
           flat == CHOOSE g : g = [i \in 1 .. 4 |-> IF i = 1 THEN s[i] ELSE g[i - 1] \o s[i]]
<1>1. Len(s) = 4 /\ s[1] = a /\ s[2] = b /\ s[3] = c /\ s[4] = d
  OBVIOUS
<1>2. FlattenSeq(s) = flat[4]
  <2> HIDE DEF s
  <2>1. FlattenSeq(s) = (CHOOSE g : g = [i \in 1 .. Len(s) |->
                             IF i = 1 THEN s[i] ELSE g[i - 1] \o s[i]])[Len(s)]
    <3>1. Len(s) # 0
      BY <1>1
    <3> QED BY <3>1, Zenon DEF FlattenSeq
  <2> QED BY <1>1, <2>1, Zenon
<1> HIDE DEF s, ab, abc, abcd
<1>3. \E g : g = [i \in 1 .. 4 |-> IF i = 1 THEN s[i] ELSE g[i - 1] \o s[i]]
  <2>1. \A i \in 1 .. 4 : f[i] = IF i = 1 THEN s[i] ELSE f[i - 1] \o s[i]
    <3> SUFFICES ASSUME NEW i \in 1 .. 4
                 PROVE  f[i] = IF i = 1 THEN s[i] ELSE f[i - 1] \o s[i]
      OBVIOUS
    <3>1. i = 1 \/ i = 2 \/ i = 3 \/ i = 4
      OBVIOUS
    <3>2. CASE i = 1
      BY <1>1, <3>2
    <3>3. CASE i = 2
      <4>1. f[i] = ab /\ f[i - 1] = a
        BY <3>3
      <4> HIDE DEF f
      <4> QED BY <1>1, <3>3, <4>1 DEF ab
    <3>4. CASE i = 3
      <4>1. f[i] = abc /\ f[i - 1] = ab
        BY <3>4
      <4> HIDE DEF f
      <4> QED BY <1>1, <3>4, <4>1 DEF abc
    <3>5. CASE i = 4
      <4>1. f[i] = abcd /\ f[i - 1] = abc
        BY <3>5
      <4> HIDE DEF f
      <4> QED BY <1>1, <3>5, <4>1 DEF abcd
    <3> HIDE DEF f
    <3> QED BY <3>1, <3>2, <3>3, <3>4, <3>5
  <2>2. f = [i \in 1 .. 4 |-> f[i]]
    BY Zenon
  <2> HIDE DEF f
  <2>3. f = [i \in 1 .. 4 |-> IF i = 1 THEN s[i] ELSE f[i - 1] \o s[i]]
    BY <2>1, <2>2, Zenon
  <2> QED BY <2>3, Zenon
<1>4. flat = [i \in 1 .. 4 |-> IF i = 1 THEN s[i] ELSE flat[i - 1] \o s[i]]
  BY <1>3, Zenon
<1> HIDE DEF f, flat
<1>5. \A i \in 1 .. 4 : flat[i] = IF i = 1 THEN s[i] ELSE flat[i - 1] \o s[i]
  BY <1>4, Zenon
<1>6. /\ 1 \in 1 .. 4 /\ 2 \in 1 .. 4 /\ 3 \in 1 .. 4 /\ 4 \in 1 .. 4
      /\ 2 # 1 /\ 3 # 1 /\ 4 # 1 /\ 2 - 1 = 1 /\ 3 - 1 = 2 /\ 4 - 1 = 3
  OBVIOUS
<1>7. flat[1] = a
  BY <1>1, <1>5, <1>6, Zenon
<1>8. flat[2] = ab
  <2>1. flat[2] = flat[2 - 1] \o s[2]
    BY <1>5, <1>6, Zenon
  <2> QED BY <1>1, <1>6, <1>7, <2>1, Zenon DEF ab
<1>9. flat[3] = abc
  <2>1. flat[3] = flat[3 - 1] \o s[3]
    BY <1>5, <1>6, Zenon
  <2> QED BY <1>1, <1>6, <1>8, <2>1, Zenon DEF abc
<1>10. flat[4] = abcd
  <2>1. flat[4] = flat[4 - 1] \o s[4]
    BY <1>5, <1>6, Zenon
  <2> QED BY <1>1, <1>6, <1>9, <2>1, Zenon DEF abcd
<1> QED BY <1>2, <1>10, Zenon DEF Flattens, s, ab, abc, abcd

\* Where the parts of a text of four lie.
LieInTurn(m, p, a, b, c, d) ==
    /\ Lies(m, p, a) /\ Lies(m, p + Len(a), b) /\ Lies(m, p + Len(a) + Len(b), c)
    /\ Lies(m, p + Len(a) + Len(b) + Len(c), d)

LEMMA FourLie ==
    ASSUME NEW m \in Names, NEW p \in Nat,
           NEW a \in Names, NEW b \in Names, NEW c \in Names, NEW d \in Names,
           Lies(m, p, a \o b \o c \o d)
    PROVE  LieInTurn(m, p, a, b, c, d) /\ a \o b \o c \o d \in Names
<1> DEFINE ab == a \o b
           abc == ab \o c
<1>1. ab \in Names /\ Len(ab) = Len(a) + Len(b) /\ Len(a) \in Nat
  BY NamesJoin, Zenon
<1> HIDE DEF ab
<1>2. abc \in Names /\ Len(abc) = Len(ab) + Len(c) /\ Len(b) \in Nat
  BY <1>1, NamesJoin, Zenon
<1> HIDE DEF abc
<1>3. abc \o d \in Names /\ Len(c) \in Nat
  BY <1>2, NamesJoin, Zenon
<1>4. Lies(m, p, abc \o d)
  BY DEF abc, ab
<1>5. Lies(m, p, abc) /\ Lies(m, p + Len(abc), d)
  BY <1>2, <1>4, LiesPart, Zenon
<1>6. Lies(m, p, ab) /\ Lies(m, p + Len(ab), c)
  <2>1. Lies(m, p, ab \o c)
    BY <1>5 DEF abc
  <2> QED BY <1>1, <2>1, LiesPart, Zenon
<1>7. Lies(m, p, a) /\ Lies(m, p + Len(a), b)
  <2>1. Lies(m, p, a \o b)
    BY <1>6 DEF ab
  <2> QED BY <2>1, LiesPart, Zenon
<1>8. p + Len(ab) = p + Len(a) + Len(b) /\ p + Len(abc) = p + Len(a) + Len(b) + Len(c)
  BY <1>1, <1>2, <1>3
<1>9. LieInTurn(m, p, a, b, c, d)
  BY <1>5, <1>6, <1>7, <1>8, Zenon DEF LieInTurn
<1> QED BY <1>3, <1>9 DEF abc, ab

\* A pointer, and a label of one letter in front of it.
SiblingOf(q) == <<1, 98>> \o Pointer(q)

LEMMA PointerType ==
    ASSUME NEW q \in Nat, InReach(q)
    PROVE  /\ Pointer(q) \in Names /\ Len(Pointer(q)) = 2
           /\ (192 * 256 + q) \in Nat /\ (192 * 256 + q) \div 256 \in Octet
           /\ SiblingOf(q) \in Names /\ Len(SiblingOf(q)) = 4 /\ <<1, 98>> \in Names
<1> DEFINE n == 192 * 256 + q
           s == <<1, 98>>
<1>1. n \in Nat /\ n < 256 * 256
  BY DEF InReach
<1>2. \A x \in Nat : x < 256 * 256 => x \div 256 \in Nat /\ x \div 256 < 256
  OBVIOUS
<1> HIDE DEF n
<1>3. n \div 256 \in Octet
  BY <1>1, <1>2 DEF Octet
<1>4. Pointer(q) \in Names /\ Len(Pointer(q)) = 2
  <2>1. Pointer(q) = U16(n)
    BY Zenon DEF Pointer, n
  <2> QED BY <1>1, <1>3, <2>1, FieldType, Zenon
<1>5. s \in Names /\ Len(s) = 2
  BY DEF Names, Octet
<1> HIDE DEF s
<1>6. s \o Pointer(q) \in Names /\ Len(s \o Pointer(q)) = Len(s) + Len(Pointer(q))
  BY <1>4, <1>5, NamesJoin, Zenon
<1>7. Len(s \o Pointer(q)) = 4
  BY <1>4, <1>5, <1>6
<1> QED BY <1>1, <1>3, <1>4, <1>5, <1>6, <1>7 DEF SiblingOf, n, s

LEMMA PointerLies ==
    ASSUME NEW b \in Buffers, NEW p \in Nat, NEW q \in Nat, InReach(q), Lies(b.data, p, Pointer(q))
    PROVE  IsPointer(b, p, q)
<1> DEFINE n == 192 * 256 + q
<1>1. n \in Nat /\ n \div 256 \in Octet
  BY PointerType
<1>2. Lies(b.data, p, U16(n))
  BY Zenon DEF Pointer
<1> HIDE DEF n
<1>3. Word(b, p) = n
  BY <1>1, <1>2, ReadWord, Zenon
<1> QED BY <1>3, Zenon DEF IsPointer, n

LEMMA SiblingLies ==
    ASSUME NEW b \in Buffers, NEW p \in Nat, NEW q \in Nat, InReach(q), Lies(b.data, p, SiblingOf(q))
    PROVE  OneLetter(b, p, 98) /\ IsPointer(b, p + 2, q)
<1> DEFINE s == <<1, 98>>
           m == b.data
           r == Pointer(q)
<1>1. s \in Names /\ Len(s) = 2 /\ s[1] = 1 /\ s[2] = 98
  BY PointerType
<1>2. r \in Names
  BY PointerType
<1>3. m \in Names /\ Lies(m, p, s \o r)
  BY DEF Buffers, SiblingOf
<1> HIDE DEF s, m, r
<1>4. Lies(m, p, s) /\ Lies(m, p + Len(s), r)
  BY <1>1, <1>2, <1>3, LiesPart, Zenon
<1>5. Lies(b.data, p, s) /\ Lies(b.data, p + 2, Pointer(q))
  BY <1>1, <1>4 DEF m, r
<1>6. \A j \in 1 .. Len(s) : At(b, p + j - 1) = s[j]
  BY <1>1, <1>5, ReadAt, Zenon
<1>7. p + 1 - 1 = p /\ p + 2 - 1 = p + 1 /\ 1 \in 1 .. 2 /\ 2 \in 1 .. 2 /\ p + 2 \in Nat
  OBVIOUS
<1>8. At(b, p) = 1 /\ At(b, p + 1) = 98
  BY <1>1, <1>6, <1>7
<1>9. IsPointer(b, p + 2, q)
  BY <1>5, <1>7, PointerLies, Zenon
<1> QED BY <1>8, <1>9 DEF OneLetter

\* A record at p, whose name is read as text, gives the answer e and moves over it.
Taken(b, p, r, e) ==
    \A acc : ParseAnswer6(b, [reader |-> p, answers |-> acc]) =
                 [reader |-> p + Len(r), answers |-> Append(acc, e)]

AnswerOf(text, type, rdata) ==
    [name |-> text, type |-> type, rdata |-> IF type = TYPE_A THEN rdata ELSE <<>>]

\* What a record is made of.
Fits(name, type, rdata) ==
    name \in Names /\ type \in Octet /\ rdata \in Names /\ Len(rdata) \in Octet

\* Where a record lies, its name does.
LEMMA RecordNameLies ==
    ASSUME NEW b \in Buffers, NEW p \in Nat, NEW name, NEW type, NEW rdata,
           Fits(name, type, rdata), Lies(b.data, p, Record(name, type, rdata))
    PROVE  Lies(b.data, p, name)
<1> DEFINE r == Record(name, type, rdata)
           m == b.data
<1>1. name \in Names /\ type \in Octet /\ rdata \in Names /\ Len(rdata) \in Octet
  BY DEF Fits
<1>2. IsRecord(r, name, type, rdata)
  BY <1>1, RecordIs, Zenon
<1> HIDE DEF r
<1>3. r \in Names /\ Lies(r, 0, name) /\ 0 \in Nat /\ m \in Names
  BY <1>2 DEF IsRecord, Buffers
<1>4. Lies(m, p, r)
  BY DEF r, m
<1> HIDE DEF m
<1>5. Lies(m, p + 0, name)
  BY <1>1, <1>3, <1>4, LiesWithin, Zenon
<1>6. p + 0 = p
  OBVIOUS
<1> QED BY <1>5, <1>6 DEF m

LEMMA RecordTaken ==
    ASSUME NEW b \in Buffers, NEW p \in Nat, NEW name, NEW type, NEW rdata, NEW text,
           Fits(name, type, rdata), Lies(b.data, p, Record(name, type, rdata)),
           Reads6(b, p, text, Len(name))
    PROVE  Taken(b, p, Record(name, type, rdata), AnswerOf(text, type, rdata))
<1> DEFINE r == Record(name, type, rdata)
<1>1. name \in Names /\ type \in Octet /\ rdata \in Names /\ Len(rdata) \in Octet
  BY DEF Fits
<1>2. IsRecord(r, name, type, rdata)
  BY <1>1, RecordIs, Zenon
<1> SUFFICES ASSUME NEW acc
             PROVE  ParseAnswer6(b, [reader |-> p, answers |-> acc]) =
                        [reader |-> p + Len(r),
                         answers |-> Append(acc, [name |-> text, type |-> type,
                                         rdata |-> IF type = TYPE_A THEN rdata ELSE <<>>])]
  BY Zenon DEF Taken, AnswerOf
<1>3. Lies(b.data, p, r)
  OBVIOUS
<1> HIDE DEF r
<1> DEFINE s == [reader |-> p, answers |-> acc]
<1>4. \A y : ParseAnswer6(b, [reader |-> p, answers |-> y]) =
               [reader |-> p + Len(r),
                answers |-> Append(y, [name |-> text, type |-> type,
                                       rdata |-> IF type = TYPE_A THEN rdata ELSE <<>>])]
  BY <1>1, <1>2, <1>3, RecordRead
<1> QED BY <1>4, Zenon

\* The name a response is about, where the question has it.
Asked6(b, t) ==
    t \in Names /\ CanBeSent6(t) /\ Label(t) # <<>> /\ IsName6At(b, 12, t)

\* The three forms a record's name has.
LEMMA PointerTaken ==
    ASSUME NEW b \in Buffers, NEW t, Asked6(b, t), NEW p \in Nat, NEW type, NEW rdata,
           Fits(Pointer(12), type, rdata), Lies(b.data, p, Record(Pointer(12), type, rdata))
    PROVE  Taken(b, p, Record(Pointer(12), type, rdata), AnswerOf(Canonical[t], type, rdata))
<1> DEFINE z == 12
<1>1. z \in Nat /\ InReach(z)
  BY DEF InReach
<1>2. /\ t \in Names /\ Label(t) # <<>> /\ IsName6At(b, z, t)
      /\ Fits(Pointer(z), type, rdata) /\ Lies(b.data, p, Record(Pointer(z), type, rdata))
  BY DEF Asked6
<1>3. Len(Canonical[t]) <= HOST_NAME_SIZE
  <2>1. Len(Canonical[t]) \in Nat
    BY <1>2, SectionIs6 DEF Asked6
  <2>2. Len(Canonical[t]) < HOST_NAME_SIZE - 2
    BY DEF Asked6, CanBeSent6
  <2> QED BY <2>1, <2>2, SizeAssumption
<1> HIDE DEF z
<1>4. Lies(b.data, p, Pointer(z))
  BY <1>2, RecordNameLies, Zenon
<1>5. IsPointer(b, p, z)
  BY <1>1, <1>4, PointerLies, Zenon
<1>6. Reads6(b, p, Canonical[t], 2)
  BY <1>1, <1>2, <1>3, <1>5, PointerRead, Zenon
<1>7. Len(Pointer(z)) = 2
  BY <1>1, PointerType, Zenon
<1>8. Reads6(b, p, Canonical[t], Len(Pointer(z)))
  BY <1>6, <1>7
<1>9. Taken(b, p, Record(Pointer(z), type, rdata), AnswerOf(Canonical[t], type, rdata))
  BY <1>2, <1>8, RecordTaken, Zenon
<1> QED BY <1>9 DEF z

LEMMA SiblingTaken ==
    ASSUME NEW b \in Buffers, NEW t, Asked6(b, t), NEW k, StartsLabel(Canonical[t], k),
           NEW q \in Nat, InReach(q), 12 + k - 1 = q,
           NEW p \in Nat, NEW type, NEW rdata,
           Fits(SiblingOf(q), type, rdata), Lies(b.data, p, Record(SiblingOf(q), type, rdata))
    PROVE  Taken(b, p, Record(SiblingOf(q), type, rdata),
                 AnswerOf(<<98, Dot>> \o SubSeq(Canonical[t], k, Len(Canonical[t])), type, rdata))
<1> DEFINE z == 12
           c == Canonical[t]
           n == Len(c)
           x == 98
<1>1. t \in Names /\ IsName6At(b, z, t) /\ n \in Nat /\ n < HOST_NAME_SIZE - 2
  <2>1. t \in Names /\ CanBeSent6(t) /\ IsName6At(b, z, t)
    BY DEF Asked6
  <2>2. Len(Canonical[t]) \in Nat
    BY <2>1, SectionIs6
  <2> QED BY <2>1, <2>2 DEF CanBeSent6
<1>2. z \in Nat /\ k \in Nat /\ z + k - 1 = q
  BY <1>1 DEF StartsLabel
<1>3. x \in Octet \ {NUL}
  BY DEF Octet, NUL
<1> HIDE DEF z, x
<1>4. PICK u : IsEnding(b, z, t, k, u)
  <2>1. Endings(b, t)
    BY <1>1, EndingsAre, Zenon
  <2> QED BY <1>1, <1>2, <2>1, Zenon DEF Endings
<1>5. /\ u \in Names /\ Label(u) # <<>> /\ IsName6At(b, q, u)
      /\ Canonical[u] = SubSeq(c, k, n) /\ Len(Canonical[u]) <= n
  BY <1>2, <1>4 DEF IsEnding
<1>6. Len(Canonical[u]) + 2 <= HOST_NAME_SIZE
  <2>1. Len(Canonical[u]) \in Nat
    <3>1. Canonical[u] \in Names
      BY <1>5, CanonicalIs DEF Writes
    <3> QED BY <3>1 DEF Names
  <2> DEFINE l == Len(Canonical[u])
  <2>2. l \in Nat /\ l <= n
    BY <1>5, <2>1
  <2> HIDE DEF n, l
  <2>3. l + 2 <= HOST_NAME_SIZE
    BY <1>1, <2>2, SizeAssumption
  <2> QED BY <2>3 DEF l
<1>7. Lies(b.data, p, SiblingOf(q))
  BY RecordNameLies, Zenon
<1>8. OneLetter(b, p, x) /\ IsPointer(b, p + 2, q)
  BY <1>7, SiblingLies, Zenon DEF x
<1>9. Reads6(b, p, <<x, Dot>> \o Canonical[u], 4)
  BY <1>3, <1>5, <1>6, <1>8, SiblingRead, Zenon
<1>10. Len(SiblingOf(q)) = 4
  BY PointerType, Zenon
<1>11. Reads6(b, p, <<x, Dot>> \o SubSeq(c, k, n), Len(SiblingOf(q)))
  BY <1>5, <1>9, <1>10
<1>12. Taken(b, p, Record(SiblingOf(q), type, rdata),
             AnswerOf(<<x, Dot>> \o SubSeq(c, k, n), type, rdata))
  BY <1>11, RecordTaken, Zenon
<1> QED BY <1>12 DEF x, c, n

LEMMA WrittenTaken ==
    ASSUME NEW b \in Buffers, NEW t, Asked6(b, t), NEW p \in Nat, NEW type, NEW rdata,
           Fits(NameSection6(t), type, rdata),
           Lies(b.data, p, Record(NameSection6(t), type, rdata))
    PROVE  Taken(b, p, Record(NameSection6(t), type, rdata),
                 AnswerOf(Canonical[t], type, rdata))
<1> DEFINE n == Len(Canonical[t])
<1>1. t \in Names /\ CanBeSent6(t)
  BY DEF Asked6
<1>2. Len(NameSection6(t)) = n + 1 /\ n \in Nat
  BY <1>1, SectionIs6
<1>3. n <= HOST_NAME_SIZE
  <2>1. n < HOST_NAME_SIZE - 2
    BY <1>1 DEF CanBeSent6
  <2> HIDE DEF n
  <2> QED BY <1>2, <2>1, SizeAssumption
<1>4. Lies(b.data, p, NameSection6(t))
  BY RecordNameLies, Zenon
<1>5. IsName6At(b, p, t)
  BY <1>1, <1>4, SectionLies, Zenon
<1>6. Reads6(b, p, Canonical[t], n + 1)
  BY <1>1, <1>3, <1>5, WrittenRead, Zenon
<1>7. Reads6(b, p, Canonical[t], Len(NameSection6(t)))
  BY <1>2, <1>6
<1> QED BY <1>7, RecordTaken, Zenon

LEMMA FourAppended ==
    \A w, x, y, z : Append(Append(Append(Append(<<>>, w), x), y), z) = <<w, x, y, z>>
<1> SUFFICES ASSUME NEW w, NEW x, NEW y, NEW z
             PROVE  Append(Append(Append(Append(<<>>, w), x), y), z) = <<w, x, y, z>>
  OBVIOUS
<1> DEFINE S == {w, x, y, z}
           a1 == Append(<<>>, w)
           a2 == Append(a1, x)
           a3 == Append(a2, y)
           a4 == Append(a3, z)
           a == <<w, x, y, z>>
<1>1. w \in S /\ x \in S /\ y \in S /\ z \in S
  OBVIOUS
<1>10. \A t \in Seq(S), e \in S :
           /\ Append(t, e) \in Seq(S) /\ Len(Append(t, e)) = Len(t) + 1
           /\ \A i \in 1 .. Len(t) : Append(t, e)[i] = t[i]
           /\ Append(t, e)[Len(t) + 1] = e
  BY AppendProperties
<1>11. 1 + 1 = 2 /\ 2 + 1 = 3 /\ 3 + 1 = 4 /\ 1 \in 1 .. 1 /\ 1 \in 1 .. 2 /\ 2 \in 1 .. 2
       /\ 1 \in 1 .. 3 /\ 2 \in 1 .. 3 /\ 3 \in 1 .. 3
  OBVIOUS
<1>2. a \in Seq(S) /\ Len(a) = 4 /\ a[1] = w /\ a[2] = x /\ a[3] = y /\ a[4] = z
  OBVIOUS
<1> HIDE DEF S, a
<1>3. a1 \in Seq(S) /\ Len(a1) = 1 /\ a1[1] = w
  BY <1>1
<1> HIDE DEF a1
<1>4. a2 \in Seq(S) /\ Len(a2) = 2 /\ a2[1] = w /\ a2[2] = x
  <2>1. /\ a2 \in Seq(S) /\ Len(a2) = Len(a1) + 1
        /\ \A i \in 1 .. Len(a1) : a2[i] = a1[i]
        /\ a2[Len(a1) + 1] = x
    BY <1>1, <1>3, <1>10, Zenon
  <2> HIDE DEF a2
  <2> QED BY <1>3, <1>11, <2>1
<1> HIDE DEF a2
<1>5. a3 \in Seq(S) /\ Len(a3) = 3 /\ a3[1] = w /\ a3[2] = x /\ a3[3] = y
  <2>1. /\ a3 \in Seq(S) /\ Len(a3) = Len(a2) + 1
        /\ \A i \in 1 .. Len(a2) : a3[i] = a2[i]
        /\ a3[Len(a2) + 1] = y
    BY <1>1, <1>4, <1>10, Zenon
  <2> HIDE DEF a3
  <2> QED BY <1>4, <1>11, <2>1
<1> HIDE DEF a3
<1>6. a4 \in Seq(S) /\ Len(a4) = 4 /\ a4[1] = w /\ a4[2] = x /\ a4[3] = y /\ a4[4] = z
  <2>1. /\ a4 \in Seq(S) /\ Len(a4) = Len(a3) + 1
        /\ \A i \in 1 .. Len(a3) : a4[i] = a3[i]
        /\ a4[Len(a3) + 1] = z
    BY <1>1, <1>5, <1>10, Zenon
  <2> HIDE DEF a4
  <2> QED BY <1>5, <1>11, <2>1
<1> HIDE DEF a4
<1>7. \A i \in 1 .. 4 : i = 1 \/ i = 2 \/ i = 3 \/ i = 4
  OBVIOUS
<1>8. \A i \in 1 .. 4 : a4[i] = a[i]
  BY <1>2, <1>6, <1>7
<1>9. a4 = a
  BY <1>2, <1>6, <1>8, SeqEqual
<1> QED BY <1>9 DEF a1, a2, a3, a4, a

\* Four records in turn, behind the question.
TakenInTurn(b, p, r1, r2, r3, r4, e1, e2, e3, e4) ==
    /\ Taken(b, p, r1, e1)
    /\ Taken(b, p + Len(r1), r2, e2)
    /\ Taken(b, p + Len(r1) + Len(r2), r3, e3)
    /\ Taken(b, p + Len(r1) + Len(r2) + Len(r3), r4, e4)

GivesFour(b, e1, e2, e3, e4) == parse_dns_query6(b).answers = <<e1, e2, e3, e4>>

LEMMA FourTaken ==
    ASSUME NEW b, NEW p, AskedOf(b)[qd_count(b)].reader = p, an_count(b) = 4,
           NEW r1, NEW r2, NEW r3, NEW r4, NEW e1, NEW e2, NEW e3, NEW e4,
           TakenInTurn(b, p, r1, r2, r3, r4, e1, e2, e3, e4)
    PROVE  GivesFour(b, e1, e2, e3, e4)
<1> DEFINE p1 == p + Len(r1)
           p2 == p1 + Len(r2)
           p3 == p2 + Len(r3)
           p4 == p3 + Len(r4)
           a1 == Append(<<>>, e1)
           a2 == Append(a1, e2)
           a3 == Append(a2, e3)
           a4 == Append(a3, e4)
           s1 == [reader |-> p1, answers |-> a1]
           s2 == [reader |-> p2, answers |-> a2]
           s3 == [reader |-> p3, answers |-> a3]
           s4 == [reader |-> p4, answers |-> a4]
<1>1. /\ Taken(b, p, r1, e1) /\ Taken(b, p1, r2, e2)
      /\ Taken(b, p2, r3, e3) /\ Taken(b, p3, r4, e4)
  BY Zenon DEF TakenInTurn
<1>2. s1 = ParseAnswer6(b, Nothing6(p))
  BY <1>1, Zenon DEF Taken, Nothing6
<1> HIDE DEF a1
<1>3. s2 = ParseAnswer6(b, s1)
  <2> HIDE DEF p1
  <2> QED BY <1>1, Zenon DEF Taken
<1> HIDE DEF a2
<1>4. s3 = ParseAnswer6(b, s2)
  <2> HIDE DEF p2
  <2> QED BY <1>1, Zenon DEF Taken
<1> HIDE DEF a3
<1>5. s4 = ParseAnswer6(b, s3)
  <2> HIDE DEF p3
  <2> QED BY <1>1, Zenon DEF Taken
<1> HIDE DEF a4
<1>6. s4.answers = a4
  OBVIOUS
<1> HIDE DEF s1, s2, s3, s4
<1>7. an_count(b) = 4 => AnsweredOf(b)[an_count(b)] = s4
  BY <1>2, <1>3, <1>4, <1>5, AnsweredIs, ZenonT(40)
<1>8. parse_dns_query6(b) =
               [id |-> Identifier(b), queries |-> AskedOf(b)[qd_count(b)].queries,
                answers |-> AnsweredOf(b)[an_count(b)].answers]
  BY ParseIs6, Zenon
<1>9. parse_dns_query6(b).answers = AnsweredOf(b)[an_count(b)].answers
  BY <1>8
<1>10. a4 = <<e1, e2, e3, e4>>
  BY FourAppended DEF a1, a2, a3, a4
<1>11. parse_dns_query6(b).answers = a4
  BY <1>6, <1>7, <1>9
<1> QED BY <1>10, <1>11, Zenon DEF GivesFour

\* What a response of four records holds.
Responds(b, t, r1, r2, r3, r4) ==
    /\ b \in Buffers /\ IsQuestion6(b, 1, 4, t)
    /\ LieInTurn(b.data, 17 + Len(Canonical[t]), r1, r2, r3, r4)

LEMMA ResponseIs ==
    ASSUME NEW t \in Names, CanBeSent6(t), NEW fill \in Octet,
           NEW r1 \in Names, NEW r2 \in Names, NEW r3 \in Names, NEW r4 \in Names
    PROVE  Responds(Buffer(Response(1, t, <<r1, r2, r3, r4>>), fill), t, r1, r2, r3, r4)
<1> DEFINE id == 1
           an == 4
           h == dns_header6(id, 1, 1, an, 0, 0)
           asks == Asks6(h, NameSection6(t), Question)
           records == r1 \o r2 \o r3 \o r4
           m == asks \o records
           b == Buffer(m, fill)
           p == 17 + Len(Canonical[t])
<1>1. Response(1, t, <<r1, r2, r3, r4>>) = m
  <2> DEFINE y == <<r1, r2, r3, r4>>
  <2>1. Len(y) = an
    OBVIOUS
  <2>2. FlattenSeq(y) = records
    <3>1. Flattens(r1, r2, r3, r4)
      BY FourFlatten, Zenon
    <3> QED BY <3>1 DEF Flattens
  <2> HIDE DEF records, y, an
  <2>3. Response(1, t, y) = dns_header6(1, 1, 1, Len(y), 0, 0)
                            \o NameSection6(t) \o Question \o FlattenSeq(y)
    BY Zenon DEF Response
  <2>4. Response(1, t, y) = m
    BY <2>1, <2>2, <2>3 DEF Asks6
  <2> QED BY <2>4 DEF y
<1>2. id \in Nat /\ id \div 256 \in Octet /\ an \in Octet /\ 0 \in Nat
  BY DEF Octet
<1>3. IsHeader6(h, id, an)
  <2>1. 1 \in Nat
    OBVIOUS
  <2> HIDE DEF id, an
  <2> QED BY <1>2, <2>1, HeaderIs6, Zenon
<1> HIDE DEF h
<1>4. asks \in Names /\ Len(asks) = p
  <2>1. h \in Names /\ Len(h) = 12
    BY <1>3 DEF IsHeader6
  <2>2. QuestionSize6(asks, t)
    BY <2>1, AsksType, Zenon
  <2> QED BY <2>2 DEF QuestionSize6
<1>5. p \in Nat
  <2>1. Len(Canonical[t]) \in Nat
    BY SectionIs6
  <2> QED BY <2>1
<1> HIDE DEF asks, p
<1>6. records \in Names
  <2> DEFINE r12 == r1 \o r2
             r123 == r12 \o r3
  <2>1. r12 \in Names
    BY NamesJoin, Zenon
  <2> HIDE DEF r12
  <2>2. r123 \in Names
    BY <2>1, NamesJoin, Zenon
  <2> HIDE DEF r123
  <2>3. r123 \o r4 \in Names
    BY <2>2, NamesJoin, Zenon
  <2> QED BY <2>3 DEF r123, r12
<1> HIDE DEF records
<1>7. m \in Names
  BY <1>4, <1>6, NamesJoin, Zenon
<1>8. b \in Buffers /\ b.data = m
  <2> HIDE DEF m
  <2> QED BY <1>7, BufferType
<1>9. Lies(m, 0, asks) /\ Lies(m, 0 + Len(asks), records)
  <2>1. Lies(m, 0, asks \o records)
    BY <1>7, LiesWhole, Zenon
  <2> HIDE DEF m
  <2> QED BY <1>2, <1>4, <1>6, <1>7, <2>1, LiesPart, Zenon
<1> HIDE DEF m, b
<1>10. IsQuestion6(b, id, an, t)
  <2>1. Lies(b.data, 0, Asks6(h, NameSection6(t), Question))
    BY <1>8, <1>9 DEF asks
  <2> HIDE DEF id, an
  <2> QED BY <1>2, <1>3, <1>8, <2>1, QuestionRead6, Zenon
<1>11. LieInTurn(b.data, p, r1, r2, r3, r4)
  <2>1. 0 + Len(asks) = p
    BY <1>4, <1>5
  <2>2. Lies(m, p, r1 \o r2 \o r3 \o r4)
    BY <1>9, <2>1 DEF records
  <2>3. LieInTurn(m, p, r1, r2, r3, r4)
    BY <1>5, <1>7, <2>2, FourLie, Zenon
  <2> QED BY <1>8, <2>3
<1>12. Responds(b, t, r1, r2, r3, r4)
  BY <1>8, <1>10, <1>11 DEF Responds, p
<1> QED BY <1>1, <1>12 DEF b

\* The records of an alias: the pointer to the name asked for, a label in front
\* of one of its ends, and the name written out.
AliasAnswers(t, k) ==
    <<AnswerOf(Canonical[t], TYPE_CNAME, <<>>),
      AnswerOf(<<98, Dot>> \o SubSeq(Canonical[t], k, Len(Canonical[t])), TYPE_A, IP),
      AnswerOf(Canonical[t], TYPE_A, IP),
      AnswerOf(Canonical[t], TYPE_A, IP)>>

LEMMA AliasRead ==
    ASSUME NEW t \in Names, CanBeSent6(t), NEW fill \in Octet,
           NEW k, StartsLabel(Canonical[t], k), NEW q, q = 12 + k - 1
    PROVE  parse_dns_query6(Buffer(Response(1, t,
               <<Record(Pointer(12), TYPE_CNAME, SiblingOf(q)),
                 Record(SiblingOf(q), TYPE_A, IP),
                 Record(NameSection6(t), TYPE_A, IP),
                 Record(Pointer(12), TYPE_A, IP)>>), fill)).answers = AliasAnswers(t, k)
<1> DEFINE c == Canonical[t]
           n == Len(c)
           n1 == Pointer(12)
           n2 == SiblingOf(q)
           n3 == NameSection6(t)
           r1 == Record(n1, TYPE_CNAME, n2)
           r2 == Record(n2, TYPE_A, IP)
           r3 == Record(n3, TYPE_A, IP)
           r4 == Record(n1, TYPE_A, IP)
           b == Buffer(Response(1, t, <<r1, r2, r3, r4>>), fill)
           e1 == AnswerOf(c, TYPE_CNAME, n2)
           e2 == AnswerOf(<<98, Dot>> \o SubSeq(c, k, n), TYPE_A, IP)
           e3 == AnswerOf(c, TYPE_A, IP)
           p == 17 + n
           p1 == p + Len(r1)
           p2 == p + Len(r1) + Len(r2)
           p3 == p + Len(r1) + Len(r2) + Len(r3)
<1>1. n \in Nat /\ n < HOST_NAME_SIZE - 2
  <2>1. Len(Canonical[t]) \in Nat
    BY SectionIs6
  <2> QED BY <2>1 DEF CanBeSent6
<1>2. k \in 1 .. n
  BY DEF StartsLabel
<1>3. q \in Nat /\ InReach(q)
  <2> HIDE DEF n
  <2> QED BY <1>1, <1>2, SizeAssumption DEF InReach
<1>4. n1 \in Names /\ Len(n1) = 2 /\ n2 \in Names /\ Len(n2) = 4
  <2> DEFINE z == 12
  <2>1. z \in Nat /\ InReach(z)
    BY DEF InReach
  <2> HIDE DEF z
  <2>2. Pointer(z) \in Names /\ Len(Pointer(z)) = 2
    BY <2>1, PointerType, Zenon
  <2>3. SiblingOf(q) \in Names /\ Len(SiblingOf(q)) = 4
    BY <1>3, PointerType, Zenon
  <2> QED BY <2>2, <2>3 DEF z
<1>5. n3 \in Names
  BY SectionIs6
<1>6. Fits(n1, TYPE_CNAME, n2) /\ Fits(n2, TYPE_A, IP) /\ Fits(n3, TYPE_A, IP) /\ Fits(n1, TYPE_A, IP)
  <2>1. TYPE_A \in Octet /\ TYPE_CNAME \in Octet /\ 4 \in Octet
    BY DEF TYPE_A, TYPE_CNAME, Octet
  <2>2. IP \in Names /\ Len(IP) \in Octet
    BY <2>1 DEF IP, Names, Octet
  <2> HIDE DEF n1, n2, n3
  <2> QED BY <1>4, <1>5, <2>1, <2>2 DEF Fits
<1>7. r1 \in Names /\ r2 \in Names /\ r3 \in Names /\ r4 \in Names
  <2> HIDE DEF n1, n2, n3
  <2>1. \A name, type, rdata : Fits(name, type, rdata) => Record(name, type, rdata) \in Names
    BY RecordIs DEF Fits, IsRecord
  <2> QED BY <1>6, <2>1, Zenon
<1>8. Responds(b, t, r1, r2, r3, r4)
  <2> HIDE DEF r1, r2, r3, r4
  <2> QED BY <1>7, ResponseIs, Zenon
<1> HIDE DEF b
<1>9. b \in Buffers /\ IsQuestion6(b, 1, 4, t)
  BY <1>8 DEF Responds
<1>10. Lies(b.data, p, r1) /\ Lies(b.data, p1, r2) /\ Lies(b.data, p2, r3) /\ Lies(b.data, p3, r4)
  <2> HIDE DEF r1, r2, r3, r4
  <2> QED BY <1>8 DEF Responds, LieInTurn
<1>11. p \in Nat /\ p1 \in Nat /\ p2 \in Nat /\ p3 \in Nat
  <2>1. Len(r1) \in Nat /\ Len(r2) \in Nat /\ Len(r3) \in Nat
    <3> HIDE DEF r1, r2, r3
    <3> QED BY <1>7 DEF Names
  <2> HIDE DEF r1, r2, r3, n
  <2> QED BY <1>1, <2>1
<1>12. Asked6(b, t)
  <2>1. IsName6At(b, 12, t)
    BY <1>9 DEF IsQuestion6
  <2>2. Label(t) # <<>>
    <3> SUFFICES ASSUME Label(t) = <<>> PROVE FALSE
      OBVIOUS
    <3>1. Canonical[t] = <<>> /\ Len(<<>>) = 0
      BY NoMoreLabels
    <3> QED BY <3>1 DEF StartsLabel
  <2> QED BY <2>1, <2>2 DEF Asked6
<1> HIDE DEF p, p1, p2, p3
<1>13. Taken(b, p, r1, e1)
  BY <1>6, <1>9, <1>10, <1>11, <1>12, PointerTaken, Zenon
<1>14. Taken(b, p1, r2, e2)
  BY <1>3, <1>6, <1>9, <1>10, <1>11, <1>12, SiblingTaken, Zenon
<1>15. Taken(b, p2, r3, e3)
  BY <1>6, <1>9, <1>10, <1>11, <1>12, WrittenTaken, Zenon
<1>16. Taken(b, p3, r4, e3)
  BY <1>6, <1>9, <1>10, <1>11, <1>12, PointerTaken, Zenon
<1>17. AskedOf(b)[qd_count(b)].reader = p /\ an_count(b) = 4
  <2>1. QuestionIsParsed6(b, t)
    BY <1>9, QuestionParsed6, Zenon
  <2> QED BY <1>9, <2>1 DEF QuestionIsParsed6, IsQuestion6, p
<1> HIDE DEF r1, r2, r3, r4, e1, e2, e3
<1>18. parse_dns_query6(b).answers = <<e1, e2, e3, e3>>
  <2>1. TakenInTurn(b, p, r1, r2, r3, r4, e1, e2, e3, e3)
    BY <1>13, <1>14, <1>15, <1>16, Zenon DEF TakenInTurn, p1, p2, p3
  <2>2. GivesFour(b, e1, e2, e3, e3)
    BY <1>17, <2>1, FourTaken, Zenon
  <2> QED BY <2>2, Zenon DEF GivesFour
<1>19. e1 = AnswerOf(c, TYPE_CNAME, <<>>)
  <2>1. TYPE_CNAME # TYPE_A
    BY DEF TYPE_CNAME, TYPE_A
  <2> QED BY <2>1, Zenon DEF e1, AnswerOf
<1> QED BY <1>18, <1>19, Zenon DEF b, r1, r2, r3, r4, e2, e3, AliasAnswers

\* Every record of a response is read, behind the question and in turn, whether its
\* name is a pointer, ends in one or is written out: for every name of labels that
\* are no pointers, and every one of its ends.
THEOREM AliasesRead6 == NamesSpec => []ReadsAnswers6
<1>1. NameTyped => ReadsAnswers6
  <2> SUFFICES ASSUME NameTyped, Carried6, NEW k \in LabelStarts, NEW fill \in Fills
               PROVE  parse_dns_query6(Buffer(Response(1, host,
                          <<Record(Pointer(12), TYPE_CNAME, Sibling(k)),
                            Record(Sibling(k), TYPE_A, IP),
                            Record(NameSection6(host), TYPE_A, IP),
                            Record(Pointer(12), TYPE_A, IP)>>), fill)).answers =
                      <<Found6(Canonical[host], TYPE_CNAME),
                        Found6(<<98, Dot>> \o Suffix(k), TYPE_A),
                        Found6(Canonical[host], TYPE_A), Found6(Canonical[host], TYPE_A)>>
    BY Zenon DEF ReadsAnswers6
  <2>1. host \in Names /\ CanBeSent6(host)
    BY DEF NameTyped, CanBeSent6, Names, Carried6
  <2>2. fill \in Octet
    BY BuffersAssumption
  <2>3. StartsLabel(Canonical[host], k)
    <3>1. Canonical[host] \in Names
      BY <2>1, CanonicalIs DEF Writes
    <3> QED BY <3>1 DEF LabelStarts, StartsLabel, Names
  <2> DEFINE q == SuffixAt(k)
  <2>4. q = 12 + k - 1 /\ Sibling(k) = SiblingOf(q)
    BY Zenon DEF SuffixAt, Sibling, SiblingOf
  <2> HIDE DEF q
  <2>5. parse_dns_query6(Buffer(Response(1, host,
               <<Record(Pointer(12), TYPE_CNAME, SiblingOf(q)),
                 Record(SiblingOf(q), TYPE_A, IP),
                 Record(NameSection6(host), TYPE_A, IP),
                 Record(Pointer(12), TYPE_A, IP)>>), fill)).answers = AliasAnswers(host, k)
    BY <2>1, <2>2, <2>3, <2>4, AliasRead, Zenon
  <2>6. AliasAnswers(host, k) =
            <<Found6(Canonical[host], TYPE_CNAME), Found6(<<98, Dot>> \o Suffix(k), TYPE_A),
              Found6(Canonical[host], TYPE_A), Found6(Canonical[host], TYPE_A)>>
    <3>1. \A name : /\ AnswerOf(name, TYPE_A, IP) = Found6(name, TYPE_A)
                    /\ AnswerOf(name, TYPE_CNAME, <<>>) = Found6(name, TYPE_CNAME)
      <4>1. TYPE_CNAME # TYPE_A
        BY DEF TYPE_CNAME, TYPE_A
      <4> QED BY <4>1, Zenon DEF AnswerOf, Found6
    <3> DEFINE c == Canonical[host]
               e == <<98, Dot>> \o SubSeq(c, k, Len(c))
    <3>2. /\ AnswerOf(c, TYPE_A, IP) = Found6(c, TYPE_A)
          /\ AnswerOf(c, TYPE_CNAME, <<>>) = Found6(c, TYPE_CNAME)
          /\ AnswerOf(e, TYPE_A, IP) = Found6(e, TYPE_A)
      BY <3>1, Zenon
    <3>3. e = <<98, Dot>> \o Suffix(k)
      BY Zenon DEF Suffix
    <3> HIDE DEF e
    <3>4. AliasAnswers(host, k) = <<AnswerOf(c, TYPE_CNAME, <<>>), AnswerOf(e, TYPE_A, IP),
                                    AnswerOf(c, TYPE_A, IP), AnswerOf(c, TYPE_A, IP)>>
      BY Zenon DEF AliasAnswers, e
    <3> QED BY <3>2, <3>3, <3>4, Zenon
  <2> QED BY <2>4, <2>5, <2>6
<1> QED BY <1>1, TypedNames, PTL

-----------------------------------------------------------------------------
\* The system: what its programs find in their buffers.

LEMMA HostIs == \A h \in Hosts : h \in Names /\ (Carried(h) => CanBeSent(h))
<1> SUFFICES ASSUME NEW h \in Hosts PROVE h \in Names /\ (Carried(h) => CanBeSent(h))
  OBVIOUS
<1>1. h \in Seq(Octet \ {NUL})
  BY HostsAssumption
<1>2. h \in Seq(Octet) /\ NoneIs(h, NUL)
  BY <1>1 DEF NoneIs
<1>3. h \in Names
  BY <1>2 DEF Names
<1> QED BY <1>2, <1>3, CarriedIsReadable DEF CanBeSent

\* What a client sends for a host name is octets, and for one that is carried the
\* query for it.
LEMMA HostTextIs ==
    \A h \in Hosts, behind \in Behind :
        HostText(h, behind) \in Names /\ (Carried(h) => HostText(h, behind) = h)
<1> SUFFICES ASSUME NEW h \in Hosts, NEW behind \in Behind
             PROVE  HostText(h, behind) \in Names /\ (Carried(h) => HostText(h, behind) = h)
  OBVIOUS
<1>1. h \in Names
  BY HostIs
<1>2. behind \in Names
  <2>1. <<>> \in Names /\ \A x \in Octet : <<x>> \in Names
    BY DEF Names
  <2> QED BY <2>1, BuffersAssumption DEF Behind
<1>3. Len(h) < HOST_NAME_SIZE => HostText(h, behind) = h
  BY Zenon DEF HostText
<1>4. ~(Len(h) < HOST_NAME_SIZE) => HostText(h, behind) \in Names
  <2> DEFINE n == HOST_NAME_SIZE
             part == SubSeq(h, 1, n)
  <2>1. n \in Nat /\ Len(h) \in Nat
    BY <1>1, NamesJoin, SizeAssumption
  <2> HIDE DEF n
  <2>2. ~(Len(h) < n) => n <= Len(h)
    BY <2>1
  <2>3. n <= Len(h) => part \in Names
    <3>1. h \in Seq(Octet)
      BY <1>1 DEF Names
    <3>2. n <= Len(h) => \A j \in 1 .. n : h[j] \in Octet
      BY <2>1, <3>1
    <3>3. n <= Len(h) => SubSeq(h, 1, n) \in Seq(Octet)
      BY <2>1, <3>1, <3>2
    <3> QED BY <3>3 DEF Names
  <2> HIDE DEF part
  <2>4. part \in Names => part \o behind \in Names
    BY <1>2, NamesJoin, Zenon
  <2>5. ~(Len(h) < n) => HostText(h, behind) = part \o behind
    BY Zenon DEF HostText, n, part
  <2> QED BY <2>2, <2>3, <2>4, <2>5, Zenon DEF n
<1> QED BY <1>1, <1>3, <1>4 DEF Carried

\* The empty name is one that can be sent, too.
LEMMA EmptyName == <<>> \in Names /\ CanBeSent(<<>>) /\ Canonical[<<>>] = <<>>
<1>1. <<>> \in Names /\ Len(<<>>) = 0
  BY DEF Names
<1> DEFINE e == <<>>
<1> HIDE DEF e
<1>2. e \in Names /\ Len(e) = 0
  BY <1>1, Zenon DEF e
<1>3. \A x \in 1 .. Len(e) : e[x] = Dot
  BY <1>2
<1>4. Label(e) = <<>>
  BY <1>2, <1>3, NoLabel
<1>5. Canonical[e] = <<>>
  BY <1>2, <1>4, NoMoreLabels
<1>6. NoneIs(e, NUL) /\ LabelsFit(e, 255)
  BY <1>2 DEF NoneIs, LabelsFit
<1>7. Len(Label(e)) = 0 /\ Len(Canonical[e]) = 0
  BY <1>1, <1>4, <1>5
<1>8. Readable(e)
  BY <1>6, <1>7, SizeAssumption DEF Readable
<1> QED BY <1>2, <1>5, <1>6, <1>8 DEF CanBeSent, e

\* A message that asks for the name n, and one that answers it.
IsQuery(d, n) == \E flags \in FlagPairs : d = QueryMessage(flags, n)
IsReply(d, id, n) == \E flags \in FlagPairs : d = ReplyMessage(flags, id, Canonical[n])

\* The answer a client prints for it.
AnswerFor(id, n) == [id |-> id, qname |-> Canonical[n], answers |-> Found4(Canonical[n])]

AnswerIn(b) ==
    LET parsed == parse_dns_query(b)
    IN  [id |-> parsed.id, qname |-> parsed.qname, answers |-> parsed.answers]

QueryIsTaken(d, n) ==
    /\ d \in Names
    /\ \A fill \in Octet : QueryIsRead(Buffer(d, fill), n)

ReplyIsTaken(d, id, n) ==
    /\ d \in Names
    /\ \A fill \in Octet :
          ~Overruns(Buffer(d, fill)) /\ AnswerIn(Buffer(d, fill)) = AnswerFor(id, n)

LEMMA MessagesAreTaken ==
    ASSUME NEW d, NEW n \in Names, CanBeSent(n)
    PROVE  /\ IsQuery(d, n) => QueryIsTaken(d, n)
           /\ \A id \in Octet : IsReply(d, id, n) => ReplyIsTaken(d, id, n)
<1>1. ASSUME NEW flags \in FlagPairs, d = QueryMessage(flags, n)
      PROVE  QueryIsTaken(d, n)
  <2>1. 0 \in Octet
    BY DEF Octet
  <2>2. d \in Names
    BY <1>1, QueryType, Zenon
  <2>3. ASSUME NEW fill \in Octet PROVE QueryIsRead(Buffer(d, fill), n)
    BY <1>1, QueryRead, Zenon
  <2> QED BY <2>2, <2>3 DEF QueryIsTaken
<1>2. ASSUME NEW id \in Octet, NEW flags \in FlagPairs, d = ReplyMessage(flags, id, Canonical[n])
      PROVE  ReplyIsTaken(d, id, n)
  <2>1. 0 \in Octet
    BY DEF Octet
  <2>2. d \in Names
    BY <1>2, <2>1, ReplyRead, Zenon
  <2>3. ASSUME NEW fill \in Octet
        PROVE  ~Overruns(Buffer(d, fill)) /\ AnswerIn(Buffer(d, fill)) = AnswerFor(id, n)
    <3>1. ReplyIsRead(Buffer(d, fill), id, n)
      BY <1>2, ReplyRead, Zenon
    <3> QED BY <3>1 DEF ReplyIsRead, AnswerIn, AnswerFor
  <2> QED BY <2>2, <2>3 DEF ReplyIsTaken
<1> QED BY <1>1, <1>2 DEF IsQuery, IsReply

\* The buffer of a server that has received nothing overruns its arrays.
LEMMA StartOverruns == Overruns(Empty(Zero)) /\ Empty(Zero) \in Buffers
<1> DEFINE b == Empty(Zero)
<1>1. Zero \in Octet /\ <<>> \in Names /\ Len(<<>>) = 0
  BY DEF Zero, Octet, Names
<1>2. b \in Buffers /\ b.data = <<>> /\ b.fill = Zero
  BY <1>1, BufferType, Zenon DEF Empty
<1> HIDE DEF b
<1>3. At(b, 6) = Zero /\ At(b, 7) = Zero
  BY <1>1, <1>2 DEF At
<1>4. an_count(b) = 256 * Zero + Zero
  BY <1>3 DEF an_count, Word
<1>5. Overruns(b)
  BY <1>4 DEF Overruns, StaysInArrays, Zero, MAX_ANSWERS
<1> QED BY <1>2, <1>5 DEF b

\* From the buffer it has cleared, the server reads the empty name.
LEMMA ClearIsRead ==
    LET b == Empty(NUL)
    IN  /\ b \in Buffers /\ ~Overruns(b)
        /\ parse_dns_query(b).id = 0 /\ parse_dns_query(b).qname = <<>>
<1> DEFINE b == Empty(NUL)
<1>1. NUL \in Octet /\ <<>> \in Names /\ Len(<<>>) = 0
  BY DEF NUL, Octet, Names
<1>2. b \in Buffers /\ b.data = <<>> /\ b.fill = NUL
  BY <1>1, BufferType, Zenon DEF Empty
<1> HIDE DEF b
<1>3. \A p \in Nat : At(b, p) = NUL
  BY <1>1, <1>2 DEF At
<1>4. ~IsCompressed(b, 12)
  BY <1>3 DEF IsCompressed, NUL
<1>5. NameText(b, 12) = <<>>
  <2>1. NameText(b, 12) = TextOf(b, 12)[0]
    BY Zenon DEF NameText, TextOf
  <2>2. At(b, 12 + 0) = NUL
    BY <1>3
  <2>3. 12 \in Nat /\ 0 \in Nat
    OBVIOUS
  <2>4. TextOf(b, 12)[0] = <<>>
    BY <1>2, <2>2, <2>3, TextIs, Zenon
  <2> QED BY <2>1, <2>4
<1>6. DomainText(b, 12) = <<>>
  BY <1>4, <1>5 DEF DomainText
<1>7. Domain(b).name = <<>>
  <2> DEFINE e == <<>>
  <2> HIDE DEF e
  <2>1. e \in Names /\ NoneIs(e, NUL)
    BY EmptyName DEF e, CanBeSent
  <2>2. CStr(e) = e
    BY <2>1, WholeText
  <2>3. Domain(b).name = CStr(DomainText(b, 12))
    BY DEF Domain, get_domain_name
  <2> QED BY <1>6, <2>2, <2>3 DEF e
<1>8. an_count(b) = 0
  BY <1>3 DEF an_count, Word, NUL
<1>9. ~Overruns(b)
  <2>1. Len(DomainText(b, 12)) = 0
    BY <1>1, <1>6
  <2>2. ~OverrunsName(b, 12)
    <3> HIDE DEF b
    <3>1. OverrunsName(b, 12) <=> Len(DomainText(b, 12)) >= HOST_NAME_SIZE
      BY Zenon DEF OverrunsName
    <3>2. ~(0 >= HOST_NAME_SIZE)
      BY SizeAssumption
    <3> QED BY <2>1, <3>1, <3>2
  <2>3. an_count(b) <= MAX_ANSWERS /\ 1 .. an_count(b) = {}
    BY <1>8 DEF MAX_ANSWERS
  <2> QED BY <2>2, <2>3, Zenon DEF Overruns, StaysInArrays
<1>10. parse_dns_query(b).id = 0
  <2>1. parse_dns_query(b).id = At(b, 0) + 256 * At(b, 1)
    BY ParseIs
  <2> QED BY <1>3, <2>1 DEF NUL
<1>11. parse_dns_query(b).qname = <<>>
  BY <1>7, ParseIs
<1> QED BY <1>2, <1>9, <1>10, <1>11 DEF b

-----------------------------------------------------------------------------
\* The invariant of the system.

\* A client that has had address a asked for a name that is not carried.
Misused(a) == \E k \in 1 .. Len(users[a]) : ~Carried(host_name[users[a][k]])

\* A client that has had address a asked with the message d, unless one asked for
\* such a name ...
Asked(a, d) ==
    /\ d \in Names
    /\ \/ Misused(a)
       \/ \E k \in 1 .. Len(users[a]) :
             Carried(host_name[users[a][k]]) /\ IsQuery(d, host_name[users[a][k]])

\* ... or d answers such a client, or nobody, once recvfrom has failed.
Answered(a, d) ==
    \/ Misused(a)
    \/ \E k \in 1 .. Len(users[a]) :
          Carried(host_name[users[a][k]]) /\ IsReply(d, 23, host_name[users[a][k]])
    \/ errors > 0 /\ IsReply(d, 0, <<>>)

ClientTypes ==
    /\ NetTypeOK
    /\ cpc \in [Clients -> {"send", "wait", "done", "crashed", "exited"}]
    /\ host_name \in [Clients -> Hosts]
    /\ caddr \in [Clients -> Addrs \union {NoAddr}]
    /\ DOMAIN answer = Clients
    /\ users \in [Addrs -> Seq(Clients)]

\* Every message on its way to the server was asked from its address, and every one
\* to a client answers its address.
Travelling ==
    \A dgram \in DOMAIN net :
        /\ dgram.addr \in Addrs
        /\ dgram.to = "server" => Asked(dgram.addr, dgram.data)
        /\ dgram.to = "client" => Answered(dgram.addr, dgram.data)

\* A client that waits is the last that was given its address.
LastUser ==
    \A c \in Clients :
        cpc[c] = "wait" =>
            LET u == users[caddr[c]]
            IN  caddr[c] \in Addrs /\ Len(u) > 0 /\ u[Len(u)] = c

\* A user of the client's address that was not after it asked for a name that is not
\* carried.
Misled(c) ==
    LET u == users[caddr[c]]
    IN  /\ caddr[c] \in Addrs
        /\ \E k, l \in 1 .. Len(u) : k <= l /\ u[l] = c /\ ~Carried(host_name[u[k]])

\* A client that is done has the answer to a user of its address that was not after
\* it, or to nobody.
HasAnswer(c) ==
    LET u == users[caddr[c]]
    IN  /\ caddr[c] \in Addrs
        /\ \/ \E k, l \in 1 .. Len(u) :
                 k <= l /\ u[l] = c /\ answer[c] = AnswerFor(23, host_name[u[k]])
           \/ errors > 0 /\ answer[c] = AnswerFor(0, <<>>)

ClientSide ==
    /\ ClientTypes
    /\ Travelling
    /\ LastUser
    /\ \A c \in Clients :
          /\ cpc[c] = "done" => HasAnswer(c) \/ Misled(c)
          /\ cpc[c] = "crashed" => ~Carried(host_name[c]) \/ Misled(c)

ServerTypes ==
    /\ pc \in {"recv", "serve", "crashed", "exited"}
    /\ buf \in [data : Names, fill : {NUL, Zero}]
    /\ clientaddr \in Addrs \union {NoAddr}
    /\ send_flags \in FlagPairs
    /\ errors \in Nat /\ served \in Nat

\* Nothing has been received yet.
AtStart == served = 0 /\ clientaddr = NoAddr /\ buf = Empty(Zero)

\* A reply has been sent, and nothing received since.
HasReplied == clientaddr \in Addrs /\ buf = Empty(NUL)

HasQuery == clientaddr \in Addrs /\ Asked(clientaddr, buf.data)

ServerSide ==
    /\ ServerTypes
    /\ pc = "recv" => \/ AtStart
                      \/ HasReplied /\ send_flags = <<NUL, NUL>>
    /\ pc = "serve" => \/ errors > 0 /\ AtStart
                       \/ errors > 0 /\ HasReplied
                       \/ HasQuery
    /\ pc = "crashed" => \/ errors > 0 /\ served = 0 /\ clientaddr = NoAddr
                         \/ clientaddr \in Addrs /\ Misused(clientaddr)

IInv == ClientSide /\ ServerSide

\* Any datagram more in the network, or less.
LEMMA Added ==
    ASSUME NEW B, IsABag(B), NEW x
    PROVE  IsABag(BagAdd(B, x)) /\ DOMAIN BagAdd(B, x) = DOMAIN B \cup {x}
  BY DEF IsABag, BagAdd

LEMMA Removed ==
    ASSUME NEW B, IsABag(B), NEW x
    PROVE  IsABag(BagRemove(B, x)) /\ DOMAIN BagRemove(B, x) \subseteq DOMAIN B
  BY DEF IsABag, BagRemove

\* Addresses only get more users, and more calls have failed: what was asked stays
\* asked, and what was answered, answered.
UsersGrow ==
    /\ UNCHANGED host_name
    /\ errors \in Nat /\ errors' \in Nat /\ errors <= errors'
    /\ \A a \in Addrs :
          /\ Len(users[a]) \in Nat /\ Len(users'[a]) \in Nat /\ Len(users[a]) <= Len(users'[a])
          /\ \A k \in 1 .. Len(users[a]) : users'[a][k] = users[a][k]

LEMMA MisusedKeeps ==
    ASSUME UsersGrow
    PROVE  \A a \in Addrs : Misused(a) => Misused(a)'
<1> SUFFICES ASSUME NEW a \in Addrs PROVE Misused(a) => Misused(a)'
  OBVIOUS
<1>1. \A k \in 1 .. Len(users[a]) :
          k \in 1 .. Len(users'[a]) /\ host_name'[users'[a][k]] = host_name[users[a][k]]
  BY DEF UsersGrow
<1> QED BY <1>1 DEF Misused

LEMMA UsersKeep ==
    ASSUME UsersGrow
    PROVE  \A a \in Addrs : \A d : /\ Asked(a, d) => Asked(a, d)'
                                   /\ Answered(a, d) => Answered(a, d)'
<1> SUFFICES ASSUME NEW a \in Addrs, NEW d
             PROVE  /\ Asked(a, d) => Asked(a, d)'
                    /\ Answered(a, d) => Answered(a, d)'
  OBVIOUS
<1>1. \A k \in 1 .. Len(users[a]) :
          k \in 1 .. Len(users'[a]) /\ host_name'[users'[a][k]] = host_name[users[a][k]]
  BY DEF UsersGrow
<1>2. errors > 0 => errors' > 0
  BY DEF UsersGrow
<1>3. Misused(a) => Misused(a)'
  BY MisusedKeeps
<1>4. Asked(a, d) => Asked(a, d)'
  BY <1>1, <1>3 DEF Asked, IsQuery
<1>5. Answered(a, d) => Answered(a, d)'
  BY <1>1, <1>2, <1>3 DEF Answered, IsReply
<1> QED BY <1>4, <1>5

\* What a client has come to stays explained.
LEMMA ClientKeeps ==
    ASSUME UsersGrow, NEW c \in Clients, caddr'[c] = caddr[c]
    PROVE  /\ Misled(c) => Misled(c)'
           /\ answer'[c] = answer[c] /\ HasAnswer(c) => HasAnswer(c)'
<1> DEFINE u == users[caddr[c]]
           v == users'[caddr[c]]
<1>1. caddr[c] \in Addrs => \A k \in 1 .. Len(u) :
          k \in 1 .. Len(v) /\ v[k] = u[k] /\ host_name'[v[k]] = host_name[u[k]]
  BY DEF UsersGrow
<1>2. errors > 0 => errors' > 0
  BY DEF UsersGrow
<1> HIDE DEF u, v
<1>3. ASSUME Misled(c) PROVE Misled(c)'
  <2>1. caddr[c] \in Addrs
    BY <1>3 DEF Misled
  <2>2. PICK k, l \in 1 .. Len(u) : k <= l /\ u[l] = c /\ ~Carried(host_name[u[k]])
    BY <1>3 DEF Misled, u
  <2>3. k \in 1 .. Len(v) /\ l \in 1 .. Len(v) /\ v[l] = c /\ ~Carried(host_name'[v[k]])
    BY <1>1, <2>1, <2>2, Zenon
  <2> QED BY <2>1, <2>2, <2>3, Zenon DEF Misled, v
<1>4. ASSUME answer'[c] = answer[c], HasAnswer(c) PROVE HasAnswer(c)'
  <2>1. caddr[c] \in Addrs
    BY <1>4 DEF HasAnswer
  <2>2. ASSUME NEW k \in 1 .. Len(u), NEW l \in 1 .. Len(u), k <= l, u[l] = c,
               answer[c] = AnswerFor(23, host_name[u[k]])
        PROVE  HasAnswer(c)'
    <3>1. k \in 1 .. Len(v) /\ l \in 1 .. Len(v) /\ v[l] = c
      BY <1>1, <2>1, <2>2, Zenon
    <3>2. answer'[c] = AnswerFor(23, host_name'[v[k]])
      BY <1>1, <1>4, <2>1, <2>2, Zenon
    <3> QED BY <2>1, <2>2, <3>1, <3>2, Zenon DEF HasAnswer, AnswerFor, v
  <2>3. ASSUME errors > 0, answer[c] = AnswerFor(0, <<>>)
        PROVE  HasAnswer(c)'
    BY <1>2, <1>4, <2>1, <2>3 DEF HasAnswer, AnswerFor
  <2> QED BY <1>4, <2>2, <2>3, Zenon DEF HasAnswer, u
<1> QED BY <1>3, <1>4

\* Without a new client, what the clients have and the network carries stays right,
\* whatever datagrams disappear, clients exit and calls fail.
LEMMA ClientsKeep ==
    ASSUME ClientSide, UNCHANGED <<host_name, caddr, answer, users>>,
           errors \in Nat, errors' \in Nat, errors <= errors',
           IsABag(net'), DOMAIN net' \subseteq DOMAIN net,
           losses' \in 0 .. MaxLosses, dups' \in 0 .. MaxDups,
           cpc' \in [Clients -> {"send", "wait", "done", "crashed", "exited"}],
           \A c \in Clients : \/ cpc'[c] \in {cpc[c], "exited"}
                              \/ cpc'[c] = "crashed" /\ ~Carried(host_name[c])
    PROVE  ClientSide'
<1>1. UsersGrow
  BY DEF UsersGrow, ClientSide, ClientTypes
<1>2. \A a \in Addrs : \A d : /\ Asked(a, d) => Asked(a, d)'
                              /\ Answered(a, d) => Answered(a, d)'
  BY <1>1, UsersKeep
<1>3. ClientTypes'
  BY DEF ClientSide, ClientTypes, NetTypeOK
<1>4. Travelling'
  <2> SUFFICES ASSUME NEW dgram \in DOMAIN net
               PROVE  /\ dgram.addr \in Addrs
                      /\ dgram.to = "server" => Asked(dgram.addr, dgram.data)'
                      /\ dgram.to = "client" => Answered(dgram.addr, dgram.data)'
    BY Zenon DEF Travelling
  <2> QED BY <1>2 DEF ClientSide, Travelling
<1>5. LastUser'
  <2>1. LastUser
    BY DEF ClientSide
  <2>2. /\ users' = users /\ caddr' = caddr
        /\ \A c \in Clients : cpc'[c] = "wait" => cpc[c] = "wait"
    OBVIOUS
  <2> QED BY <2>1, <2>2 DEF LastUser
<1>6. ASSUME NEW c \in Clients
      PROVE  /\ cpc'[c] = "done" => (HasAnswer(c) \/ Misled(c))'
             /\ cpc'[c] = "crashed" => ~Carried(host_name'[c]) \/ Misled(c)'
  <2>1. caddr'[c] = caddr[c] /\ answer'[c] = answer[c] /\ host_name'[c] = host_name[c]
    OBVIOUS
  <2>2. (Misled(c) => Misled(c)') /\ (HasAnswer(c) => HasAnswer(c)')
    BY <1>1, <2>1, ClientKeeps
  <2>3. /\ cpc[c] = "done" => HasAnswer(c) \/ Misled(c)
        /\ cpc[c] = "crashed" => ~Carried(host_name[c]) \/ Misled(c)
    BY DEF ClientSide
  <2>4. /\ cpc'[c] = "done" => cpc[c] = "done"
        /\ cpc'[c] = "crashed" => cpc[c] = "crashed" \/ ~Carried(host_name[c])
    OBVIOUS
  <2> QED BY <2>1, <2>2, <2>3, <2>4
<1> QED BY <1>3, <1>4, <1>5, <1>6 DEF ClientSide

\* What the server has in its buffer stays right when the clients go on.
LEMMA ServerKeeps ==
    ASSUME ServerSide, UsersGrow, UNCHANGED vars_server
    PROVE  ServerSide'
<1>1. UNCHANGED <<pc, buf, clientaddr, send_flags, errors, served>>
  BY DEF vars_server
<1>2. ServerTypes'
  BY <1>1 DEF ServerSide, ServerTypes
<1>3. HasQuery => HasQuery'
  <2> SUFFICES ASSUME HasQuery PROVE HasQuery'
    OBVIOUS
  <2>1. PICK a, d : a = clientaddr /\ d = buf.data
    OBVIOUS
  <2>2. a \in Addrs /\ Asked(a, d)
    BY <2>1 DEF HasQuery
  <2>3. Asked(a, d)'
    BY <2>2, UsersKeep
  <2>4. a = clientaddr' /\ d = buf'.data
    BY <1>1, <2>1
  <2> QED BY <2>2, <2>3, <2>4 DEF HasQuery, Asked, Misused
<1>4. AtStart = AtStart' /\ HasReplied = HasReplied'
  BY <1>1 DEF AtStart, HasReplied, Empty, Buffer
<1>5. clientaddr \in Addrs /\ Misused(clientaddr) => Misused(clientaddr)'
  <2>1. PICK a : a = clientaddr
    OBVIOUS
  <2>2. a \in Addrs /\ Misused(a) => Misused(a)'
    BY MisusedKeeps
  <2>3. a = clientaddr'
    BY <1>1, <2>1
  <2> QED BY <2>1, <2>2, <2>3 DEF Misused
<1> QED BY <1>1, <1>2, <1>3, <1>4, <1>5 DEF ServerSide

-----------------------------------------------------------------------------
\* Steps of the system.

LEMMA InitIInv == Init => IInv
<1> SUFFICES ASSUME Init PROVE IInv
  OBVIOUS
<1>1. /\ pc = "recv" /\ buf = Empty(Zero) /\ clientaddr = NoAddr /\ send_flags \in Flags
      /\ errors = 0 /\ served = 0 /\ cpc = [c \in Clients |-> "send"]
      /\ host_name \in [Clients -> Hosts] /\ caddr = [c \in Clients |-> NoAddr]
      /\ answer = [c \in Clients |-> NoAnswer] /\ users = [a \in Addrs |-> <<>>]
      /\ net = EmptyBag /\ losses = 0 /\ dups = 0
  BY DEF Init, NetInit
<1>2. NetTypeOK /\ DOMAIN net = {}
  BY <1>1, NetworkAssumption DEF NetTypeOK, IsABag, EmptyBag, SetToBag
<1>3. ClientTypes
  BY <1>1, <1>2 DEF ClientTypes
<1>4. Travelling
  BY <1>2 DEF Travelling
<1>5. ClientSide
  BY <1>1, <1>3, <1>4 DEF ClientSide, LastUser
<1>6. Empty(Zero) \in [data : Names, fill : {NUL, Zero}]
  BY DEF Empty, Buffer, Names
<1>7. ServerTypes
  BY <1>1, <1>6, BuffersAssumption DEF ServerTypes, FlagPairs
<1>8. ServerSide
  BY <1>1, <1>7 DEF ServerSide, AtStart
<1> QED BY <1>5, <1>8 DEF IInv

\* The server has in its buffer the query that has arrived.
LEMMA RecvIInv == IInv /\ Recv => IInv'
<1> SUFFICES ASSUME IInv, Recv PROVE IInv'
  OBVIOUS
<1>1. PICK dgram \in DOMAIN net :
          /\ dgram.to = "server"
          /\ net' = BagRemove(net, dgram) /\ UNCHANGED <<losses, dups>>
          /\ buf' = Buffer(dgram.data, buf.fill) /\ clientaddr' = dgram.addr
  BY DEF Recv, RecvFrom, Sender
<1>2. /\ pc' = "serve" /\ UNCHANGED <<send_flags, errors, served>>
      /\ UNCHANGED <<cpc, host_name, caddr, answer, users>>
  BY DEF Recv, vars_client
<1>3. ClientSide /\ ServerSide /\ ClientTypes /\ ServerTypes
  BY DEF IInv, ClientSide, ServerSide
<1>4. IsABag(net') /\ DOMAIN net' \subseteq DOMAIN net
  BY <1>1, <1>3, Removed DEF ClientTypes, NetTypeOK
<1>5. ClientSide'
  BY <1>1, <1>2, <1>3, <1>4, ClientsKeep DEF ClientTypes, NetTypeOK, ServerTypes
<1>6. dgram.addr \in Addrs /\ Asked(dgram.addr, dgram.data)
  BY <1>1, <1>3 DEF ClientSide, Travelling
<1>7. dgram.data \in Names
  BY <1>6 DEF Asked
<1>8. buf'.data = dgram.data /\ buf'.fill = buf.fill
  BY <1>1 DEF Buffer
<1>9. HasQuery'
  <2>1. Asked(dgram.addr, dgram.data)'
    BY <1>2, <1>6 DEF Asked, Misused
  <2> QED BY <1>1, <1>6, <1>8, <2>1 DEF HasQuery, Asked, Misused
<1>10. buf' \in [data : Names, fill : {NUL, Zero}]
  BY <1>1, <1>3, <1>7 DEF ServerTypes, Buffer
<1>11. ServerTypes'
  BY <1>1, <1>2, <1>3, <1>6, <1>10 DEF ServerTypes
<1>12. ServerSide'
  BY <1>2, <1>9, <1>11 DEF ServerSide
<1> QED BY <1>5, <1>12 DEF IInv

\* A failing recvfrom leaves what the buffer had at the start or after a reply.
LEMMA RecvFailsIInv == IInv /\ RecvFails => IInv'
<1> SUFFICES ASSUME IInv, RecvFails PROVE IInv'
  OBVIOUS
<1>1. /\ pc = "recv" /\ pc' = "serve" /\ errors' = errors + 1
      /\ UNCHANGED <<buf, clientaddr, send_flags, served>>
      /\ UNCHANGED <<cpc, host_name, caddr, answer, users>> /\ UNCHANGED <<net, losses, dups>>
  BY DEF RecvFails, vars_client, netvars
<1>2. ClientSide /\ ServerSide /\ ClientTypes /\ ServerTypes
  BY DEF IInv, ClientSide, ServerSide
<1>3. errors \in Nat /\ errors' \in Nat /\ errors <= errors' /\ errors' > 0
  BY <1>1, <1>2 DEF ServerTypes
<1>4. ClientSide'
  BY <1>1, <1>2, <1>3, ClientsKeep DEF ClientTypes, NetTypeOK
<1>5. ServerTypes'
  BY <1>1, <1>2, <1>3 DEF ServerTypes
<1>6. AtStart \/ HasReplied
  BY <1>1, <1>2 DEF ServerSide
<1>7. (AtStart => AtStart') /\ (HasReplied => HasReplied')
  BY <1>1 DEF AtStart, HasReplied, Empty, Buffer
<1>8. ServerSide'
  BY <1>1, <1>3, <1>5, <1>6, <1>7 DEF ServerSide
<1> QED BY <1>4, <1>8 DEF IInv

\* The reply answers who has asked from the address, or nobody.
LEMMA ServeIInv == IInv /\ Serve => IInv'
<1> SUFFICES ASSUME IInv, Serve PROVE IInv'
  OBVIOUS
<1> DEFINE id == parse_dns_query(buf).id
           qname == parse_dns_query(buf).qname
           d == ReplyMessage(send_flags, id, qname)
           dgram == ToClient(clientaddr, d)
<1>1. /\ pc = "serve" /\ ~Overruns(buf)
      /\ net' = BagAdd(net, dgram) /\ UNCHANGED <<losses, dups>>
  BY Zenon DEF Serve, SendTo
<1>2. /\ buf' = Empty(NUL) /\ send_flags' = <<NUL, NUL>> /\ served' = served + 1 /\ pc' = "recv"
      /\ UNCHANGED <<clientaddr, errors>> /\ UNCHANGED <<cpc, host_name, caddr, answer, users>>
  BY DEF Serve, Cleared, FlagsCleared, vars_client
<1>3. ClientSide /\ ServerSide /\ ClientTypes /\ ServerTypes
  BY DEF IInv, ClientSide, ServerSide
<1>4. clientaddr \in Addrs /\ Answered(clientaddr, d)
  <2>1. CASE errors > 0 /\ AtStart
    BY <1>1, <2>1, StartOverruns DEF AtStart
  <2>2. CASE errors > 0 /\ HasReplied
    <3>1. id = 0 /\ qname = Canonical[<<>>]
      BY <2>2, ClearIsRead, EmptyName DEF HasReplied
    <3>2. d = ReplyMessage(send_flags, 0, Canonical[<<>>])
      BY <3>1, Zenon
    <3>3. IsReply(d, 0, <<>>)
      BY <1>3, <3>2, Zenon DEF IsReply, ServerTypes
    <3> QED BY <2>2, <3>3 DEF Answered, HasReplied
  <2>4. CASE HasQuery /\ Misused(clientaddr)
    BY <2>4 DEF HasQuery, Answered
  <2>3. CASE HasQuery /\ ~Misused(clientaddr)
    <3>1. PICK k \in 1 .. Len(users[clientaddr]) :
              /\ Carried(host_name[users[clientaddr][k]])
              /\ IsQuery(buf.data, host_name[users[clientaddr][k]])
      BY <2>3 DEF HasQuery, Asked
    <3> DEFINE n == host_name[users[clientaddr][k]]
    <3>2. n \in Hosts
      BY <1>3, <2>3 DEF ClientTypes, HasQuery
    <3>3. QueryIsTaken(buf.data, n)
      BY <3>1, <3>2, HostIs, MessagesAreTaken, Zenon
    <3>4. buf = Buffer(buf.data, buf.fill) /\ buf.fill \in Octet
      BY <1>3 DEF ServerTypes, Buffer, NUL, Zero, Octet
    <3>5. QueryIsRead(buf, n)
      BY <3>3, <3>4, Zenon DEF QueryIsTaken
    <3>6. id = 23 /\ qname = Canonical[n]
      BY <3>5 DEF QueryIsRead
    <3>7. d = ReplyMessage(send_flags, 23, Canonical[n])
      BY <3>6, Zenon
    <3>8. IsReply(d, 23, n)
      <4> HIDE DEF n, d
      <4> QED BY <1>3, <3>7, Zenon DEF IsReply, ServerTypes
    <3> QED BY <2>3, <3>1, <3>8 DEF Answered, HasQuery
  <2> QED BY <1>1, <1>3, <2>1, <2>2, <2>3, <2>4 DEF ServerSide
<1> HIDE DEF d
<1>5. IsABag(net') /\ DOMAIN net' = DOMAIN net \cup {dgram}
  BY <1>1, <1>3, Added DEF ClientTypes, NetTypeOK
<1>6. dgram.addr = clientaddr /\ dgram.to = "client" /\ dgram.data = d
  BY DEF ToClient
<1> HIDE DEF dgram
<1>7. Travelling'
  <2> SUFFICES ASSUME NEW g \in DOMAIN net \cup {dgram}
               PROVE  /\ g.addr \in Addrs
                      /\ g.to = "server" => Asked(g.addr, g.data)
                      /\ g.to = "client" => Answered(g.addr, g.data)
    BY <1>2, <1>5 DEF Travelling, Asked, Answered, Misused
  <2>1. CASE g = dgram
    BY <1>4, <1>6, <2>1
  <2>2. CASE g # dgram
    BY <1>3, <2>2 DEF ClientSide, Travelling
  <2> QED BY <2>1, <2>2
<1>8. ClientTypes'
  <2>1. NetTypeOK'
    BY <1>1, <1>3, <1>5 DEF ClientTypes, NetTypeOK
  <2> QED BY <1>2, <1>3, <2>1 DEF ClientTypes
<1>9. LastUser'
  <2>1. LastUser
    BY <1>3 DEF ClientSide
  <2>2. users' = users /\ caddr' = caddr /\ cpc' = cpc
    BY <1>2
  <2> QED BY <2>1, <2>2 DEF LastUser
<1>10. ASSUME NEW c \in Clients
       PROVE  /\ cpc'[c] = "done" => (HasAnswer(c) \/ Misled(c))'
              /\ cpc'[c] = "crashed" => ~Carried(host_name'[c]) \/ Misled(c)'
  <2>1. UsersGrow
    BY <1>2, <1>3 DEF UsersGrow, ClientTypes, ServerTypes
  <2>2. caddr'[c] = caddr[c] /\ answer'[c] = answer[c]
    BY <1>2
  <2>3. (Misled(c) => Misled(c)') /\ (HasAnswer(c) => HasAnswer(c)')
    BY <2>1, <2>2, ClientKeeps
  <2> QED BY <1>2, <1>3, <2>3 DEF ClientSide
<1>11. ClientSide'
  BY <1>7, <1>8, <1>9, <1>10 DEF ClientSide
<1>12. Empty(NUL) \in [data : Names, fill : {NUL, Zero}]
  BY DEF Empty, Buffer, Names
<1>13. ServerTypes'
  BY <1>2, <1>3, <1>12 DEF ServerTypes, FlagPairs, NUL, Octet
<1>14. HasReplied'
  BY <1>2, <1>4 DEF HasReplied, Empty, Buffer
<1>15. ServerSide'
  BY <1>2, <1>13, <1>14 DEF ServerSide
<1> QED BY <1>11, <1>15 DEF IInv

\* A crash comes only from the buffer of the start, or from a name that is not carried;
\* a failing sendto ends the server.
LEMMA ServerEndsIInv == IInv /\ (Crash \/ SendFails) => IInv'
<1> SUFFICES ASSUME IInv, Crash \/ SendFails PROVE IInv'
  OBVIOUS
<1>1. /\ pc = "serve" /\ UNCHANGED <<buf, clientaddr, send_flags, errors, served>>
      /\ UNCHANGED <<cpc, host_name, caddr, answer, users>> /\ UNCHANGED <<net, losses, dups>>
      /\ pc' = "exited" \/ (pc' = "crashed" /\ Overruns(buf))
  BY DEF Crash, SendFails, vars_client, netvars
<1>2. ClientSide /\ ServerSide /\ ClientTypes /\ ServerTypes
  BY DEF IInv, ClientSide, ServerSide
<1>3. ClientSide'
  BY <1>1, <1>2, ClientsKeep DEF ClientTypes, NetTypeOK, ServerTypes
<1>4. Overruns(buf) => \/ errors > 0 /\ served = 0 /\ clientaddr = NoAddr
                       \/ clientaddr \in Addrs /\ Misused(clientaddr)
  <2>1. ~(HasReplied /\ Overruns(buf))
    BY ClearIsRead DEF HasReplied
  <2>2. HasQuery /\ Overruns(buf) => clientaddr \in Addrs /\ Misused(clientaddr)
    <3> SUFFICES ASSUME HasQuery, ~Misused(clientaddr) PROVE ~Overruns(buf)
      BY DEF HasQuery
    <3>1. PICK k \in 1 .. Len(users[clientaddr]) :
              /\ Carried(host_name[users[clientaddr][k]])
              /\ IsQuery(buf.data, host_name[users[clientaddr][k]])
      BY DEF HasQuery, Asked
    <3> DEFINE n == host_name[users[clientaddr][k]]
    <3>2. n \in Hosts
      BY <1>2 DEF ClientTypes, HasQuery
    <3>3. QueryIsTaken(buf.data, n)
      BY <3>1, <3>2, HostIs, MessagesAreTaken, Zenon
    <3>4. buf = Buffer(buf.data, buf.fill) /\ buf.fill \in Octet
      BY <1>2 DEF ServerTypes, Buffer, NUL, Zero, Octet
    <3>5. QueryIsRead(buf, n)
      BY <3>3, <3>4, Zenon DEF QueryIsTaken
    <3> QED BY <3>5 DEF QueryIsRead
  <2> QED BY <1>1, <1>2, <2>1, <2>2 DEF ServerSide, AtStart
<1>5. ServerTypes'
  BY <1>1, <1>2 DEF ServerTypes
<1>6. clientaddr \in Addrs /\ Misused(clientaddr) => Misused(clientaddr)'
  BY <1>1 DEF Misused
<1>7. ServerSide'
  BY <1>1, <1>4, <1>5, <1>6 DEF ServerSide
<1> QED BY <1>3, <1>7 DEF IInv

\* A client asks from an address that nobody has open.
LEMMA QueryIInv ==
    ASSUME IInv, NEW c \in Clients, Query(c)
    PROVE  IInv'
<1>1. ClientSide /\ ServerSide /\ ClientTypes /\ ServerTypes
  BY DEF IInv, ClientSide, ServerSide
<1>2. PICK a \in Addrs \ Open, flags \in Flags, behind \in Behind :
          /\ caddr' = [caddr EXCEPT ![c] = a]
          /\ users' = [users EXCEPT ![a] = Append(@, c)]
          /\ SendTo(ToServer(a, QueryMessage(flags, HostText(host_name[c], behind))))
  BY DEF Query
<1>0. PICK d, dgram : /\ d = QueryMessage(flags, HostText(host_name[c], behind))
                      /\ dgram = ToServer(a, d)
  OBVIOUS
<1>3. /\ cpc[c] = "send" /\ cpc' = [cpc EXCEPT ![c] = "wait"]
      /\ UNCHANGED <<host_name, answer>> /\ UNCHANGED vars_server /\ errors' = errors
      /\ net' = BagAdd(net, dgram) /\ UNCHANGED <<losses, dups>>
  BY <1>0, <1>2 DEF Query, SendTo, vars_server
<1>4. dgram.addr = a /\ dgram.to = "server" /\ dgram.data = d
  BY <1>0 DEF ToServer
<1>5. d \in Names /\ (Carried(host_name[c]) => IsQuery(d, host_name[c]))
  <2>1. host_name[c] \in Hosts /\ flags \in FlagPairs
    BY <1>1, BuffersAssumption DEF ClientTypes, FlagPairs
  <2> DEFINE text == HostText(host_name[c], behind)
  <2>2. text \in Names /\ (Carried(host_name[c]) => text = host_name[c])
    BY <2>1, HostTextIs, Zenon
  <2> HIDE DEF text
  <2>3. d = QueryMessage(flags, text)
    BY <1>0 DEF text
  <2> QED BY <2>1, <2>2, <2>3, QueryType, Zenon DEF IsQuery
<1>6. IsABag(net') /\ DOMAIN net' = DOMAIN net \cup {dgram}
  BY <1>1, <1>3, Added DEF ClientTypes, NetTypeOK
<1>7. /\ \A b \in Addrs : Len(users[b]) \in Nat /\ Len(users'[b]) \in Nat
      /\ \A b \in Addrs : users[b] \in Seq(Clients) /\ users'[b] \in Seq(Clients)
      /\ \A b \in Addrs \ {a} : users'[b] = users[b]
      /\ Len(users'[a]) = Len(users[a]) + 1 /\ users'[a][Len(users[a]) + 1] = c
      /\ \A k \in 1 .. Len(users[a]) : users'[a][k] = users[a][k]
  BY <1>1, <1>2 DEF ClientTypes
<1>8. \A b \in Addrs : /\ Len(users[b]) <= Len(users'[b])
                       /\ \A k \in 1 .. Len(users[b]) : users'[b][k] = users[b][k]
  BY <1>7
<1>9. UsersGrow
  BY <1>1, <1>3, <1>7, <1>8 DEF UsersGrow, ServerTypes
<1>10. ServerSide'
  BY <1>1, <1>3, <1>9, ServerKeeps
<1>11. \A b \in Addrs : \A e : /\ Asked(b, e) => Asked(b, e)'
                               /\ Answered(b, e) => Answered(b, e)'
  BY <1>9, UsersKeep
<1>12. Asked(a, d)'
  <2>1. PICK k : k = Len(users'[a])
    OBVIOUS
  <2>2. k \in 1 .. Len(users'[a]) /\ users'[a][k] = c
    BY <1>7, <2>1
  <2>3. host_name'[users'[a][k]] = host_name[c]
    BY <1>3, <2>2
  <2>4. CASE Carried(host_name[c])
    BY <1>5, <2>2, <2>3, <2>4 DEF Asked, IsQuery
  <2>5. CASE ~Carried(host_name[c])
    BY <1>5, <2>2, <2>3, <2>5 DEF Asked, Misused
  <2> QED BY <2>4, <2>5
<1>13. Travelling'
  <2> SUFFICES ASSUME NEW g \in DOMAIN net \cup {dgram}
               PROVE  /\ g.addr \in Addrs
                      /\ g.to = "server" => Asked(g.addr, g.data)'
                      /\ g.to = "client" => Answered(g.addr, g.data)'
    BY <1>6, Zenon DEF Travelling
  <2>1. CASE g = dgram
    BY <1>4, <1>12, <2>1
  <2>2. CASE g # dgram
    BY <1>1, <1>11, <2>2 DEF ClientSide, Travelling
  <2> QED BY <2>1, <2>2
<1>14. /\ cpc'[c] = "wait" /\ caddr'[c] = a
       /\ \A b \in Clients \ {c} : cpc'[b] = cpc[b] /\ caddr'[b] = caddr[b]
  BY <1>1, <1>2, <1>3 DEF ClientTypes
<1>15. ClientTypes'
  <2>1. NetTypeOK'
    BY <1>1, <1>3, <1>6 DEF ClientTypes, NetTypeOK
  <2>2. users' \in [Addrs -> Seq(Clients)]
    BY <1>1, <1>2, <1>7 DEF ClientTypes
  <2>3. /\ cpc' \in [Clients -> {"send", "wait", "done", "crashed", "exited"}]
        /\ caddr' \in [Clients -> Addrs \union {NoAddr}]
    BY <1>1, <1>2, <1>3 DEF ClientTypes
  <2> QED BY <1>1, <1>3, <2>1, <2>2, <2>3 DEF ClientTypes
<1>16. LastUser'
  <2> SUFFICES ASSUME NEW b \in Clients
               PROVE  cpc'[b] = "wait" =>
                          LET u == users'[caddr'[b]]
                          IN  caddr'[b] \in Addrs /\ Len(u) > 0 /\ u[Len(u)] = b
    BY DEF LastUser
  <2>1. CASE b = c
    BY <1>2, <1>7, <1>14, <2>1
  <2>2. CASE b # c
    <3>1. cpc'[b] = cpc[b] /\ caddr'[b] = caddr[b]
      BY <1>1, <1>14, <2>2 DEF ClientSide, LastUser
    <3>2. cpc[b] = "wait" => caddr[b] # a /\ caddr[b] \in Addrs
      BY <1>1, <1>2, <3>1 DEF Open, ClientSide, LastUser
    <3>3. cpc[b] = "wait" => LET u == users[caddr[b]] IN Len(u) > 0 /\ u[Len(u)] = b
      BY <1>1 DEF ClientSide, LastUser
    <3>4. cpc[b] = "wait" => users'[caddr'[b]] = users[caddr[b]]
      BY <1>7, <3>1, <3>2
    <3> QED BY <3>1, <3>2, <3>3, <3>4
  <2> QED BY <2>1, <2>2
<1>17. ASSUME NEW b \in Clients
       PROVE  /\ cpc'[b] = "done" => (HasAnswer(b) \/ Misled(b))'
              /\ cpc'[b] = "crashed" => ~Carried(host_name'[b]) \/ Misled(b)'
  <2>1. CASE b = c
    BY <1>14, <2>1
  <2>2. CASE b # c
    <3>1. /\ cpc'[b] = cpc[b] /\ caddr'[b] = caddr[b]
          /\ answer'[b] = answer[b] /\ host_name'[b] = host_name[b]
      BY <1>3, <1>14, <2>2
    <3>2. (Misled(b) => Misled(b)') /\ (HasAnswer(b) => HasAnswer(b)')
      BY <1>9, <3>1, ClientKeeps
    <3> QED BY <1>1, <3>1, <3>2 DEF ClientSide
  <2> QED BY <2>1, <2>2
<1>18. ClientSide'
  BY <1>13, <1>15, <1>16, <1>17 DEF ClientSide
<1> QED BY <1>10, <1>18 DEF IInv

\* A client parses what arrives: the last user of an address can have the answer to any
\* of its users.
LEMMA AnswerIInv ==
    ASSUME IInv, NEW c \in Clients, Answer(c)
    PROVE  IInv'
<1>1. ClientSide /\ ServerSide /\ ClientTypes /\ ServerTypes
  BY DEF IInv, ClientSide, ServerSide
<1>2. /\ cpc[c] = "wait" /\ UNCHANGED <<host_name, caddr, users>>
      /\ UNCHANGED vars_server /\ errors' = errors
  BY DEF Answer, vars_server
<1>3. PICK dgram \in DOMAIN net, fill \in Fills :
          LET b == Buffer(dgram.data, fill)
          IN  /\ dgram.to = "client" /\ dgram.addr = caddr[c]
              /\ RecvFrom(dgram)
              /\ \/ /\ Overruns(b)
                    /\ cpc' = [cpc EXCEPT ![c] = "crashed"]
                    /\ UNCHANGED answer
                 \/ /\ ~Overruns(b)
                    /\ cpc' = [cpc EXCEPT ![c] = "done"]
                    /\ answer' = [answer EXCEPT ![c] = AnswerIn(b)]
  BY Zenon DEF Answer, AnswerIn
<1> DEFINE b == Buffer(dgram.data, fill)
           u == users[caddr[c]]
<1>4. fill \in Octet
  BY <1>3, BuffersAssumption
<1>5. caddr[c] \in Addrs /\ Len(u) \in Nat /\ Len(u) > 0 /\ u[Len(u)] = c
  BY <1>1, <1>2 DEF ClientSide, ClientTypes, LastUser
<1>6. Answered(caddr[c], dgram.data)
  BY <1>1, <1>3 DEF ClientSide, Travelling
<1>7. \/ Misused(caddr[c])
      \/ /\ ~Overruns(b)
         /\ \/ \E k \in 1 .. Len(u) : AnswerIn(b) = AnswerFor(23, host_name[u[k]])
            \/ errors > 0 /\ AnswerIn(b) = AnswerFor(0, <<>>)
  <2>1. ASSUME NEW k \in 1 .. Len(u), Carried(host_name[u[k]]),
               IsReply(dgram.data, 23, host_name[u[k]])
        PROVE  ~Overruns(b) /\ AnswerIn(b) = AnswerFor(23, host_name[u[k]])
    <3>1. host_name[u[k]] \in Hosts
      BY <1>1, <1>5 DEF ClientTypes
    <3>2. 23 \in Octet
      BY DEF Octet
    <3>3. ReplyIsTaken(dgram.data, 23, host_name[u[k]])
      <4> DEFINE n == host_name[u[k]]
      <4>1. n \in Names /\ CanBeSent(n) /\ IsReply(dgram.data, 23, n)
        BY <2>1, <3>1, HostIs
      <4> HIDE DEF n
      <4> QED BY <3>2, <4>1, MessagesAreTaken, Zenon DEF n
    <3> QED BY <1>4, <3>3, Zenon DEF ReplyIsTaken
  <2>2. ASSUME errors > 0, IsReply(dgram.data, 0, <<>>)
        PROVE  ~Overruns(b) /\ AnswerIn(b) = AnswerFor(0, <<>>)
    <3>1. 0 \in Octet
      BY DEF Octet
    <3>2. ReplyIsTaken(dgram.data, 0, <<>>)
      BY <2>2, <3>1, EmptyName, MessagesAreTaken, Zenon
    <3> QED BY <1>4, <3>2, Zenon DEF ReplyIsTaken
  <2> QED BY <1>6, <2>1, <2>2 DEF Answered
<1>8. /\ net' = BagRemove(net, dgram) /\ UNCHANGED <<losses, dups>>
      /\ \/ /\ Overruns(b)
            /\ cpc' = [cpc EXCEPT ![c] = "crashed"] /\ answer' = answer
         \/ /\ cpc' = [cpc EXCEPT ![c] = "done"]
            /\ answer' = [answer EXCEPT ![c] = AnswerIn(b)]
  BY <1>3 DEF RecvFrom
<1> HIDE DEF b
<1>9. IsABag(net') /\ DOMAIN net' \subseteq DOMAIN net
  BY <1>1, <1>8, Removed DEF ClientTypes, NetTypeOK
<1>10. /\ \/ cpc'[c] = "crashed" /\ Overruns(b)
          \/ cpc'[c] = "done" /\ answer'[c] = AnswerIn(b)
       /\ DOMAIN answer' = Clients
       /\ \A e \in Clients \ {c} : cpc'[e] = cpc[e] /\ answer'[e] = answer[e]
  BY <1>1, <1>8 DEF ClientTypes
<1>11. ClientTypes'
  <2>1. NetTypeOK'
    BY <1>1, <1>8, <1>9 DEF ClientTypes, NetTypeOK
  <2>2. cpc' \in [Clients -> {"send", "wait", "done", "crashed", "exited"}]
    BY <1>1, <1>8 DEF ClientTypes
  <2> QED BY <1>1, <1>2, <1>10, <2>1, <2>2 DEF ClientTypes
<1>12. UsersGrow
  BY <1>1, <1>2 DEF UsersGrow, ClientTypes, ServerTypes
<1>13. ServerSide'
  BY <1>1, <1>2, <1>12, ServerKeeps
<1>14. Travelling'
  <2>1. \A a \in Addrs : \A d : /\ Asked(a, d) => Asked(a, d)'
                                /\ Answered(a, d) => Answered(a, d)'
    BY <1>12, UsersKeep
  <2> SUFFICES ASSUME NEW g \in DOMAIN net
               PROVE  /\ g.addr \in Addrs
                      /\ g.to = "server" => Asked(g.addr, g.data)'
                      /\ g.to = "client" => Answered(g.addr, g.data)'
    BY <1>9, Zenon DEF Travelling
  <2> QED BY <1>1, <2>1 DEF ClientSide, Travelling
<1>15. LastUser'
  BY <1>1, <1>2, <1>10 DEF ClientSide, LastUser
<1>16. ASSUME NEW e \in Clients
       PROVE  /\ cpc'[e] = "done" => (HasAnswer(e) \/ Misled(e))'
              /\ cpc'[e] = "crashed" => ~Carried(host_name'[e]) \/ Misled(e)'
  <2>1. CASE e # c
    <3>1. cpc'[e] = cpc[e] /\ answer'[e] = answer[e] /\ caddr'[e] = caddr[e]
      BY <1>2, <1>10, <2>1
    <3>2. (Misled(e) => Misled(e)') /\ (HasAnswer(e) => HasAnswer(e)')
      BY <1>12, <3>1, ClientKeeps
    <3> QED BY <1>1, <1>2, <3>1, <3>2 DEF ClientSide
  <2>2. CASE e = c
    <3>1. Len(u) \in 1 .. Len(u) /\ \A k \in 1 .. Len(u) : k <= Len(u)
      BY <1>5
    <3>2. Misused(caddr[c]) => Misled(c)
      BY <1>5, <3>1 DEF Misused, Misled
    <3>3. Misled(c) => Misled(c)'
      BY <1>2, <1>12, ClientKeeps
    <3>4. CASE Misused(caddr[c])
      BY <2>2, <3>2, <3>3, <3>4
    <3>5. CASE ~Misused(caddr[c])
      <4>1. cpc'[c] = "done" /\ answer'[c] = AnswerIn(b)
        BY <1>7, <1>10, <3>5
      <4>2. \/ \E k, l \in 1 .. Len(u) :
                   k <= l /\ u[l] = c /\ answer'[c] = AnswerFor(23, host_name[u[k]])
            \/ errors > 0 /\ answer'[c] = AnswerFor(0, <<>>)
        BY <1>5, <1>7, <3>1, <3>5, <4>1
      <4>3. \/ \E k, l \in 1 .. Len(users'[caddr'[c]]) :
                   /\ k <= l /\ users'[caddr'[c]][l] = c
                   /\ answer'[c] = AnswerFor(23, host_name'[users'[caddr'[c]][k]])
            \/ errors' > 0 /\ answer'[c] = AnswerFor(0, <<>>)
        BY <1>2, <4>2
      <4>4. caddr'[c] \in Addrs
        BY <1>2, <1>5
      <4>5. HasAnswer(c)'
        BY <4>3, <4>4, Zenon DEF HasAnswer, AnswerFor
      <4> QED BY <2>2, <4>1, <4>5
    <3> QED BY <3>4, <3>5
  <2> QED BY <2>1, <2>2
<1>17. ClientSide'
  BY <1>11, <1>14, <1>15, <1>16 DEF ClientSide
<1> QED BY <1>13, <1>17 DEF IInv

\* A client ends without an answer; before it sends, it crashes only for a name that is
\* not carried.
LEMMA ClientEndsIInv ==
    ASSUME IInv, NEW c \in Clients, QueryCrashes(c) \/ ClientFails(c)
    PROVE  IInv'
<1>1. ClientSide /\ ServerSide /\ ClientTypes /\ ServerTypes
  BY DEF IInv, ClientSide, ServerSide
<1>2. /\ \/ cpc' = [cpc EXCEPT ![c] = "exited"]
         \/ Len(host_name[c]) >= HOST_NAME_SIZE /\ cpc' = [cpc EXCEPT ![c] = "crashed"]
      /\ UNCHANGED <<host_name, caddr, answer, users>> /\ UNCHANGED vars_server
      /\ UNCHANGED <<net, losses, dups>> /\ errors' = errors
  BY DEF QueryCrashes, ClientFails, vars_server, netvars
<1>0. Len(host_name[c]) >= HOST_NAME_SIZE => ~Carried(host_name[c])
  <2> DEFINE h == host_name[c]
  <2>1. h \in Names
    BY <1>1, HostIs DEF ClientTypes
  <2> HIDE DEF h
  <2>2. Len(h) \in Nat /\ HOST_NAME_SIZE \in Nat
    BY <2>1, NamesJoin, SizeAssumption
  <2>3. Carried(h) => Len(h) < HOST_NAME_SIZE
    BY DEF Carried
  <2>4. Len(h) >= HOST_NAME_SIZE => ~Carried(h)
    <3> HIDE DEF Carried
    <3> QED BY <2>2, <2>3
  <2> QED BY <2>4 DEF h
<1>3. /\ cpc' \in [Clients -> {"send", "wait", "done", "crashed", "exited"}]
      /\ \A e \in Clients : \/ cpc'[e] \in {cpc[e], "exited"}
                            \/ cpc'[e] = "crashed" /\ ~Carried(host_name[e])
  BY <1>0, <1>1, <1>2 DEF ClientTypes
<1>4. ClientSide'
  BY <1>1, <1>2, <1>3, ClientsKeep DEF ClientTypes, NetTypeOK, ServerTypes
<1>5. UsersGrow
  BY <1>1, <1>2 DEF UsersGrow, ClientTypes, ServerTypes
<1> QED BY <1>1, <1>2, <1>4, <1>5, ServerKeeps DEF IInv

\* What the network does, or nobody.
LEMMA OthersIInv ==
    ASSUME IInv,
           \/ Network(Open) /\ UNCHANGED <<vars_server, vars_client>>
           \/ UNCHANGED vars
    PROVE  IInv'
<1>1. ClientSide /\ ServerSide /\ ClientTypes /\ ServerTypes
  BY DEF IInv, ClientSide, ServerSide
<1>2. /\ UNCHANGED vars_server /\ errors' = errors
      /\ UNCHANGED <<cpc, host_name, caddr, answer, users>>
  BY DEF vars, vars_server, vars_client
<1>3. /\ IsABag(net') /\ DOMAIN net' \subseteq DOMAIN net
      /\ losses' \in 0 .. MaxLosses /\ dups' \in 0 .. MaxDups
  <2>1. IsABag(net) /\ losses \in 0 .. MaxLosses /\ dups \in 0 .. MaxDups
    BY <1>1 DEF ClientTypes, NetTypeOK
  <2>2. CASE UNCHANGED vars
    BY <2>1, <2>2 DEF vars, netvars
  <2>3. CASE Refuse(Open)
    BY <2>1, <2>3, Removed DEF Refuse
  <2>4. CASE Lose
    BY <2>1, <2>4, Removed, NetworkAssumption DEF Lose
  <2>5. CASE Duplicate
    <3>1. PICK dgram \in DOMAIN net : net' = BagAdd(net, dgram)
      BY <2>5 DEF Duplicate
    <3>2. IsABag(net') /\ DOMAIN net' = DOMAIN net
      BY <2>1, <3>1, Added
    <3> QED BY <2>1, <2>5, <3>2, NetworkAssumption DEF Duplicate
  <2> QED BY <2>2, <2>3, <2>4, <2>5 DEF Network
<1>4. ClientSide'
  BY <1>1, <1>2, <1>3, ClientsKeep DEF ClientTypes, ServerTypes
<1>5. UsersGrow
  BY <1>1, <1>2 DEF UsersGrow, ClientTypes, ServerTypes
<1> QED BY <1>1, <1>2, <1>4, <1>5, ServerKeeps DEF IInv

\* Every step preserves the invariant.
LEMMA StepIInv == IInv /\ [Next]_vars => IInv'
<1> SUFFICES ASSUME IInv, [Next]_vars PROVE IInv'
  OBVIOUS
<1>1. CASE Server
  BY <1>1, RecvIInv, RecvFailsIInv, ServeIInv, ServerEndsIInv DEF Server
<1>2. CASE \E c \in Clients : Client(c)
  BY <1>2, QueryIInv, AnswerIInv, ClientEndsIInv DEF Client
<1>3. CASE (Network(Open) /\ UNCHANGED <<vars_server, vars_client>>) \/ UNCHANGED vars
  BY <1>3, OthersIInv
<1> QED BY <1>1, <1>2, <1>3 DEF Next

LEMMA Invariance == Spec => []IInv
<1> QED BY InitIInv, StepIInv, PTL DEF Spec

-----------------------------------------------------------------------------
\* The theorems about the system.

\* Programs, buffers and addresses keep their shape; a server that has replied has an
\* address and clear flags.
THEOREM TypeCorrect == Spec => []TypeOK
<1>1. IInv => TypeOK
  <2> SUFFICES ASSUME IInv PROVE TypeOK
    OBVIOUS
  <2>1. ClientTypes /\ ServerTypes /\ ServerSide
    BY DEF IInv, ClientSide, ServerSide
  <2>2. ToSet(buf.data) \subseteq Octet /\ buf.fill \in {NUL, Zero}
    BY <2>1 DEF ServerTypes, Names, ToSet
  <2>3. pc = "recv" /\ served > 0 => clientaddr \in Addrs /\ send_flags = <<NUL, NUL>>
    BY <2>1 DEF ServerSide, AtStart, HasReplied
  <2> QED BY <2>1, <2>2, <2>3 DEF TypeOK, ClientTypes, ServerTypes
<1> QED BY <1>1, Invariance, PTL

\* Users of the client's address that were not after it.
LEMMA UsersAre ==
    ASSUME NEW c \in Clients, ClientTypes, caddr[c] \in Addrs
    PROVE  LET u == users[caddr[c]]
           IN  \A k, l \in 1 .. Len(u) : k <= l /\ u[l] = c => u[k] \in UsersUpTo(c)
<1> DEFINE u == users[caddr[c]]
<1>1. Len(u) \in Nat
  BY DEF ClientTypes
<1>2. ASSUME NEW k \in 1 .. Len(u), NEW l \in 1 .. Len(u), k <= l, u[l] = c
      PROVE  u[k] \in UsersUpTo(c)
  <2>1. l \in k .. Len(u)
    BY <1>1, <1>2
  <2> QED BY <1>2, <2>1 DEF UsersUpTo
<1> QED BY <1>2

\* What a client prints answers a query sent from its own address, its own or an
\* earlier owner's, or, once recvfrom has failed in the server, nobody's: whatever is
\* lost, duplicated or reordered, and whatever the buffers held, unless one of them
\* asked for a name that is not carried.
THEOREM AnswersAddress == Spec => []AnswersItsAddress
<1>1. IInv => AnswersItsAddress
  <2> SUFFICES ASSUME IInv, NEW c \in Clients, cpc[c] = "done"
               PROVE  \/ \E d \in UsersUpTo(c) :
                            Carried(host_name[d]) => answer[c] = AnswerFor(23, host_name[d])
                      \/ errors > 0 /\ answer[c] = AnswerFor(0, <<>>)
    BY EmptyName DEF AnswersItsAddress, AnswerFor, Found4, Found
  <2>1. (HasAnswer(c) \/ Misled(c)) /\ ClientTypes
    BY DEF IInv, ClientSide
  <2>2. caddr[c] \in Addrs
    BY <2>1 DEF HasAnswer, Misled
  <2> QED BY <2>1, <2>2, UsersAre DEF HasAnswer, Misled
<1> QED BY <1>1, Invariance, PTL

\* A program runs over its arrays only for a name that is not carried, or if the very
\* first recvfrom of the server fails: for any host names.
THEOREM CrashesHaveCauses == Spec => []CrashesHaveACause
<1>1. IInv => CrashesHaveACause
  <2> SUFFICES ASSUME IInv PROVE CrashesHaveACause
    OBVIOUS
  <2>1. ClientTypes
    BY DEF IInv, ClientSide
  <2>2. ASSUME NEW c \in Clients, cpc[c] = "crashed"
        PROVE  \/ ~Carried(host_name[c])
               \/ \E d \in UsersUpTo(c) : ~Carried(host_name[d])
    <3>1. ~Carried(host_name[c]) \/ Misled(c)
      BY <2>2 DEF IInv, ClientSide
    <3>2. Misled(c) => \E d \in UsersUpTo(c) : ~Carried(host_name[d])
      BY <2>1, UsersAre DEF Misled
    <3> QED BY <3>1, <3>2
  <2>3. ASSUME pc = "crashed"
        PROVE  \/ errors > 0 /\ served = 0 /\ clientaddr = NoAddr
               \/ /\ clientaddr \in Addrs
                  /\ \E d \in ToSet(users[clientaddr]) : ~Carried(host_name[d])
    <3>1. clientaddr \in Addrs /\ Misused(clientaddr) =>
              \E d \in ToSet(users[clientaddr]) : ~Carried(host_name[d])
      BY <2>1 DEF Misused, ToSet, ClientTypes
    <3> QED BY <2>3, <3>1 DEF IInv, ServerSide
  <2> QED BY <2>2, <2>3 DEF CrashesHaveACause
<1> QED BY <1>1, Invariance, PTL
=============================================================================
