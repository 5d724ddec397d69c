---------------------------- MODULE SharedLemmas ----------------------------
(***************************************************************************)
(* What several proofs rest on: division with remainder, for the counters  *)
(* of a limited width; induction, for what is computed by recursion; and   *)
(* the elements that Selected takes from a sequence.                       *)
(***************************************************************************)
EXTENDS Integers, Subsequences, SequenceTheorems, WellFoundedInduction, TLAPS

(* Division with remainder. *)
LEMMA DivMod ==
  ASSUME NEW a \in Int, NEW m \in Nat \ {0}
  PROVE  /\ a \div m \in Int
         /\ a % m \in 0 .. m - 1
         /\ a = m * (a \div m) + (a % m)
OBVIOUS

(* Quotient and remainder are unique. *)
LEMMA DivModUnique ==
  ASSUME NEW m \in Nat \ {0}, NEW p \in Int, NEW q \in Int,
         NEW r \in 0 .. m - 1, NEW s \in 0 .. m - 1,
         m * p + r = m * q + s
  PROVE  p = q /\ r = s
OBVIOUS

(* A remainder does not change when a multiple of the divisor is added. *)
LEMMA ModShift ==
  ASSUME NEW m \in Nat \ {0}, NEW a \in Int, NEW k \in Int
  PROVE  (a + m * k) % m = a % m
<1> DEFINE b == a + m * k
<1>1. b \in Int /\ b = a + m * k
  OBVIOUS
<1> HIDE DEF b
<1>2. a % m \in 0 .. m - 1 /\ a \div m \in Int /\ a = m * (a \div m) + (a % m)
  BY DivMod
<1>3. b % m \in 0 .. m - 1 /\ b \div m \in Int /\ b = m * (b \div m) + (b % m)
  BY <1>1, DivMod
<1>4. m * ((a \div m) + k) + (a % m) = m * (b \div m) + (b % m)
  BY <1>1, <1>2, <1>3
<1>5. a % m = b % m
  <2> DEFINE p == (a \div m) + k
             q == b \div m
             r == a % m
             s == b % m
  <2>1. p \in Int /\ q \in Int /\ r \in 0 .. m - 1 /\ s \in 0 .. m - 1
    BY <1>2, <1>3
  <2>2. m * p + r = m * q + s
    BY <1>4
  <2> HIDE DEF p, q, r, s
  <2>3. r = s
    BY <2>1, <2>2, DivModUnique
  <2> QED BY <2>3 DEF r, s
<1> QED BY <1>5 DEF b

LEMMA ModPlus ==
  ASSUME NEW m \in Nat \ {0}, NEW a \in Int
  PROVE  (a + m) % m = a % m
<1>1. PICK k \in Int : k = 1
  OBVIOUS
<1>2. (a + m * k) % m = a % m
  BY ModShift
<1>3. a + m * k = a + m
  BY <1>1
<1> QED BY <1>2, <1>3

(* The difference of two remainders is, modulo the divisor, the difference of
   the numbers. *)
LEMMA ModDifference ==
  ASSUME NEW m \in Nat \ {0}, NEW a \in Int, NEW b \in Int, NEW k \in Int
  PROVE  ((a % m) - (b % m) - k) % m = (a - b - k) % m
<1>1. /\ a % m \in Int /\ a \div m \in Int /\ a = m * (a \div m) + (a % m)
      /\ b % m \in Int /\ b \div m \in Int /\ b = m * (b \div m) + (b % m)
  BY DivMod
<1> DEFINE d == (a % m) - (b % m) - k
           q == (a \div m) - (b \div m)
<1>2. d \in Int /\ q \in Int
  BY <1>1
<1>3. a - b - k = d + m * q
  BY <1>1
<1> HIDE DEF d, q
<1>4. (d + m * q) % m = d % m
  BY <1>2, ModShift
<1> QED BY <1>3, <1>4 DEF d

(* A number within one period is its own remainder; -1 is the last one. *)
LEMMA ModSmall ==
  ASSUME NEW m \in Nat \ {0}
  PROVE  /\ \A d \in 0 .. m - 1 : d % m = d
         /\ (-1) % m = m - 1
<1>1. \A d \in 0 .. m - 1 : d % m = d
  OBVIOUS
<1>2. PICK n \in Int : n = -1
  OBVIOUS
<1>3. (n + m) % m = n % m
  BY ModPlus
<1>4. n + m \in 0 .. m - 1 /\ n + m = m - 1
  BY <1>2
<1> QED BY <1>1, <1>2, <1>3, <1>4
-----------------------------------------------------------------------------
(* Induction over the natural numbers, for a set. *)
LEMMA NatSetInduction ==
  ASSUME NEW S, 0 \in S, \A n \in Nat : n \in S => n + 1 \in S
  PROVE  Nat \subseteq S
<1> SUFFICES ASSUME NEW k \in Nat, k \notin S PROVE FALSE
  OBVIOUS
<1> DEFINE T == {n \in Nat : n \notin S}
           R == OpToRel(<, Nat)
<1>1. T \subseteq Nat /\ T # {}
  OBVIOUS
<1>2. \A x \in Nat, y \in Nat : <<x, y>> \in R <=> x < y
  BY DEF OpToRel
<1>3. IsWellFoundedOn(R, Nat)
  BY NatLessThanWellFounded, Zenon
<1> HIDE DEF T, R
<1>4. PICK m \in T : \A y \in T : ~(<<y, m>> \in R)
  BY <1>1, <1>3, WFMin
<1>5. m \in Nat /\ m \notin S /\ m # 0
  BY <1>4 DEF T
<1>6. m - 1 \in Nat /\ m - 1 < m
  BY <1>5
<1>7. m - 1 \in S
  BY <1>1, <1>2, <1>4, <1>5, <1>6 DEF T
<1>8. (m - 1) + 1 \in S
  BY <1>6, <1>7
<1> QED  BY <1>5, <1>8

(* The function that Selected looks up is there. *)
SelectedUpTo(g, s, S, n) ==
  g = [i \in 0 .. n |-> IF i = 0 THEN <<>>
                        ELSE IF i \in S THEN Append(g[i - 1], s[i])
                        ELSE g[i - 1]]

LEMMA SelectedExists ==
  ASSUME NEW s, NEW S, NEW n \in Nat
  PROVE  \E g : SelectedUpTo(g, s, S, n)
<1> DEFINE N == {m \in Nat : \E g : SelectedUpTo(g, s, S, m)}
<1>1. 0 \in N
  <2>1. SelectedUpTo([i \in 0 .. 0 |-> <<>>], s, S, 0)
    BY DEF SelectedUpTo
  <2> QED  BY <2>1
<1>2. ASSUME NEW m \in Nat, m \in N
      PROVE  m + 1 \in N
  <2>1. PICK g : SelectedUpTo(g, s, S, m)
    BY <1>2
  <2> DEFINE h == [i \in 0 .. m + 1 |-> IF i <= m THEN g[i]
                     ELSE IF i \in S THEN Append(g[m], s[i]) ELSE g[m]]
  <2>2. ASSUME NEW i \in 0 .. m + 1
        PROVE  h[i] = IF i = 0 THEN <<>>
                      ELSE IF i \in S THEN Append(h[i - 1], s[i]) ELSE h[i - 1]
    <3>1. CASE i = 0
      BY <2>1, <3>1 DEF SelectedUpTo
    <3>2. CASE i \in 1 .. m
      <4>1. i \in 0 .. m /\ i # 0 /\ i - 1 \in 0 .. m + 1 /\ i - 1 <= m /\ i <= m
        BY <3>2
      <4>2. g[i] = IF i \in S THEN Append(g[i - 1], s[i]) ELSE g[i - 1]
        BY <2>1, <4>1 DEF SelectedUpTo
      <4> QED  BY <4>1, <4>2
    <3>3. CASE i = m + 1
      <4>1. i # 0 /\ ~(i <= m) /\ i - 1 = m /\ m \in 0 .. m + 1 /\ m <= m
        BY <3>3
      <4> QED  BY <4>1
    <3> QED  BY <3>1, <3>2, <3>3
  <2>3. SelectedUpTo(h, s, S, m + 1)
    <3> DEFINE r == [i \in 0 .. m + 1 |-> IF i = 0 THEN <<>>
                        ELSE IF i \in S THEN Append(h[i - 1], s[i]) ELSE h[i - 1]]
    <3>1. h = r
      <4>1. \A i \in 0 .. m + 1 : h[i] = r[i]
        BY <2>2
      <4>2. h = [i \in 0 .. m + 1 |-> h[i]] /\ r = [i \in 0 .. m + 1 |-> r[i]]
        OBVIOUS
      <4> HIDE DEF h, r
      <4> QED  BY <4>1, <4>2
    <3> HIDE DEF h
    <3> QED  BY <3>1 DEF SelectedUpTo
  <2> QED  BY <2>3
<1> HIDE DEF N
<1>3. n \in N
  BY <1>1, <1>2, NatSetInduction
<1> QED  BY <1>3 DEF N

(* h lists the places in S up to n, in their order. *)
Lists(h, S, n) ==
  /\ h \in Seq(Nat)
  /\ \A k \in 1 .. Len(h) : h[k] \in S /\ h[k] \in 1 .. n
  /\ \A j, k \in 1 .. Len(h) : j < k => h[j] < h[k]
  /\ \A i \in 1 .. n : i \in S => \E k \in 1 .. Len(h) : h[k] = i

LEMMA ListsAppend ==
  ASSUME NEW h, NEW S, NEW n \in Nat, Lists(h, S, n), n + 1 \in S
  PROVE  /\ Lists(Append(h, n + 1), S, n + 1)
         /\ Len(Append(h, n + 1)) = Len(h) + 1
         /\ Append(h, n + 1)[Len(h) + 1] = n + 1
         /\ \A k \in 1 .. Len(h) : Append(h, n + 1)[k] = h[k]
<1> DEFINE r == Append(h, n + 1)
<1>1. /\ r \in Seq(Nat) /\ Len(r) = Len(h) + 1 /\ Len(h) \in Nat
      /\ r[Len(h) + 1] = n + 1
      /\ \A k \in 1 .. Len(h) : r[k] = h[k]
  BY AppendProperties, LenProperties DEF Lists
<1> HIDE DEF r
<1>2. \A k \in 1 .. Len(h) : h[k] \in S /\ h[k] \in 1 .. n
  BY DEF Lists
<1>3. ASSUME NEW k \in 1 .. Len(r)
      PROVE  r[k] \in S /\ r[k] \in 1 .. n + 1
  <2>1. CASE k = Len(h) + 1
    BY <1>1, <2>1
  <2>2. CASE k \in 1 .. Len(h)
    BY <1>1, <1>2, <2>2
  <2> QED  BY <1>1, <2>1, <2>2
<1>4. ASSUME NEW j \in 1 .. Len(r), NEW k \in 1 .. Len(r), j < k
      PROVE  r[j] < r[k]
  <2>1. j \in 1 .. Len(h) /\ r[j] = h[j] /\ h[j] \in 1 .. n
    BY <1>1, <1>2, <1>4
  <2>2. CASE k = Len(h) + 1
    BY <1>1, <2>1, <2>2
  <2>3. CASE k \in 1 .. Len(h)
    BY <1>1, <1>4, <2>1, <2>3 DEF Lists
  <2> QED  BY <1>1, <2>2, <2>3
<1>5. ASSUME NEW i \in 1 .. n + 1, i \in S
      PROVE  \E k \in 1 .. Len(r) : r[k] = i
  <2>1. CASE i = n + 1
    BY <1>1, <2>1
  <2>2. CASE i \in 1 .. n
    <3>1. PICK k \in 1 .. Len(h) : h[k] = i
      BY <1>5, <2>2 DEF Lists
    <3> QED  BY <1>1, <3>1
  <2> QED  BY <2>1, <2>2
<1>6. Lists(r, S, n + 1)
  BY <1>1, <1>3, <1>4, <1>5 DEF Lists
<1> QED  BY <1>1, <1>6 DEF r

LEMMA ListsSkip ==
  ASSUME NEW h, NEW S, NEW n \in Nat, Lists(h, S, n), n + 1 \notin S
  PROVE  Lists(h, S, n + 1)
BY DEF Lists

(* What Selected returns: the elements at the places of S, in their order. *)
LEMMA SelectedPlaces ==
  ASSUME NEW T, NEW s \in Seq(T), NEW S
  PROVE  /\ Selected(s, S) \in Seq(T)
         /\ \E h : /\ Lists(h, S, Len(s)) /\ Len(h) = Len(Selected(s, S))
                   /\ \A k \in 1 .. Len(h) : Selected(s, S)[k] = s[h[k]]
<1> DEFINE f == CHOOSE g : SelectedUpTo(g, s, S, Len(s))
<1>0. Len(s) \in Nat /\ \A i \in 1 .. Len(s) : s[i] \in T
  BY LenProperties, ElementOfSeq
<1>1. SelectedUpTo(f, s, S, Len(s))
  BY <1>0, SelectedExists
<1>2. Selected(s, S) = f[Len(s)]
  BY DEF Selected, SelectedUpTo
<1> HIDE DEF f
<1> DEFINE Good(n) == /\ f[n] \in Seq(T)
                      /\ \E h : /\ Lists(h, S, n) /\ Len(h) = Len(f[n])
                                /\ \A k \in 1 .. Len(h) : f[n][k] = s[h[k]]
           N == {n \in Nat : n <= Len(s) => Good(n)}
<1>3. 0 \in N
  <2>1. f[0] = <<>>
    BY <1>0, <1>1 DEF SelectedUpTo
  <2>2. Lists(<<>>, S, 0)
    BY DEF Lists
  <2>3. Good(0)
    BY <2>1, <2>2
  <2> QED  BY <2>3
<1>4. ASSUME NEW n \in Nat, n \in N
      PROVE  n + 1 \in N
  <2> SUFFICES ASSUME n + 1 <= Len(s) PROVE Good(n + 1)
    OBVIOUS
  <2>1. Good(n) /\ n + 1 \in 0 .. Len(s) /\ n + 1 # 0 /\ (n + 1) - 1 = n /\ s[n + 1] \in T
    BY <1>0, <1>4
  <2>2. f[n + 1] = IF n + 1 \in S THEN Append(f[n], s[n + 1]) ELSE f[n]
    <3>1. f[n + 1] = IF n + 1 \in S THEN Append(f[(n + 1) - 1], s[n + 1]) ELSE f[(n + 1) - 1]
      BY <1>1, <2>1 DEF SelectedUpTo
    <3> QED  BY <2>1, <3>1
  <2>3. PICK h : /\ Lists(h, S, n) /\ Len(h) = Len(f[n])
                 /\ \A k \in 1 .. Len(h) : f[n][k] = s[h[k]]
    BY <2>1
  <2>4. f[n] \in Seq(T) /\ Len(h) \in Nat /\ Len(f[n]) \in Nat
    BY <2>1, <2>3, LenProperties DEF Lists
  <2>5. CASE n + 1 \notin S
    <3>1. Lists(h, S, n + 1)
      BY <2>3, <2>5, ListsSkip
    <3>2. f[n + 1] = f[n]
      BY <2>2, <2>5
    <3> QED  BY <2>3, <2>4, <3>1, <3>2
  <2>6. CASE n + 1 \in S
    <3> DEFINE r == Append(h, n + 1)
    <3>1. /\ Lists(r, S, n + 1) /\ Len(r) = Len(h) + 1 /\ r[Len(h) + 1] = n + 1
          /\ \A k \in 1 .. Len(h) : r[k] = h[k]
      BY <2>3, <2>6, ListsAppend
    <3>2. /\ f[n + 1] \in Seq(T) /\ Len(f[n + 1]) = Len(f[n]) + 1
          /\ f[n + 1][Len(f[n]) + 1] = s[n + 1]
          /\ \A k \in 1 .. Len(f[n]) : f[n + 1][k] = f[n][k]
      <4>1. f[n + 1] = Append(f[n], s[n + 1])
        BY <2>2, <2>6
      <4> QED  BY <2>1, <2>4, <4>1, AppendProperties
    <3> HIDE DEF r
    <3>3. ASSUME NEW k \in 1 .. Len(r)
          PROVE  f[n + 1][k] = s[r[k]]
      <4>1. CASE k = Len(h) + 1
        BY <2>3, <3>1, <3>2, <4>1
      <4>2. CASE k \in 1 .. Len(h)
        BY <2>3, <3>1, <3>2, <4>2
      <4> QED  BY <2>4, <3>1, <4>1, <4>2
    <3>4. Len(r) = Len(f[n + 1])
      BY <2>3, <3>1, <3>2
    <3> QED  BY <3>1, <3>2, <3>3, <3>4
  <2> QED  BY <2>5, <2>6
<1> HIDE DEF N
<1>5. Len(s) \in N
  BY <1>0, <1>3, <1>4, NatSetInduction
<1>6. Good(Len(s))
  BY <1>0, <1>5 DEF N
<1> QED  BY <1>2, <1>6

(* The elements of a concatenation are those of its two parts. *)
LEMMA Concatenated ==
  ASSUME NEW T, NEW s \in Seq(T), NEW t \in Seq(T)
  PROVE  /\ s \o t \in Seq(T)
         /\ Len(s) \in Nat /\ Len(t) \in Nat
         /\ Len(s \o t) = Len(s) + Len(t)
         /\ \A i \in 1 .. Len(s) : (s \o t)[i] = s[i]
         /\ \A i \in 1 .. Len(t) : (s \o t)[Len(s) + i] = t[i]
         /\ \A i \in 1 .. Len(s \o t) : \/ i \in 1 .. Len(s)
                                        \/ \E k \in 1 .. Len(t) : i = Len(s) + k
<1>1. Len(s) \in Nat /\ Len(t) \in Nat
  BY LenProperties
<1>2. /\ s \o t \in Seq(T) /\ Len(s \o t) = Len(s) + Len(t)
      /\ \A i \in 1 .. Len(s) + Len(t) :
           (s \o t)[i] = IF i <= Len(s) THEN s[i] ELSE t[i - Len(s)]
  BY ConcatProperties
<1> DEFINE r == s \o t
<1>3. /\ r \in Seq(T) /\ Len(r) = Len(s) + Len(t)
      /\ \A i \in 1 .. Len(s) + Len(t) : r[i] = IF i <= Len(s) THEN s[i] ELSE t[i - Len(s)]
  BY <1>2
<1> HIDE DEF r
<1>4. \A i \in 1 .. Len(s) : r[i] = s[i]
  BY <1>1, <1>3
<1>5. ASSUME NEW i \in 1 .. Len(t) PROVE r[Len(s) + i] = t[i]
  <2>1. Len(s) + i \in 1 .. Len(s) + Len(t) /\ ~(Len(s) + i <= Len(s)) /\ (Len(s) + i) - Len(s) = i
    BY <1>1
  <2> QED  BY <1>3, <2>1
<1>6. ASSUME NEW i \in 1 .. Len(r), i \notin 1 .. Len(s)
      PROVE  \E k \in 1 .. Len(t) : i = Len(s) + k
  <2>1. i - Len(s) \in 1 .. Len(t) /\ i = Len(s) + (i - Len(s))
    BY <1>1, <1>3, <1>6
  <2> QED  BY <2>1
<1> QED  BY <1>1, <1>3, <1>4, <1>5, <1>6 DEF r

(* A function that satisfies the recursion is the one that Selected looks up. *)
LEMMA SelectedIs ==
  ASSUME NEW T, NEW s \in Seq(T), NEW S, NEW g, SelectedUpTo(g, s, S, Len(s))
  PROVE  /\ Selected(s, S) = g[Len(s)]
         /\ \A i \in 0 .. Len(s) : g[i] \in Seq(T)
<1> DEFINE f == CHOOSE r : SelectedUpTo(r, s, S, Len(s))
<1>0. Len(s) \in Nat /\ \A i \in 1 .. Len(s) : s[i] \in T
  BY LenProperties, ElementOfSeq
<1>1. SelectedUpTo(f, s, S, Len(s))
  BY <1>0, SelectedExists
<1>2. Selected(s, S) = f[Len(s)]
  BY DEF Selected, SelectedUpTo
<1> HIDE DEF f
<1> DEFINE N == {n \in Nat : n <= Len(s) => f[n] = g[n] /\ g[n] \in Seq(T)}
<1>3. 0 \in N
  BY <1>0, <1>1 DEF SelectedUpTo
<1>4. ASSUME NEW n \in Nat, n \in N
      PROVE  n + 1 \in N
  <2> SUFFICES ASSUME n + 1 <= Len(s) PROVE f[n + 1] = g[n + 1] /\ g[n + 1] \in Seq(T)
    OBVIOUS
  <2>1. /\ n + 1 \in 0 .. Len(s) /\ n + 1 # 0 /\ (n + 1) - 1 = n /\ s[n + 1] \in T
        /\ f[n] = g[n] /\ g[n] \in Seq(T)
    BY <1>0, <1>4
  <2>2. f[n + 1] = IF n + 1 \in S THEN Append(f[(n + 1) - 1], s[n + 1]) ELSE f[(n + 1) - 1]
    BY <1>1, <2>1 DEF SelectedUpTo
  <2>3. g[n + 1] = IF n + 1 \in S THEN Append(g[(n + 1) - 1], s[n + 1]) ELSE g[(n + 1) - 1]
    BY <2>1 DEF SelectedUpTo
  <2>4. Append(g[n], s[n + 1]) \in Seq(T)
    BY <2>1, AppendProperties
  <2> QED  BY <2>1, <2>2, <2>3, <2>4
<1> HIDE DEF N
<1>5. \A n \in 0 .. Len(s) : n \in N
  BY <1>3, <1>4, NatSetInduction
<1> QED  BY <1>0, <1>2, <1>5 DEF N

LEMMA AppendConcat ==
  ASSUME NEW T, NEW s \in Seq(T), NEW t \in Seq(T), NEW x \in T
  PROVE  s \o Append(t, x) = Append(s \o t, x)
OBVIOUS

(* The places S of a concatenation are the places A and B of its parts. *)
Divided(S, A, B, m, n) ==
  /\ \A i \in 1 .. m : i \in A <=> i \in S
  /\ \A i \in 1 .. n : i \in B <=> m + i \in S

(* Selecting from a concatenation is selecting from its two parts. *)
LEMMA SelectedConcat ==
  ASSUME NEW T, NEW s \in Seq(T), NEW t \in Seq(T), NEW S, NEW A, NEW B,
         Divided(S, A, B, Len(s), Len(t))
  PROVE  Selected(s \o t, S) = Selected(s, A) \o Selected(t, B)
<1>1. /\ s \o t \in Seq(T) /\ Len(s) \in Nat /\ Len(t) \in Nat
      /\ Len(s \o t) = Len(s) + Len(t)
      /\ \A i \in 1 .. Len(s) : (s \o t)[i] = s[i]
      /\ \A i \in 1 .. Len(t) : (s \o t)[Len(s) + i] = t[i]
  BY Concatenated
<1>2. PICK f : SelectedUpTo(f, s, A, Len(s))
  BY <1>1, SelectedExists
<1>3. PICK h : SelectedUpTo(h, t, B, Len(t))
  BY <1>1, SelectedExists
<1>4. Selected(s, A) = f[Len(s)] /\ \A i \in 0 .. Len(s) : f[i] \in Seq(T)
  BY <1>2, SelectedIs
<1>5. Selected(t, B) = h[Len(t)] /\ \A i \in 0 .. Len(t) : h[i] \in Seq(T)
  BY <1>3, SelectedIs
<1> DEFINE l == Len(s)
           n == Len(s) + Len(t)
           u == s \o t
           e == f[l]
           g == [i \in 0 .. n |-> IF i <= l THEN f[i] ELSE e \o h[i - l]]
<1>6. e \in Seq(T) /\ h[0] = <<>> /\ e \o h[0] = e
  <2>1. e \in Seq(T)
    BY <1>1, <1>4
  <2>2. h[0] = <<>>
    BY <1>1, <1>3 DEF SelectedUpTo
  <2> QED  BY <2>1, <2>2, ConcatEmptySeq
<1>7. \A k \in 0 .. Len(t) : l + k \in 0 .. n /\ g[l + k] = e \o h[k]
  <2> SUFFICES ASSUME NEW k \in 0 .. Len(t) PROVE l + k \in 0 .. n /\ g[l + k] = e \o h[k]
    OBVIOUS
  <2>1. l + k \in 0 .. n /\ (l + k) - l = k /\ (l + k <= l <=> k = 0) /\ l + 0 = l
    BY <1>1
  <2>2. g[l + k] = IF l + k <= l THEN f[l + k] ELSE e \o h[(l + k) - l]
    BY <2>1
  <2> QED  BY <1>6, <2>1, <2>2
<1>8. \A i \in 0 .. l : g[i] = f[i] /\ i \in 0 .. n
  BY <1>1
<1>9. g = [i \in 0 .. n |-> g[i]]
  OBVIOUS
<1> HIDE DEF g, e, u
<1>10. ASSUME NEW i \in 0 .. n
       PROVE  g[i] = IF i = 0 THEN <<>>
                     ELSE IF i \in S THEN Append(g[i - 1], u[i]) ELSE g[i - 1]
  <2>1. CASE i = 0
    BY <1>1, <1>2, <1>8, <2>1 DEF SelectedUpTo
  <2>2. CASE i \in 1 .. l
    <3>1. i \in 0 .. l /\ i # 0 /\ i - 1 \in 0 .. l
      BY <1>1, <2>2
    <3>2. f[i] = IF i \in A THEN Append(f[i - 1], s[i]) ELSE f[i - 1]
      BY <1>2, <3>1 DEF SelectedUpTo
    <3>3. u[i] = s[i] /\ (i \in A <=> i \in S) /\ g[i] = f[i] /\ g[i - 1] = f[i - 1]
      BY <1>1, <1>8, <2>2, <3>1 DEF u, Divided
    <3> QED  BY <3>1, <3>2, <3>3
  <2>3. CASE i \in l + 1 .. n
    <3>1. PICK k \in 1 .. Len(t) : i = l + k
      <4>1. i - l \in 1 .. Len(t) /\ i = l + (i - l)
        BY <1>1, <2>3
      <4> QED  BY <4>1
    <3>2. k \in 0 .. Len(t) /\ k # 0 /\ k - 1 \in 0 .. Len(t) /\ i # 0 /\ i - 1 = l + (k - 1)
      BY <1>1, <3>1
    <3>3. h[k] = IF k \in B THEN Append(h[k - 1], t[k]) ELSE h[k - 1]
      BY <1>3, <3>2 DEF SelectedUpTo
    <3>4. u[i] = t[k] /\ (k \in B <=> i \in S)
      BY <1>1, <3>1 DEF u, Divided
    <3>5. g[i] = e \o h[k] /\ g[i - 1] = e \o h[k - 1]
      BY <1>7, <3>1, <3>2
    <3>6. e \o Append(h[k - 1], t[k]) = Append(e \o h[k - 1], t[k])
      <4>1. h[k - 1] \in Seq(T) /\ t[k] \in T
        BY <1>5, <3>2, ElementOfSeq
      <4>2. PICK x \in Seq(T), y \in T : x = h[k - 1] /\ y = t[k]
        BY <4>1
      <4>3. e \o Append(x, y) = Append(e \o x, y)
        BY <1>6, AppendConcat
      <4> QED  BY <4>2, <4>3, Zenon
    <3> QED  BY <3>2, <3>3, <3>4, <3>5, <3>6
  <2> QED  BY <1>1, <2>1, <2>2, <2>3
<1>11. SelectedUpTo(g, u, S, Len(u))
  <2> DEFINE r == [i \in 0 .. n |-> IF i = 0 THEN <<>>
                     ELSE IF i \in S THEN Append(g[i - 1], u[i]) ELSE g[i - 1]]
  <2>1. \A i \in 0 .. n : g[i] = r[i]
    BY <1>10
  <2>2. r = [i \in 0 .. n |-> r[i]]
    OBVIOUS
  <2>3. g = r
    <3> HIDE DEF r
    <3> QED  BY <1>9, <2>1, <2>2
  <2>4. Len(u) = n
    BY <1>1 DEF u
  <2> QED  BY <2>3, <2>4 DEF SelectedUpTo
<1>12. Selected(u, S) = g[Len(u)] /\ Len(u) = l + Len(t) /\ u \in Seq(T)
  <2>1. u \in Seq(T) /\ Len(u) = l + Len(t)
    BY <1>1 DEF u
  <2> QED  BY <1>11, <2>1, SelectedIs
<1>13. g[l + Len(t)] = e \o h[Len(t)]
  BY <1>1, <1>7
<1> QED  BY <1>4, <1>5, <1>12, <1>13 DEF e, u

(* Selecting from the places themselves lists them. *)
LEMMA SelectedIndices ==
  ASSUME NEW n \in Nat, NEW S
  PROVE  Lists(Selected([i \in 1 .. n |-> i], S), S, n)
<1> DEFINE ids == [i \in 1 .. n |-> i]
           s   == Selected(ids, S)
<1>1. ids \in Seq(Nat) /\ Len(ids) = n /\ \A i \in 1 .. n : ids[i] = i
  OBVIOUS
<1> HIDE DEF ids
<1>2. s \in Seq(Nat)
  BY <1>1, SelectedPlaces
<1>3. PICK h : /\ Lists(h, S, n) /\ Len(h) = Len(s)
               /\ \A k \in 1 .. Len(h) : s[k] = ids[h[k]]
  <2>1. \E h : /\ Lists(h, S, Len(ids)) /\ Len(h) = Len(Selected(ids, S))
              /\ \A k \in 1 .. Len(h) : Selected(ids, S)[k] = ids[h[k]]
    BY <1>1, SelectedPlaces
  <2> QED  BY <1>1, <2>1
<1> HIDE DEF s
<1>4. \A k \in 1 .. Len(h) : s[k] = h[k]
  <2> SUFFICES ASSUME NEW k \in 1 .. Len(h) PROVE s[k] = h[k]
    OBVIOUS
  <2>1. h[k] \in 1 .. n
    BY <1>3 DEF Lists
  <2> QED  BY <1>1, <1>3, <2>1
<1>5. Lists(s, S, n)
  BY <1>2, <1>3, <1>4 DEF Lists
<1> QED  BY <1>5 DEF s, ids

(* Between one place of S and the next, a function that changes only at places
   of S keeps its value. *)
LEMMA ConstantBetween ==
  ASSUME NEW n \in Nat, NEW S, NEW h, Lists(h, S, n), NEW v,
         \A i \in 1 .. n : i \notin S => i - 1 \in 1 .. n /\ v[i] = v[i - 1],
         NEW k \in 1 .. Len(h)
  PROVE  LET end == IF k = Len(h) THEN n ELSE h[k + 1] - 1
         IN  /\ h[k] \in 1 .. n /\ end \in h[k] .. n
             /\ \A i \in h[k] .. end : v[i] = v[h[k]]
<1> DEFINE end == IF k = Len(h) THEN n ELSE h[k + 1] - 1
           b == h[k]
<1>0. Len(h) \in Nat
  BY LenProperties DEF Lists
<1>1. b \in 1 .. n
  BY DEF Lists
<1>2. end \in b .. n
  <2>1. CASE k = Len(h)
    BY <1>1, <2>1
  <2>2. CASE k # Len(h)
    <3>1. k + 1 \in 1 .. Len(h) /\ k < k + 1
      BY <1>0, <2>2
    <3>2. b < h[k + 1] /\ h[k + 1] \in 1 .. n
      BY <3>1 DEF Lists
    <3> QED  BY <1>1, <2>2, <3>2
  <2> QED  BY <2>1, <2>2
<1>3. ASSUME NEW i \in 1 .. n, b < i, i <= end
      PROVE  i \notin S
  <2> SUFFICES ASSUME i \in S PROVE FALSE
    OBVIOUS
  <2>1. PICK l \in 1 .. Len(h) : h[l] = i
    BY DEF Lists
  <2>2. k < l
    <3> SUFFICES ASSUME l <= k PROVE FALSE
      BY <1>0
    <3>1. CASE l = k
      BY <1>1, <1>3, <2>1, <3>1
    <3>2. CASE l < k
      <4>1. h[l] < h[k]
        BY <3>2 DEF Lists
      <4> QED  BY <1>1, <1>3, <2>1, <4>1
    <3> QED  BY <1>0, <3>1, <3>2
  <2>3. k # Len(h) /\ k + 1 \in 1 .. Len(h)
    BY <1>0, <2>2
  <2>4. h[k + 1] \in 1 .. n /\ i <= h[k + 1] - 1
    BY <1>3, <2>3 DEF Lists
  <2>5. CASE l = k + 1
    BY <2>1, <2>4, <2>5
  <2>6. CASE k + 1 < l
    <3>1. h[k + 1] < h[l]
      BY <2>3, <2>6 DEF Lists
    <3> QED  BY <2>1, <2>4, <3>1
  <2> QED  BY <1>0, <2>2, <2>5, <2>6
<1> HIDE DEF end, b
<1> DEFINE N == {j \in Nat : b + j <= end => v[b + j] = v[b]}
<1>4. 0 \in N
  <2>1. b + 0 = b
    BY <1>1
  <2> QED  BY <2>1
<1>5. ASSUME NEW j \in Nat, j \in N
      PROVE  j + 1 \in N
  <2> SUFFICES ASSUME b + (j + 1) <= end PROVE v[b + (j + 1)] = v[b]
    OBVIOUS
  <2>1. PICK i \in 1 .. n : i = b + (j + 1)
    BY <1>1, <1>2
  <2>2. b < i /\ i <= end /\ i - 1 = b + j /\ b + j <= end
    BY <1>1, <1>2, <2>1
  <2>3. v[i] = v[i - 1]
    BY <1>3, <2>2
  <2>4. v[b + j] = v[b]
    BY <1>5, <2>2
  <2> QED  BY <2>1, <2>2, <2>3, <2>4
<1> HIDE DEF N
<1>6. \A j \in Nat : j \in N
  BY <1>4, <1>5, NatSetInduction
<1>7. ASSUME NEW i \in b .. end
      PROVE  v[i] = v[b]
  <2>1. PICK j \in Nat : i = b + j
    <3>1. i - b \in Nat /\ i = b + (i - b)
      BY <1>1, <1>2
    <3> QED  BY <3>1
  <2>2. b + j <= end
    BY <1>1, <1>2, <2>1
  <2> QED  BY <1>6, <2>1, <2>2 DEF N
<1> QED  BY <1>1, <1>2, <1>7 DEF end, b

(* One more element of a subsequence. *)
LEMMA SubSeqAppend ==
  ASSUME NEW T, NEW s \in Seq(T), NEW a \in Nat, NEW i \in Nat, a < i, i <= Len(s)
  PROVE  SubSeq(s, a + 1, i) = Append(SubSeq(s, a + 1, i - 1), s[i])
<1>1. Len(s) \in Nat /\ a + 1 \in 1 .. Len(s) + 1 /\ i \in a .. Len(s) /\ i - 1 \in a .. Len(s)
  BY LenProperties
<1>2. /\ SubSeq(s, a + 1, i) \in Seq(T) /\ Len(SubSeq(s, a + 1, i)) = i - a
      /\ \A k \in 1 .. i - a : SubSeq(s, a + 1, i)[k] = s[a + k]
  OBVIOUS
<1>3. /\ SubSeq(s, a + 1, i - 1) \in Seq(T) /\ Len(SubSeq(s, a + 1, i - 1)) = i - 1 - a
      /\ \A k \in 1 .. i - 1 - a : SubSeq(s, a + 1, i - 1)[k] = s[a + k]
  OBVIOUS
<1> DEFINE u == SubSeq(s, a + 1, i)
           v == SubSeq(s, a + 1, i - 1)
           w == Append(v, s[i])
<1>4. s[i] \in T
  BY <1>1, ElementOfSeq
<1>5. /\ w \in Seq(T) /\ Len(w) = i - a /\ w[i - a] = s[i]
      /\ \A k \in 1 .. i - 1 - a : w[k] = s[a + k]
  BY <1>1, <1>3, <1>4, AppendProperties
<1> HIDE DEF u, v, w
<1>6. ASSUME NEW k \in 1 .. i - a
      PROVE  u[k] = w[k]
  <2>1. CASE k = i - a
    <3>1. a + k = i
      BY <2>1
    <3> QED  BY <1>2, <1>5, <2>1, <3>1 DEF u
  <2>2. CASE k # i - a
    <3>1. k \in 1 .. i - 1 - a
      BY <2>2
    <3> QED  BY <1>2, <1>5, <3>1 DEF u
  <2> QED  BY <2>1, <2>2
<1>7. u \in Seq(T) /\ Len(u) = i - a
  BY <1>2 DEF u
<1>8. u = w
  BY <1>5, <1>6, <1>7, SeqEqual
<1> QED  BY <1>8 DEF u, v, w

(* Selecting the places from a + 1 to b. *)
LEMMA SelectedRange ==
  ASSUME NEW T, NEW s \in Seq(T), NEW a \in Nat, NEW b \in Nat, a <= b, b <= Len(s),
         NEW S, \A i \in 1 .. Len(s) : i \in S <=> a < i /\ i <= b
  PROVE  Selected(s, S) = SubSeq(s, a + 1, b)
<1>0. Len(s) \in Nat
  BY LenProperties
<1> DEFINE g == [i \in 0 .. Len(s) |-> IF i <= a THEN <<>>
                                       ELSE IF i <= b THEN SubSeq(s, a + 1, i)
                                       ELSE SubSeq(s, a + 1, b)]
           r == [i \in 0 .. Len(s) |-> IF i = 0 THEN <<>>
                                       ELSE IF i \in S THEN Append(g[i - 1], s[i])
                                       ELSE g[i - 1]]
<1>1. SubSeq(s, a + 1, a) = <<>>
  OBVIOUS
<1>2. ASSUME NEW i \in 0 .. Len(s)
      PROVE  g[i] = r[i]
  <2>1. CASE i <= a
    <3>1. i \in 1 .. Len(s) => i - 1 \in 0 .. Len(s) /\ i - 1 <= a /\ i \notin S
      BY <1>0, <2>1
    <3> QED  BY <1>0, <2>1, <3>1
  <2>2. CASE a < i /\ i <= b
    <3>1. i \in S /\ i - 1 \in 0 .. Len(s) /\ i \in 1 .. Len(s) /\ i - 1 <= b
      BY <1>0, <2>2
    <3>2. g[i - 1] = SubSeq(s, a + 1, i - 1)
      <4>1. CASE i - 1 <= a
        <5>1. i - 1 = a
          BY <2>2, <4>1
        <5> QED  BY <1>1, <3>1, <4>1, <5>1
      <4>2. CASE ~(i - 1 <= a)
        BY <3>1, <4>2
      <4> QED  BY <4>1, <4>2
    <3>3. SubSeq(s, a + 1, i) = Append(SubSeq(s, a + 1, i - 1), s[i])
      BY <1>0, <2>2, SubSeqAppend
    <3>4. g[i] = SubSeq(s, a + 1, i) /\ r[i] = Append(g[i - 1], s[i])
      BY <2>2, <3>1
    <3> QED  BY <3>2, <3>3, <3>4
  <2>3. CASE b < i
    <3>1. i \notin S /\ i - 1 \in 0 .. Len(s) /\ i \in 1 .. Len(s) /\ ~(i <= a) /\ ~(i <= b)
      BY <1>0, <2>3
    <3>2. g[i - 1] = SubSeq(s, a + 1, b)
      <4>1. CASE i - 1 <= a
        <5>1. a = b
          BY <2>3, <4>1
        <5> QED  BY <1>1, <3>1, <4>1, <5>1
      <4>2. CASE ~(i - 1 <= a) /\ i - 1 <= b
        <5>1. i - 1 = b
          BY <2>3, <4>2
        <5> QED  BY <3>1, <4>2, <5>1
      <4>3. CASE ~(i - 1 <= a) /\ ~(i - 1 <= b)
        BY <3>1, <4>3
      <4> QED  BY <4>1, <4>2, <4>3
    <3>3. g[i] = SubSeq(s, a + 1, b) /\ r[i] = g[i - 1]
      BY <3>1
    <3> QED  BY <3>2, <3>3
  <2> QED  BY <2>1, <2>2, <2>3
<1>3. g = r
  <2>1. g = [i \in 0 .. Len(s) |-> g[i]] /\ r = [i \in 0 .. Len(s) |-> r[i]]
    OBVIOUS
  <2> HIDE DEF g, r
  <2> QED  BY <1>2, <2>1
<1>4. SelectedUpTo(g, s, S, Len(s))
  <2> HIDE DEF g
  <2> QED  BY <1>3 DEF SelectedUpTo
<1>5. g[Len(s)] = SubSeq(s, a + 1, b)
  <2>1. CASE Len(s) <= a
    <3>1. a = b
      BY <1>0, <2>1
    <3> QED  BY <1>0, <1>1, <2>1, <3>1
  <2>2. CASE ~(Len(s) <= a) /\ Len(s) <= b
    <3>1. Len(s) = b
      BY <1>0, <2>2
    <3> QED  BY <1>0, <2>2, <3>1
  <2>3. CASE ~(Len(s) <= a) /\ ~(Len(s) <= b)
    BY <1>0, <2>3
  <2> QED  BY <2>1, <2>2, <2>3
<1> HIDE DEF g
<1> QED  BY <1>4, <1>5, SelectedIs
-----------------------------------------------------------------------------
(* A loop over the numbers 1 to n that keeps its state in V: the function of
   its states is there ... *)
StepIn(step, n, V) == \A k \in 1 .. n : \A v \in V : step[<<k, v>>] \in V

Iterates(f, n, x, step) == f[0] = x /\ \A k \in 1 .. n : f[k] = step[<<k, f[k - 1]>>]

LEMMA IterationExists ==
  ASSUME NEW V, NEW n \in Nat, NEW x \in V, NEW step, StepIn(step, n, V)
  PROVE  \E f \in [0 .. n -> V] : Iterates(f, n, x, step)
<1> USE DEF StepIn, Iterates
<1> DEFINE Good(m, f) == f[0] = x /\ \A k \in 1 .. m : f[k] = step[<<k, f[k - 1]>>]
           N == {m \in Nat : m <= n => \E f \in [0 .. m -> V] : Good(m, f)}
<1>1. 0 \in N
  <2> DEFINE f == [k \in 0 .. 0 |-> x]
  <2>1. f \in [0 .. 0 -> V] /\ \A k \in 0 .. 0 : k = 0
    OBVIOUS
  <2>2. Good(0, f)
    BY <2>1
  <2> QED  BY <2>1, <2>2
<1>2. ASSUME NEW m \in Nat, m \in N
      PROVE  m + 1 \in N
  <2> SUFFICES ASSUME m + 1 <= n PROVE \E f \in [0 .. m + 1 -> V] : Good(m + 1, f)
    OBVIOUS
  <2>1. PICK g \in [0 .. m -> V] : Good(m, g)
    BY <1>2
  <2> DEFINE f == [k \in 0 .. m + 1 |-> IF k <= m THEN g[k] ELSE step[<<m + 1, g[m]>>]]
  <2>2. g[m] \in V /\ m + 1 \in 1 .. n
    OBVIOUS
  <2>3. <<m + 1, g[m]>> \in (1 .. n) \X V
    BY <2>2
  <2>4. step[<<m + 1, g[m]>>] \in V
    BY <2>3
  <2>5. f \in [0 .. m + 1 -> V]
    BY <2>4
  <2>6. f[0] = x
    BY <2>1
  <2>7. ASSUME NEW k \in 1 .. m + 1
        PROVE  f[k] = step[<<k, f[k - 1]>>]
    <3>1. CASE k = m + 1
      <4>1. k - 1 = m /\ m \in 0 .. m + 1 /\ m <= m /\ ~(k <= m) /\ k \in 0 .. m + 1
        BY <3>1
      <4> QED  BY <3>1, <4>1
    <3>2. CASE k \in 1 .. m
      <4>1. f[k] = g[k] /\ f[k - 1] = g[k - 1]
        BY <3>2
      <4>2. g[k] = step[<<k, g[k - 1]>>]
        BY <2>1, <3>2
      <4> QED  BY <4>1, <4>2
    <3> QED  BY <3>1, <3>2
  <2> QED  BY <2>5, <2>6, <2>7
<1> HIDE DEF N
<1>3. n \in N
  BY <1>1, <1>2, NatSetInduction
<1> QED  BY <1>3 DEF N

(* ... and what each round preserves holds after all of them. *)
LEMMA IterationIn ==
  ASSUME NEW V, NEW n \in Nat, NEW h, h[0] \in V,
         \A k \in 1 .. n : h[k - 1] \in V => h[k] \in V
  PROVE  \A k \in 0 .. n : h[k] \in V
<1> DEFINE N == {m \in Nat : m <= n => h[m] \in V}
<1>1. 0 \in N
  OBVIOUS
<1>2. ASSUME NEW m \in Nat, m \in N
      PROVE  m + 1 \in N
  <2> SUFFICES ASSUME m + 1 <= n PROVE h[m + 1] \in V
    OBVIOUS
  <2>1. h[m] \in V /\ m + 1 \in 1 .. n /\ (m + 1) - 1 = m
    BY <1>2
  <2> QED  BY <2>1
<1>3. Nat \subseteq N
  BY <1>1, <1>2, NatSetInduction
<1> QED  BY <1>3
-----------------------------------------------------------------------------
(* A set of natural numbers has a least element, a finite one a greatest. *)
LEMMA LeastExists ==
  ASSUME NEW S \in SUBSET Nat, S # {}
  PROVE  \E m \in S : \A x \in S : m <= x
<1> SUFFICES ASSUME \A m \in S : \E x \in S : ~(m <= x) PROVE FALSE
  OBVIOUS
<1> DEFINE N == {n \in Nat : \A x \in S : n <= x}
<1>1. 0 \in N
  OBVIOUS
<1>2. ASSUME NEW n \in Nat, n \in N
      PROVE  n + 1 \in N
  <2>1. n \notin S
    BY <1>2
  <2>2. \A x \in S : n <= x /\ n # x /\ x \in Nat
    BY <1>2, <2>1
  <2> QED  BY <2>2
<1>3. Nat \subseteq N
  BY <1>1, <1>2, NatSetInduction
<1>4. PICK x \in S : TRUE
  OBVIOUS
<1>5. x + 1 \in N
  BY <1>3
<1> QED  BY <1>4, <1>5

LEMMA GreatestExists ==
  ASSUME NEW S \in SUBSET Nat, S # {}, NEW b \in Nat, \A x \in S : x <= b
  PROVE  \E m \in S : \A x \in S : x <= m
<1> DEFINE T == {n \in Nat : \A x \in S : x <= n}
<1>1. T \in SUBSET Nat /\ b \in T
  OBVIOUS
<1>2. PICK m \in T : \A n \in T : m <= n
  BY <1>1, LeastExists
<1>3. m \in Nat /\ \A x \in S : x <= m /\ x \in Nat
  BY <1>2
<1>4. m \in S
  <2> SUFFICES ASSUME m \notin S PROVE FALSE
    OBVIOUS
  <2>1. \A x \in S : x <= m - 1 /\ m - 1 \in Int /\ x \in Nat /\ x # m
    BY <1>3
  <2>2. m - 1 \in Nat
    <3>1. PICK x \in S : TRUE
      OBVIOUS
    <3>2. x \in Nat /\ x <= m - 1 /\ m \in Nat
      BY <1>3, <2>1, <3>1
    <3> QED  BY <3>2
  <2>3. m - 1 \in T
    BY <2>1, <2>2
  <2> QED  BY <1>2, <1>3, <2>3
<1> QED  BY <1>3, <1>4
-----------------------------------------------------------------------------
(* Induction up to n. *)
LEMMA UpToInduction ==
  ASSUME NEW n \in Nat, NEW S, 0 \in S, \A k \in 1 .. n : k - 1 \in S => k \in S
  PROVE  0 .. n \subseteq S
<1> DEFINE N == {m \in Nat : m <= n => m \in S}
<1>1. 0 \in N
  OBVIOUS
<1>2. ASSUME NEW m \in Nat, m \in N
      PROVE  m + 1 \in N
  <2> SUFFICES ASSUME m + 1 <= n PROVE m + 1 \in S
    OBVIOUS
  <2>1. m \in S /\ m + 1 \in 1 .. n /\ (m + 1) - 1 = m
    BY <1>2
  <2> QED  BY <2>1
<1>3. Nat \subseteq N
  BY <1>1, <1>2, NatSetInduction
<1> QED  BY <1>3
=============================================================================
