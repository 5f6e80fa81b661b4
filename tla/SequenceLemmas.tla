--------------------------- MODULE SequenceLemmas ---------------------------
(***************************************************************************)
(* Lemmas about numbers, sets and sequences that the proofs of several     *)
(* components need and the library does not state: induction as a least    *)
(* element, and what is picked from a sequence.                            *)
(***************************************************************************)
EXTENDS Selection, FiniteSets, SequenceTheorems, FiniteSetTheorems,
        WellFoundedInduction, TLAPS

----------------------------------------------------------------------------
(* Induction over the natural numbers, in the form of the least element.   *)

LEMMA Least ==
  ASSUME NEW T, T \subseteq Nat, T # {}
  PROVE  \E n \in T : \A m \in T : n <= m
<1>1. \A m, n \in Nat : m < n => <<m, n>> \in OpToRel(<, Nat)
  BY DEF OpToRel
<1>2. \E R : /\ IsWellFoundedOn(R, Nat)
             /\ \A m, n \in Nat : m < n => <<m, n>> \in R
  BY <1>1, NatLessThanWellFounded, Zenon
<1>3. PICK R : /\ IsWellFoundedOn(R, Nat)
               /\ \A m, n \in Nat : m < n => <<m, n>> \in R
  BY <1>2
<1>4. \E n \in T : \A m \in T : ~(<<m, n>> \in R)
  <2>1. IsWellFoundedOn(R, Nat)
    BY <1>3
  <2> QED BY <2>1, WFMin
<1>5. PICK n \in T : \A m \in T : ~(<<m, n>> \in R)
  BY <1>4
<1>6. \A m \in T : ~(m < n)
  BY <1>3, <1>5, Zenon
<1> QED BY <1>5, <1>6

\* A set of numbers that has 0 and with every number below its bound the next
\* has them all.
LEMMA Climb ==
  ASSUME NEW N \in Nat, NEW S, 0 \in S, \A n \in 0..N - 1 : n \in S => n + 1 \in S
  PROVE  \A n \in 0..N : n \in S
<1> DEFINE T == {n \in 0..N : n \notin S}
<1> SUFFICES ASSUME T # {} PROVE FALSE
  OBVIOUS
<1>1. PICK n \in T : \A m \in T : n <= m
  <2>1. T \subseteq Nat
    OBVIOUS
  <2> HIDE DEF T
  <2> QED BY <2>1, Least
<1>2. n - 1 \in 0..N - 1 /\ n - 1 \notin T
  BY <1>1
<1>3. n - 1 \in S
  BY <1>2
<1> QED BY <1>1, <1>2, <1>3

----------------------------------------------------------------------------
(* What is picked from a sequence.                                         *)

\* How the function of Picked goes on from its own values.
Selecting(u, s, K) ==
  [n \in 0..Len(s) |-> IF n = 0 THEN <<>>
                       ELSE IF n \in K THEN Append(u[n - 1], s[n]) ELSE u[n - 1]]

\* f[n] are the picked ones of the first n.
Selects(f, s, K, N) ==
  /\ f = [n \in 0..N |-> f[n]]
  /\ f[0] = <<>>
  /\ \A n \in 1..N : f[n] = IF n \in K THEN Append(f[n - 1], s[n]) ELSE f[n - 1]

LEMMA SelectExists ==
  ASSUME NEW s, NEW K, NEW N \in Nat
  PROVE  \E f : Selects(f, s, K, N)
<1> DEFINE S == {n \in 0..N : \E f : Selects(f, s, K, n)}
<1>1. 0 \in S
  <2>1. Selects([n \in 0..0 |-> <<>>], s, K, 0)
    BY DEF Selects
  <2> QED BY <2>1
<1>2. ASSUME NEW n \in 0..N - 1, n \in S
      PROVE  n + 1 \in S
  <2>1. PICK f : Selects(f, s, K, n)
    BY <1>2
  <2> DEFINE last == IF n + 1 \in K THEN Append(f[n], s[n + 1]) ELSE f[n]
             g == [i \in 0..n + 1 |-> IF i = n + 1 THEN last ELSE f[i]]
  <2>2. Selects(g, s, K, n + 1)
    <3>1. g = [i \in 0..n + 1 |-> g[i]] /\ g[0] = <<>>
      BY <2>1 DEF Selects
    <3>2. ASSUME NEW i \in 1..n + 1
          PROVE  g[i] = IF i \in K THEN Append(g[i - 1], s[i]) ELSE g[i - 1]
      <4>1. CASE i = n + 1
        <5>1. g[i] = last /\ g[i - 1] = f[n]
          BY <4>1
        <5> QED BY <4>1, <5>1
      <4>2. CASE i # n + 1
        <5>1. i \in 1..n /\ g[i] = f[i] /\ g[i - 1] = f[i - 1]
          BY <4>2
        <5> QED BY <5>1, <2>1 DEF Selects
      <4> QED BY <4>1, <4>2
    <3> HIDE DEF g
    <3> QED BY <3>1, <3>2 DEF Selects
  <2>3. n + 1 \in 0..N
    OBVIOUS
  <2> QED BY <2>2, <2>3
<1>3. \A n \in 0..N : n \in S
  <2> HIDE DEF S
  <2> QED BY <1>1, <1>2, Climb
<1> QED BY <1>3

\* There is a function that the recursion of Picked describes.
LEMMA SelectingExists ==
  ASSUME NEW s, NEW K, Len(s) \in Nat
  PROVE  \E f : f = Selecting(f, s, K)
<1>1. PICK h : Selects(h, s, K, Len(s))
  BY SelectExists
<1>2. h = [n \in 0..Len(s) |-> h[n]]
  BY <1>1 DEF Selects
<1>3. ASSUME NEW n \in 0..Len(s)
      PROVE  h[n] = Selecting(h, s, K)[n]
  <2>1. CASE n = 0
    BY <1>1, <2>1 DEF Selects, Selecting
  <2>2. CASE n # 0
    <3>1. n \in 1..Len(s)
      BY <2>2
    <3>2. h[n] = IF n \in K THEN Append(h[n - 1], s[n]) ELSE h[n - 1]
      BY <1>1, <3>1 DEF Selects
    <3> QED BY <2>2, <3>2 DEF Selecting
  <2> QED BY <2>1, <2>2
<1>4. Selecting(h, s, K) = [n \in 0..Len(s) |-> Selecting(h, s, K)[n]]
  BY DEF Selecting
<1> QED BY <1>2, <1>3, <1>4

\* The picked ones are those that the recursion gathers.
LEMMA PickedSelects ==
  ASSUME NEW s, NEW K, Len(s) \in Nat
  PROVE  \E f : Selects(f, s, K, Len(s)) /\ Picked(s, K) = f[Len(s)]
<1> DEFINE f == CHOOSE u : u = Selecting(u, s, K)
<1>1. f = Selecting(f, s, K)
  BY SelectingExists
<1>2. Picked(s, K) = f[Len(s)]
  BY DEF Picked, Selecting
<1> HIDE DEF f
<1>3. ASSUME NEW n \in 0..Len(s)
      PROVE  f[n] = IF n = 0 THEN <<>>
                    ELSE IF n \in K THEN Append(f[n - 1], s[n]) ELSE f[n - 1]
  <2>1. f[n] = Selecting(f, s, K)[n]
    BY <1>1
  <2> QED BY <2>1 DEF Selecting
<1>4. f = [n \in 0..Len(s) |-> f[n]]
  BY <1>1 DEF Selecting
<1>5. f[0] = <<>>
  BY <1>3
<1>6. ASSUME NEW n \in 1..Len(s)
      PROVE  f[n] = IF n \in K THEN Append(f[n - 1], s[n]) ELSE f[n - 1]
  <2>1. n \in 0..Len(s) /\ n # 0
    OBVIOUS
  <2> QED BY <2>1, <1>3
<1> QED BY <1>2, <1>4, <1>5, <1>6 DEF Selects

\* It gathers the same from what two sequences have in common.
LEMMA SelectsAgree ==
  ASSUME NEW f, NEW g, NEW s, NEW s2, NEW K, NEW K2, NEW N \in Nat, NEW M \in Nat, N <= M,
         Selects(f, s, K, N), Selects(g, s2, K2, M),
         \A i \in 1..N : s[i] = s2[i] /\ (i \in K <=> i \in K2)
  PROVE  f[N] = g[N]
<1> DEFINE S == {n \in 0..N : f[n] = g[n]}
<1>1. 0 \in S
  BY DEF Selects
<1>2. ASSUME NEW n \in 0..N - 1, n \in S
      PROVE  n + 1 \in S
  <2>1. n + 1 \in 1..N /\ n + 1 \in 1..M /\ (n + 1) - 1 = n
    OBVIOUS
  <2>2. f[n + 1] = IF n + 1 \in K THEN Append(f[n], s[n + 1]) ELSE f[n]
    BY <2>1 DEF Selects
  <2>3. g[n + 1] = IF n + 1 \in K2 THEN Append(g[n], s2[n + 1]) ELSE g[n]
    BY <2>1 DEF Selects
  <2>4. f[n] = g[n] /\ s[n + 1] = s2[n + 1] /\ (n + 1 \in K <=> n + 1 \in K2)
    BY <1>2, <2>1
  <2> QED BY <2>1, <2>2, <2>3, <2>4
<1>3. \A n \in 0..N : n \in S
  <2> HIDE DEF S
  <2> QED BY <1>1, <1>2, Climb
<1> QED BY <1>3

LEMMA PickedNone == ASSUME NEW K PROVE Picked(<<>>, K) = <<>>
<1>1. Len(<<>>) = 0
  OBVIOUS
<1>2. PICK f : Selects(f, <<>>, K, 0) /\ Picked(<<>>, K) = f[0]
  BY <1>1, PickedSelects
<1> QED BY <1>2 DEF Selects

\* One more element is picked or not, and changes nothing before it.
LEMMA PickedAppend ==
  ASSUME NEW T, NEW s \in Seq(T), NEW e \in T, NEW K, NEW K2,
         \A i \in 1..Len(s) : i \in K <=> i \in K2
  PROVE  Picked(Append(s, e), K2)
           = IF Len(s) + 1 \in K2 THEN Append(Picked(s, K), e) ELSE Picked(s, K)
<1> DEFINE N == Len(s)
           s2 == Append(s, e)
<1>1. s2 \in Seq(T) /\ Len(s2) = N + 1 /\ s2[N + 1] = e
      /\ \A i \in 1..N : s[i] = s2[i]
  OBVIOUS
<1>2. N \in Nat /\ N + 1 \in Nat /\ N <= N + 1 /\ N + 1 \in 1..N + 1 /\ (N + 1) - 1 = N
  OBVIOUS
<1> HIDE DEF s2
<1>3. PICK f : Selects(f, s, K, N) /\ Picked(s, K) = f[N]
  BY PickedSelects
<1>4. PICK g : Selects(g, s2, K2, N + 1) /\ Picked(s2, K2) = g[N + 1]
  BY <1>1, <1>2, PickedSelects
<1>5. f[N] = g[N]
  <2>1. \A i \in 1..N : s[i] = s2[i] /\ (i \in K <=> i \in K2)
    BY <1>1
  <2> HIDE DEF N
  <2> QED BY <1>2, <1>3, <1>4, <2>1, SelectsAgree
<1>6. g[N + 1] = IF N + 1 \in K2 THEN Append(g[N], e) ELSE g[N]
  <2> HIDE DEF N
  <2> QED BY <1>1, <1>2, <1>4 DEF Selects
<1> QED BY <1>3, <1>4, <1>5, <1>6 DEF s2

\* r are the elements of s at the positions in K, in their order.
Picks(at, r, s, K) ==
  /\ r \in Seq({s[i] : i \in K \cap 1..Len(s)})
  /\ at \in [1..Len(r) -> K \cap 1..Len(s)]
  /\ \A i \in 1..Len(r) : r[i] = s[at[i]]
  /\ \A i, j \in 1..Len(r) : i < j => at[i] < at[j]
  /\ \A k \in K \cap 1..Len(s) : \E i \in 1..Len(r) : at[i] = k

LEMMA PicksOneMore ==
  ASSUME NEW s, NEW K, NEW n \in Nat, n + 1 \in 1..Len(s), Len(s) \in Nat, NEW r, NEW at,
         Picks(at, r, s, K \cap 1..n)
  PROVE  \E at2 : Picks(at2, IF n + 1 \in K THEN Append(r, s[n + 1]) ELSE r, s,
                        K \cap 1..n + 1)
<1> DEFINE A == K \cap 1..n
           B == K \cap 1..n + 1
           T(C) == {s[i] : i \in C \cap 1..Len(s)}
<1>1. CASE n + 1 \notin K
  <2>1. A = B
    BY <1>1
  <2> QED BY <1>1, <2>1
<1>2. CASE n + 1 \in K
  <2>1. B = A \cup {n + 1} /\ B \cap 1..Len(s) = B /\ A \cap 1..Len(s) = A
    BY <1>2
  <2>2. r \in Seq(T(B)) /\ s[n + 1] \in T(B)
    <3>1. T(A) \subseteq T(B) /\ s[n + 1] \in T(B)
      BY <2>1
    <3>2. r \in Seq(T(A))
      BY DEF Picks
    <3> HIDE DEF T
    <3> QED BY <3>1, <3>2, SeqMonotonic
  <2> DEFINE L == Len(r)
             e == s[n + 1]
             q == Append(r, e)
             at2 == [i \in 1..L + 1 |-> IF i = L + 1 THEN n + 1 ELSE at[i]]
  <2>3. q \in Seq(T(B)) /\ Len(q) = L + 1 /\ L \in Nat /\ q[L + 1] = e
        /\ \A i \in 1..L : q[i] = r[i]
    <3> HIDE DEF T
    <3> QED BY <2>2
  <2>4. at \in [1..L -> A]
    BY <2>1 DEF Picks
  <2>5. at2 \in [1..L + 1 -> B]
    BY <2>1, <2>3, <2>4
  <2>6. ASSUME NEW i \in 1..L + 1
        PROVE  q[i] = s[at2[i]]
    BY <2>3 DEF Picks
  <2>7. ASSUME NEW i \in 1..L + 1, NEW j \in 1..L + 1, i < j
        PROVE  at2[i] < at2[j]
    <3>1. i \in 1..L /\ at[i] \in 1..n
      BY SMTT(30), <2>3, <2>4, <2>7
    <3>2. CASE j = L + 1
      BY <3>1, <3>2, <2>3
    <3>3. CASE j # L + 1
      <4>1. j \in 1..L /\ at2[j] = at[j] /\ at2[i] = at[i]
        <5>1. L \in Nat
          BY <2>3
        <5>2. j \in 1..L
          BY <5>1, <3>3
        <5>3. i # L + 1 /\ i \in 1..L + 1 /\ j \in 1..L + 1
          BY <5>1, <3>1
        <5> QED BY <5>2, <5>3, <3>3
      <4> HIDE DEF at2
      <4> QED BY <3>1, <4>1, <2>7 DEF Picks
    <3> QED BY <3>2, <3>3
  <2>8. ASSUME NEW k \in B
        PROVE  \E i \in 1..L + 1 : at2[i] = k
    <3>1. CASE k = n + 1
      <4>1. L + 1 \in 1..L + 1 /\ at2[L + 1] = k
        BY <3>1, <2>3
      <4> QED BY <4>1
    <3>2. CASE k # n + 1
      <4>1. PICK i \in 1..L : at[i] = k
        BY <3>2, <2>1 DEF Picks
      <4>2. i \in 1..L + 1 /\ at2[i] = k
        BY <4>1, <2>3
      <4> QED BY <4>2
    <3> QED BY <3>1, <3>2
  <2>9. Picks(at2, q, s, B)
    <3> HIDE DEF q, at2, B
    <3> QED BY <2>1, <2>3, <2>5, <2>6, <2>7, <2>8 DEF Picks
  <2> QED BY <1>2, <2>9
<1> QED BY <1>1, <1>2

\* Picked picks.
LEMMA PickedPicks ==
  ASSUME NEW s, NEW K, Len(s) \in Nat
  PROVE  \E at : Picks(at, Picked(s, K), s, K)
<1>1. PICK f : Selects(f, s, K, Len(s)) /\ Picked(s, K) = f[Len(s)]
  BY PickedSelects
<1> DEFINE N == Len(s)
           S == {n \in 0..N : \E at : Picks(at, f[n], s, K \cap 1..n)}
<1>2. 0 \in S
  <2>1. f[0] = <<>>
    BY <1>1 DEF Selects
  <2>2. Picks([i \in 1..0 |-> 0], <<>>, s, K \cap 1..0)
    BY DEF Picks
  <2> QED BY <2>1, <2>2
<1>3. ASSUME NEW n \in 0..N - 1, n \in S
      PROVE  n + 1 \in S
  <2>1. PICK at : Picks(at, f[n], s, K \cap 1..n)
    BY <1>3
  <2>2. f[n + 1] = IF n + 1 \in K THEN Append(f[n], s[n + 1]) ELSE f[n]
    <3>1. n + 1 \in 1..N /\ (n + 1) - 1 = n
      OBVIOUS
    <3> QED BY <3>1, <1>1 DEF Selects
  <2>3. n \in Nat /\ n + 1 \in 1..N
    OBVIOUS
  <2>4. \E at2 : Picks(at2, f[n + 1], s, K \cap 1..n + 1)
    <3> HIDE DEF S, N
    <3>1. \E at2 : Picks(at2, IF n + 1 \in K THEN Append(f[n], s[n + 1]) ELSE f[n], s,
                        K \cap 1..n + 1)
      <4>1. n + 1 \in 1..Len(s)
        BY <2>3 DEF N
      <4> QED BY <2>1, <2>3, <4>1, PicksOneMore
    <3> QED BY <2>2, <3>1
  <2> QED BY <2>3, <2>4
<1>4. \A n \in 0..N : n \in S
  <2> HIDE DEF S
  <2> QED BY <1>2, <1>3, Climb
<1>5. PICK at : Picks(at, f[N], s, K \cap 1..N)
  <2>1. N \in S
    <3> HIDE DEF S
    <3> QED BY <1>4
  <2> QED BY <2>1
<1>6. (K \cap 1..N) \cap 1..Len(s) = K \cap 1..Len(s)
  OBVIOUS
<1>7. Picks(at, f[N], s, K)
  <2> HIDE DEF S
  <2> QED BY <1>5, <1>6 DEF Picks
<1> QED BY <1>1, <1>7

\* All is picked, and the first first.
LEMMA PicksFacts ==
  ASSUME NEW s, NEW K, NEW r, NEW at, Len(s) \in Nat, Picks(at, r, s, K)
  PROVE  /\ Len(r) \in Nat /\ DOMAIN r = 1..Len(r)
         /\ \A k \in K \cap 1..Len(s) : \E i \in DOMAIN r : r[i] = s[k]
         /\ r = <<>> <=> K \cap 1..Len(s) = {}
         /\ r # <<>> => \A k \in K \cap 1..Len(s) : at[1] <= k
         /\ \A i, j \in 1..Len(r) : at[i] = at[j] => i = j
<1> DEFINE D == K \cap 1..Len(s)
<1>1. r \in Seq({s[k] : k \in D})
  BY DEF Picks
<1>2. Len(r) \in Nat /\ DOMAIN r = 1..Len(r) /\ (r = <<>> <=> Len(r) = 0)
  <2> HIDE DEF D
  <2> QED BY <1>1
<1>3. at \in [1..Len(r) -> D] /\ \A i \in 1..Len(r) : r[i] = s[at[i]]
  BY DEF Picks
<1>4. \A k \in D : \E i \in 1..Len(r) : at[i] = k
  BY DEF Picks
<1>5. \A i, j \in 1..Len(r) : i < j => at[i] < at[j]
  BY DEF Picks
<1>6. ASSUME NEW k \in D PROVE \E i \in DOMAIN r : r[i] = s[k]
  <2>1. PICK i \in 1..Len(r) : at[i] = k
    BY <1>4
  <2> QED BY <2>1, <1>2, <1>3
<1>7. r = <<>> <=> D = {}
  <2>1. ASSUME D = {} PROVE r = <<>>
    <3>1. 1 \notin 1..Len(r)
      BY <1>3, <2>1
    <3> QED BY <3>1, <1>2
  <2>2. ASSUME r = <<>> PROVE D = {}
    <3>1. 1..Len(r) = {}
      BY <1>2, <2>2
    <3> QED BY <3>1, <1>4
  <2> QED BY <2>1, <2>2
<1>8. ASSUME r # <<>>, NEW k \in D PROVE at[1] <= k
  <2>1. PICK i \in 1..Len(r) : at[i] = k
    BY <1>4
  <2>2. 1 \in 1..Len(r) /\ at[1] \in D
    BY <1>2, <1>3, <1>8
  <2>3. i = 1 \/ 1 < i
    BY <1>2
  <2> QED BY <1>5, <2>1, <2>2, <2>3
<1>9. ASSUME NEW i \in 1..Len(r), NEW j \in 1..Len(r), at[i] = at[j] PROVE i = j
  <2>1. at[i] \in Nat /\ at[j] \in Nat
    BY <1>3
  <2>2. i < j \/ j < i \/ i = j
    BY <1>2
  <2> QED BY <1>5, <1>9, <2>1, <2>2
<1> QED BY <1>2, <1>6, <1>7, <1>8, <1>9

\* A place after all the others.
LEMMA PickedLast ==
  ASSUME NEW s, Len(s) \in Nat, NEW K, NEW k \in 1..Len(s), \A i \in K \cap 1..Len(s) : i < k
  PROVE  Picked(s, K \cup {k}) = Append(Picked(s, K), s[k])
<1> DEFINE N == Len(s)
           K2 == K \cup {k}
<1>1. PICK f : Selects(f, s, K, N) /\ Picked(s, K) = f[N]
  BY PickedSelects
<1>2. PICK g : Selects(g, s, K2, N) /\ Picked(s, K2) = g[N]
  BY PickedSelects
<1> DEFINE S == {n \in 0..N : /\ n < k => g[n] = f[n]
                              /\ k <= n => g[n] = Append(f[n], s[k])}
<1>3. 0 \in S
  BY <1>1, <1>2 DEF Selects
<1>4. ASSUME NEW n \in 0..N - 1, n \in S
      PROVE  n + 1 \in S
  <2>1. n + 1 \in 1..N /\ (n + 1) - 1 = n /\ n \in Nat /\ k \in Nat
    OBVIOUS
  <2>2. f[n + 1] = IF n + 1 \in K THEN Append(f[n], s[n + 1]) ELSE f[n]
    BY <1>1, <2>1 DEF Selects
  <2>3. g[n + 1] = IF n + 1 \in K2 THEN Append(g[n], s[n + 1]) ELSE g[n]
    BY <1>2, <2>1 DEF Selects
  <2>4. CASE n + 1 < k
    BY <1>4, <2>1, <2>2, <2>3, <2>4
  <2>5. CASE n + 1 = k
    <3>1. k \in K2 /\ k \notin K
      BY <2>1
    <3>2. n < k /\ g[n] = f[n] /\ s[n + 1] = s[k]
      BY <1>4, <2>1, <2>5
    <3>3. f[n + 1] = f[n] /\ g[n + 1] = Append(f[n], s[k])
      BY <2>2, <2>3, <2>5, <3>1, <3>2
    <3> QED BY <2>1, <2>5, <3>3
  <2>6. CASE k < n + 1
    <3>1. n + 1 \notin K2 /\ n + 1 \notin K
      BY <2>1, <2>6
    <3>2. k <= n /\ g[n] = Append(f[n], s[k])
      BY <1>4, <2>1, <2>6
    <3>3. f[n + 1] = f[n] /\ g[n + 1] = g[n]
      BY <2>2, <2>3, <3>1
    <3>4. g[n + 1] = Append(f[n + 1], s[k])
      BY <3>2, <3>3
    <3>5. ~(n + 1 < k) /\ n + 1 \in 0..N
      BY <2>1, <2>6
    <3> QED BY <3>4, <3>5
  <2> QED BY <2>1, <2>4, <2>5, <2>6
<1>5. \A n \in 0..N : n \in S
  <2> HIDE DEF S
  <2> QED BY <1>3, <1>4, Climb
<1>6. N \in S
  <2> HIDE DEF S
  <2> QED BY <1>5
<1>7. k <= N
  OBVIOUS
<1>8. g[N] = Append(f[N], s[k])
  BY <1>6, <1>7
<1> QED BY <1>1, <1>2, <1>8
=============================================================================
