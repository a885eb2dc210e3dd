-------------------------- MODULE SelectionProofs ---------------------------
(***************************************************************************)
(* Induction over the naturals, what a function defined by recursion over  *)
(* the places of a sequence is, and what Select picks.                     *)
(***************************************************************************)
EXTENDS Selection, WellFoundedInduction, TLAPS

(* A set of naturals has a least one. *)
LEMMA Least ==
  ASSUME NEW S \in SUBSET Nat, S # {}
  PROVE  \E x \in S : \A y \in S : x <= y
<1>1. PICK x \in S : \A y \in S : ~(<<y, x>> \in OpToRel(<, Nat))
  BY NatLessThanWellFounded, WFMin
<1>2. \A y \in S : ~(y < x)
  BY <1>1 DEF OpToRel
<1>3. \A y \in S : y \in Nat /\ x \in Nat
  OBVIOUS
<1> QED BY <1>2, <1>3

(* Induction, on sets: a set of naturals, not all of them, has a least one  *)
(* outside.                                                                 *)
LEMMA Induction ==
  ASSUME NEW S, 0 \in S, \A n \in Nat : n \in S => n + 1 \in S
  PROVE  Nat \subseteq S
<1> SUFFICES ASSUME Nat \ S # {} PROVE FALSE
  OBVIOUS
<1>1. PICK x \in Nat \ S : \A y \in Nat \ S : x <= y
  <2>1. Nat \ S \in SUBSET Nat
    OBVIOUS
  <2> QED BY <2>1, Least
<1>2. x # 0 /\ x - 1 \in Nat /\ (x - 1) + 1 = x
  OBVIOUS
<1>3. x - 1 \in S
  BY <1>1, <1>2
<1> QED BY <1>2, <1>3

(* The same, up to a bound. *)
LEMMA BoundedInduction ==
  ASSUME NEW N \in Nat, NEW S, 0 \in S, \A n \in 1..N : n - 1 \in S => n \in S
  PROVE  0..N \subseteq S
<1> DEFINE T == {n \in Nat : n <= N => n \in S}
<1>1. 0 \in T
  OBVIOUS
<1>2. ASSUME NEW n \in Nat, n \in T PROVE n + 1 \in T
  <2>1. CASE n + 1 <= N
    <3>1. n \in S /\ n + 1 \in 1..N /\ (n + 1) - 1 = n
      BY <1>2, <2>1
    <3> QED BY <3>1
  <2> QED BY <2>1
<1> HIDE DEF T
<1>3. Nat \subseteq T
  BY <1>1, <1>2, Induction
<1> QED BY <1>3 DEF T

\* `f` starts at `b`, and each step is what F says.
Solves(f, N, b, F) == f[0] = b /\ \A n \in 1..N : f[n] = F[n][f[n - 1]]

(* A recursion over 0..N that each step leaves in V has a solution. *)
LEMMA Recursion ==
  ASSUME NEW N, N \in Nat, NEW V, NEW b, b \in V, NEW F, F \in [1..N -> [V -> V]]
  PROVE  \E f \in [0..N -> V] : Solves(f, N, b, F)
<1> USE DEF Solves
<1> DEFINE S == {m \in 0..N : \E f \in [0..m -> V] : Solves(f, m, b, F)}
<1>1. 0 \in S
  <2>1. Solves([n \in 0..0 |-> b], 0, b, F)
    OBVIOUS
  <2>2. [n \in 0..0 |-> b] \in [0..0 -> V] /\ 0 \in 0..N
    OBVIOUS
  <2> QED BY <2>1, <2>2
<1>2. ASSUME NEW m \in 1..N, m - 1 \in S PROVE m \in S
  <2>1. PICK f \in [0..(m - 1) -> V] : Solves(f, m - 1, b, F)
    BY <1>2
  <2> DEFINE g == [n \in 0..m |-> IF n = m THEN F[m][f[m - 1]] ELSE f[n]]
  <2>2. f[m - 1] \in V /\ F[m][f[m - 1]] \in V
    <3>1. f[m - 1] \in V
      BY <2>1
    <3> QED BY <3>1
  <2>3. g \in [0..m -> V]
    <3>1. ASSUME NEW n \in 0..m PROVE g[n] \in V
      <4>1. CASE n = m
        BY <4>1, <2>2
      <4>2. CASE n # m
        <5>1. n \in 0..(m - 1)
          BY <4>2
        <5> QED BY <5>1, <4>2, <2>1
      <4> QED BY <4>1, <4>2
    <3> QED BY <3>1
  <2>4. g[0] = b
    BY <2>1
  <2>5. ASSUME NEW n \in 1..m PROVE g[n] = F[n][g[n - 1]]
    <3>1. CASE n = m
      <4>1. g[n - 1] = f[m - 1] /\ g[n] = F[m][f[m - 1]]
        BY <3>1
      <4> QED BY <4>1, <3>1
    <3>2. CASE n # m
      <4>1. n \in 1..(m - 1) /\ g[n] = f[n] /\ g[n - 1] = f[n - 1]
        BY <3>2
      <4> QED BY <4>1, <2>1
    <3> QED BY <3>1, <3>2
  <2> HIDE DEF g
  <2> QED BY <2>3, <2>4, <2>5
<1> HIDE DEF S
<1>3. N \in S
  <2>1. 0..N \subseteq S
    BY <1>1, <1>2, BoundedInduction
  <2> QED BY <2>1
<1> QED BY <1>3 DEF S

-----------------------------------------------------------------------------
(* Select.                                                                  *)

\* The places of `s` whose elements are picked, in their order.
Places(e, r, s, S) ==
  /\ e \in [1..Len(r) -> 1..Len(s)]
  /\ \A j \in 1..Len(r) : r[j] = s[e[j]] /\ s[e[j]] \in S
  /\ \A j, k \in 1..Len(r) : j < k => e[j] < e[k]
  /\ \A i \in 1..Len(s) : s[i] \in S => \E j \in 1..Len(r) : e[j] = i

LEMMA SelectFcn ==
  ASSUME NEW T, NEW s \in Seq(T), NEW S
  PROVE  \E f \in [0..Len(s) -> Seq(T)] :
           /\ f[0] = <<>> /\ Select(s, S) = f[Len(s)]
           /\ \A n \in 1..Len(s) : f[n] = IF s[n] \in S THEN Append(f[n - 1], s[n]) ELSE f[n - 1]
<1> DEFINE N == Len(s)
           V == Seq(T)
           none == <<>>
           F == [n \in 1..N |-> [v \in V |-> IF s[n] \in S THEN Append(v, s[n]) ELSE v]]
           G(f) == [n \in 0..N |-> IF n = 0 THEN none
                                   ELSE IF s[n] \in S THEN Append(f[n - 1], s[n]) ELSE f[n - 1]]
           Picks(f) == /\ f[0] = none
                        /\ \A n \in 1..N : f[n] = IF s[n] \in S THEN Append(f[n - 1], s[n])
                                                   ELSE f[n - 1]
<1>1. N \in Nat /\ none \in V /\ \A n \in 1..N, v \in V : Append(v, s[n]) \in V
  OBVIOUS
<1>2. F \in [1..N -> [V -> V]]
  <2>1. ASSUME NEW n \in 1..N, NEW v \in V
        PROVE  (IF s[n] \in S THEN Append(v, s[n]) ELSE v) \in V
    BY <1>1
  <2> HIDE DEF N, V
  <2> QED BY <2>1
<1>3. PICK f \in [0..N -> V] : Solves(f, N, none, F)
  <2> HIDE DEF F, N, V, none
  <2> QED BY <1>1, <1>2, Recursion
<1>4. ASSUME NEW n \in 1..N
      PROVE  f[n] = IF s[n] \in S THEN Append(f[n - 1], s[n]) ELSE f[n - 1]
  <2> HIDE DEF N, V
  <2>1. f[n - 1] \in V
    BY <1>1
  <2>2. F[n][f[n - 1]] = IF s[n] \in S THEN Append(f[n - 1], s[n]) ELSE f[n - 1]
    BY <2>1
  <2> QED BY <2>2, <1>3 DEF Solves
<1>5. f = G(f)
  <2> HIDE DEF N, V, none
  <2>1. \A n \in 0..N : n # 0 => n \in 1..N
    BY <1>1
  <2> QED BY <2>1, <1>3, <1>4 DEF Solves
<1> DEFINE g == CHOOSE h : h = G(h)
<1>6. g = G(g)
  <2> HIDE DEF G
  <2> QED BY <1>5
<1>7. Select(s, S) = g[N]
  BY DEF Select
<1> HIDE DEF g
<1>8. Picks(g)
  <2> HIDE DEF N, none
  <2>1. \A n \in 0..N : g[n] = G(g)[n]
    BY <1>6
  <2>2. 0 \in 0..N /\ \A n \in 1..N : n \in 0..N /\ n # 0
    BY <1>1
  <2> QED BY <2>1, <2>2
<1>9. g \in [0..N -> V]
  <2> DEFINE P == {n \in 0..N : g[n] \in V}
  <2> HIDE DEF N, V, none
  <2>1. 0 \in P
    BY <1>8, <1>1
  <2>2. ASSUME NEW n \in 1..N, n - 1 \in P PROVE n \in P
    <3>1. g[n - 1] \in V /\ Append(g[n - 1], s[n]) \in V /\ n \in 0..N
      BY <2>2, <1>1
    <3> QED BY <3>1, <1>8
  <2> HIDE DEF P
  <2>3. 0..N \subseteq P
    BY <2>1, <2>2, <1>1, BoundedInduction
  <2>4. \A n \in 0..N : g[n] \in V
    BY <2>3 DEF P
  <2> QED BY <2>4, <1>6
<1> QED BY <1>7, <1>8, <1>9

(* Select picks the elements in S, each once, in their order. *)
LEMMA SelectPlaces ==
  ASSUME NEW T, NEW s \in Seq(T), NEW S
  PROVE  /\ Select(s, S) \in Seq(T \cap S)
         /\ Len(Select(s, S)) <= Len(s)
         /\ \E e : Places(e, Select(s, S), s, S)
<1> DEFINE N == Len(s)
<1>1. PICK f \in [0..N -> Seq(T)] :
        /\ f[0] = <<>> /\ Select(s, S) = f[N]
        /\ \A n \in 1..N : f[n] = IF s[n] \in S THEN Append(f[n - 1], s[n]) ELSE f[n - 1]
  BY SelectFcn
<1> DEFINE Upto(e, n) ==
             /\ e \in [1..Len(f[n]) -> 1..n]
             /\ \A j \in 1..Len(f[n]) : f[n][j] = s[e[j]] /\ s[e[j]] \in S
             /\ \A j, k \in 1..Len(f[n]) : j < k => e[j] < e[k]
             /\ \A i \in 1..n : s[i] \in S => \E j \in 1..Len(f[n]) : e[j] = i
           P == {n \in 0..N : Len(f[n]) <= n /\ \E e : Upto(e, n)}
<1>2. N \in Nat
  OBVIOUS
<1>3. 0 \in P
  <2>1. Len(f[0]) = 0
    BY <1>1
  <2>2. Upto([i \in {} |-> 0], 0)
    BY <2>1
  <2> QED BY <2>1, <2>2, <1>2
<1>4. ASSUME NEW n \in 1..N, n - 1 \in P PROVE n \in P
  <2>1. PICK e : Upto(e, n - 1)
    BY <1>4
  <2>2. f[n - 1] \in Seq(T) /\ Len(f[n - 1]) \in Nat /\ Len(f[n - 1]) <= n - 1
    BY <1>4
  <2>3. CASE s[n] \in S
    <3> DEFINE L == Len(f[n - 1])
               d == [j \in 1..(L + 1) |-> IF j = L + 1 THEN n ELSE e[j]]
    <3>0. s[n] \in T
      OBVIOUS
    <3> HIDE DEF N
    <3>b. f[n] = Append(f[n - 1], s[n])
      BY <2>3, <1>1
    <3>1. /\ Len(f[n]) = L + 1 /\ f[n][L + 1] = s[n]
          /\ \A j \in 1..L : f[n][j] = f[n - 1][j]
      BY <3>0, <3>b, <2>2 DEF L
    <3>2. d[L + 1] = n /\ \A j \in 1..L : d[j] = e[j] /\ e[j] \in 1..(n - 1)
      <4>1. L \in Nat /\ L + 1 \in 1..(L + 1) /\ \A j \in 1..L : j \in 1..(L + 1) /\ j # L + 1
        BY <2>2
      <4>2. \A j \in 1..L : e[j] \in 1..(n - 1)
        BY <2>1
      <4> HIDE DEF L
      <4> QED BY <4>1, <4>2
    <3>3. \A j \in 1..(L + 1) : j = L + 1 \/ j \in 1..L
      BY <2>2
    <3> HIDE DEF L
    <3>4. d \in [1..(L + 1) -> 1..n]
      <4>1. \A j \in 1..(L + 1) : d[j] \in 1..n
        <5>1. n \in 1..n /\ 1..(n - 1) \subseteq 1..n
          OBVIOUS
        <5> QED BY <5>1, <3>2, <3>3
      <4> QED BY <4>1
    <3> HIDE DEF d
    <3>5. \A j \in 1..(L + 1) : f[n][j] = s[d[j]] /\ s[d[j]] \in S
      BY <3>1, <3>2, <3>3, <2>1, <2>3 DEF L
    <3>6. \A j, k \in 1..(L + 1) : j < k => d[j] < d[k]
      <4> SUFFICES ASSUME NEW j \in 1..(L + 1), NEW k \in 1..(L + 1), j < k PROVE d[j] < d[k]
        OBVIOUS
      <4>1. L \in Nat /\ j \in 1..L
        BY <2>2 DEF L
      <4>2. CASE k = L + 1
        BY <4>1, <4>2, <3>2
      <4>3. CASE k \in 1..L
        BY <4>1, <4>3, <3>2, <2>1 DEF L
      <4> QED BY <4>2, <4>3, <3>3
    <3>7. \A i \in 1..n : s[i] \in S => \E j \in 1..(L + 1) : d[j] = i
      <4> SUFFICES ASSUME NEW i \in 1..n, s[i] \in S PROVE \E j \in 1..(L + 1) : d[j] = i
        OBVIOUS
      <4>0. L \in Nat
        BY <2>2 DEF L
      <4>1. CASE i = n
        BY <4>0, <4>1, <3>2
      <4>2. CASE i # n
        <5>1. i \in 1..(n - 1)
          BY <4>2
        <5>2. PICK j \in 1..L : e[j] = i
          BY <5>1, <2>1 DEF L
        <5>3. j \in 1..(L + 1)
          BY <4>0
        <5> QED BY <5>2, <5>3, <3>2
      <4> QED BY <4>1, <4>2
    <3>8. Upto(d, n)
      BY <3>1, <3>4, <3>5, <3>6, <3>7
    <3>9. n \in 0..N /\ Len(f[n]) <= n
      BY <3>1, <2>2, <1>2 DEF L
    <3> QED BY <3>8, <3>9
  <2>4. CASE s[n] \notin S
    <3>1. f[n] = f[n - 1]
      BY <2>4, <1>1
    <3>2. \A i \in 1..n : s[i] \in S => i \in 1..(n - 1)
      BY <2>4
    <3>3. e \in [1..Len(f[n - 1]) -> 1..n]
      <4>1. 1..(n - 1) \subseteq 1..n
        OBVIOUS
      <4> HIDE DEF N
      <4> QED BY <2>1, <4>1
    <3>4. Upto(e, n)
      BY <3>1, <3>2, <3>3, <2>1
    <3>5. n \in 0..N /\ Len(f[n]) <= n
      BY <3>1, <2>2, <1>2
    <3> QED BY <3>4, <3>5
  <2> QED BY <2>3, <2>4
<1>5. 0..N \subseteq P
  <2> HIDE DEF P
  <2> QED BY <1>2, <1>3, <1>4, BoundedInduction
<1>6. PICK e : Upto(e, N)
  <2>1. N \in P
    <3> HIDE DEF P
    <3> QED BY <1>5, <1>2
  <2> HIDE DEF Upto, N
  <2> QED BY <2>1
<1>7. Places(e, Select(s, S), s, S)
  BY <1>6, <1>1 DEF Places
<1>8. Select(s, S) \in Seq(T) /\ Len(Select(s, S)) <= N
  BY <1>1, <1>2, <1>5
<1>9. Select(s, S) \in Seq(T \cap S)
  <2>1. \A j \in 1..Len(Select(s, S)) : Select(s, S)[j] \in T \cap S
    BY <1>7, <1>8 DEF Places
  <2> QED BY <2>1, <1>8
<1> QED BY <1>7, <1>8, <1>9

(* Every element in S is picked, and nothing else. *)
LEMMA SelectMembers ==
  ASSUME NEW T, NEW s \in Seq(T), NEW S
  PROVE  LET r == Select(s, S) IN
         /\ r \in Seq(T) /\ \A j \in 1..Len(r) : r[j] \in S
         /\ \A i \in 1..Len(s) : s[i] \in S => \E j \in 1..Len(r) : r[j] = s[i]
<1> DEFINE r == Select(s, S)
<1>1. r \in Seq(T \cap S) /\ \E e : Places(e, r, s, S)
  BY SelectPlaces
<1> HIDE DEF r
<1>2. r \in Seq(T) /\ \A j \in 1..Len(r) : r[j] \in S
  BY <1>1
<1>3. \A i \in 1..Len(s) : s[i] \in S => \E j \in 1..Len(r) : r[j] = s[i]
  BY <1>1 DEF Places
<1> QED BY <1>2, <1>3 DEF r
=============================================================================
