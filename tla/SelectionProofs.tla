-------------------------- MODULE SelectionProofs --------------------------
(***************************************************************************)
(* What Only selects.  The theorems on induction that the library has take  *)
(* the statement as an operator; here it is given as the set of numbers for *)
(* which it holds, which needs no more than that < is well-founded.         *)
(***************************************************************************)
EXTENDS Selection, Integers, TLAPS, WellFoundedInduction

\* A set with 0 and the successors of its members has all natural numbers.
LEMMA SetInduction ==
    ASSUME NEW S, 0 \in S, \A n \in Nat : n \in S => n + 1 \in S
    PROVE  Nat \subseteq S
<1> DEFINE Less == {ss \in Nat \X Nat : ss[1] < ss[2]}
           Rest == Nat \ S
<1>1. IsWellFoundedOn(Less, Nat)
  BY NatLessThanWellFounded, Zenon DEF OpToRel
<1> HIDE DEF Less
<1> SUFFICES ASSUME Rest # {} PROVE FALSE
  OBVIOUS
<1>2. PICK i \in Rest : \A j \in Rest : <<j, i>> \notin Less
  BY <1>1, WFMin
<1>3. i - 1 \in Nat
  BY <1>2
<1>4. <<i - 1, i>> \in Less
  BY <1>3 DEF Less
<1>5. i - 1 \in S
  BY <1>2, <1>3, <1>4
<1> QED BY <1>2, <1>3, <1>5

Filters(s, S, f, i) ==
    f[i] = IF i = 0 THEN <<>>
           ELSE IF s[i] \in S THEN Append(f[i - 1], s[i]) ELSE f[i - 1]

\* The recursion of OnlyUpTo has a solution, so that OnlyUpTo is one.
LEMMA OnlyUnfolds ==
    ASSUME NEW A, NEW s \in Seq(A), NEW S
    PROVE  \A i \in 0..Len(s) : Filters(s, S, OnlyUpTo(s, S), i)
<1> DEFINE Body(f, i) == IF i = 0 THEN <<>>
                         ELSE IF s[i] \in S THEN Append(f[i - 1], s[i]) ELSE f[i - 1]
           Solves(f, n) == f = [i \in 0..n |-> Body(f, i)]
           Known == {n \in Nat : \E f : Solves(f, n)}
<1>1. 0 \in Known
  <2> DEFINE e == [i \in 0..0 |-> <<>>]
  <2>1. Solves(e, 0)
    OBVIOUS
  <2> QED BY <2>1
<1>2. ASSUME NEW n \in Nat, n \in Known PROVE n + 1 \in Known
  <2>1. PICK h : Solves(h, n)
    BY <1>2
  <2> DEFINE g == [i \in 0..(n + 1) |-> IF i = n + 1 THEN Body(h, i) ELSE h[i]]
  <2>2. \A i \in 0..n : g[i] = h[i]
    OBVIOUS
  <2>3. \A i \in 0..n : h[i] = Body(h, i)
    BY <2>1, Zenon
  <2>4. \A i \in 0..(n + 1) : Body(g, i) = Body(h, i)
    BY <2>2
  <2>5. \A i \in 0..(n + 1) : g[i] = Body(g, i)
    BY <2>3, <2>4
  <2> HIDE DEF Body
  <2>6. g = [i \in 0..(n + 1) |-> Body(g, i)]
    BY <2>5
  <2>7. Solves(g, n + 1)
    BY <2>6
  <2> HIDE DEF g, Solves
  <2> QED BY <2>7
<1>3. Len(s) \in Known
  <2> HIDE DEF Known
  <2> QED BY <1>1, <1>2, SetInduction
<1>4. \E f : Solves(f, Len(s))
  BY <1>3
<1>5. OnlyUpTo(s, S) = CHOOSE f : Solves(f, Len(s))
  BY DEF OnlyUpTo
<1> HIDE DEF Body
<1>6. Solves(OnlyUpTo(s, S), Len(s))
  BY <1>4, <1>5, Zenon
<1>7. \A i \in 0..Len(s) : OnlyUpTo(s, S)[i] = Body(OnlyUpTo(s, S), i)
  BY <1>6, Zenon
<1> QED BY <1>7 DEF Body, Filters
-----------------------------------------------------------------------------
\* The elements of t are those of s at the increasing positions m, which are all the
\* positions up to n of elements in S.
Selects(s, S, n, t, m) ==
    /\ m \in [1..Len(t) -> 1..n]
    /\ \A k \in 1..Len(t) : t[k] = s[m[k]] /\ t[k] \in S
    /\ \A k, l \in 1..Len(t) : k < l => m[k] < m[l]
    /\ \A i \in 1..n : s[i] \in S => \E k \in 1..Len(t) : m[k] = i

\* Only selects: this determines it, and the lemmas below follow from it.
LEMMA OnlySelects ==
    ASSUME NEW A, NEW s \in Seq(A), NEW S
    PROVE  Only(s, S) \in Seq(A) /\ \E m : Selects(s, S, Len(s), Only(s, S), m)
<1> DEFINE f == OnlyUpTo(s, S)
           Good(n) == f[n] \in Seq(A) /\ \E m : Selects(s, S, n, f[n], m)
           Known == {n \in Nat : n <= Len(s) => Good(n)}
<1>1. \A i \in 0..Len(s) : Filters(s, S, f, i)
  BY OnlyUnfolds
<1> HIDE DEF f
<1>2. Good(0)
  <2>1. f[0] = <<>>
    BY <1>1 DEF Filters
  <2>2. Selects(s, S, 0, f[0], [k \in 1..0 |-> k])
    BY <2>1 DEF Selects
  <2> QED BY <2>1, <2>2
<1>3. ASSUME NEW n \in Nat, n \in Known PROVE n + 1 \in Known
  <2> SUFFICES ASSUME n + 1 <= Len(s) PROVE Good(n + 1)
    OBVIOUS
  <2>1. f[n] \in Seq(A)
    BY <1>3
  <2>2. PICK m : Selects(s, S, n, f[n], m)
    BY <1>3
  <2>3. f[n + 1] = IF s[n + 1] \in S THEN Append(f[n], s[n + 1]) ELSE f[n]
    BY <1>1 DEF Filters
  <2>4. CASE s[n + 1] \in S
    <3> DEFINE t == f[n + 1]
               l == [k \in 1..Len(t) |-> IF k = Len(t) THEN n + 1 ELSE m[k]]
    <3>1. t = Append(f[n], s[n + 1]) /\ s[n + 1] \in A
      BY <2>3, <2>4
    <3>2. t \in Seq(A) /\ Len(t) = Len(f[n]) + 1 /\ t[Len(t)] = s[n + 1]
      BY <2>1, <3>1
    <3>3. \A k \in 1..Len(f[n]) : t[k] = f[n][k]
      BY <2>1, <3>1
    <3> HIDE DEF t
    <3>4. Len(f[n]) \in Nat
      BY <2>1
    <3> DEFINE len == Len(f[n])
    <3>5. l \in [1..Len(t) -> 1..(n + 1)]
      BY <2>2, <3>2, <3>4 DEF Selects
    <3>6. \A k \in 1..len : l[k] = m[k] /\ m[k] \in 1..n
      <4> SUFFICES ASSUME NEW k \in 1..len PROVE l[k] = m[k] /\ m[k] \in 1..n
        OBVIOUS
      <4>1. k \in 1..Len(t) /\ k # Len(t)
        BY <3>2, <3>4
      <4>2. m[k] \in 1..n
        BY <2>2 DEF Selects
      <4> QED BY <4>1, <4>2
    <3>7. l[len + 1] = n + 1 /\ Len(t) = len + 1
      BY <3>2, <3>4
    <3> HIDE DEF l
    <3>8. \A k \in 1..Len(t) : t[k] = s[l[k]] /\ t[k] \in S
      <4> SUFFICES ASSUME NEW k \in 1..Len(t) PROVE t[k] = s[l[k]] /\ t[k] \in S
        OBVIOUS
      <4>1. CASE k \in 1..len
        BY <2>2, <3>3, <3>6, <4>1 DEF Selects
      <4>2. CASE k = len + 1
        BY <2>4, <3>2, <3>7, <4>2
      <4> QED BY <3>4, <3>7, <4>1, <4>2
    <3>9. \A j, k \in 1..Len(t) : j < k => l[j] < l[k]
      <4> SUFFICES ASSUME NEW j \in 1..Len(t), NEW k \in 1..Len(t), j < k PROVE l[j] < l[k]
        OBVIOUS
      <4>1. j \in 1..len /\ (k \in 1..len \/ k = len + 1)
        BY <3>4, <3>7
      <4> QED BY <2>2, <3>6, <3>7, <4>1 DEF Selects
    <3>10. \A i \in 1..(n + 1) : s[i] \in S => \E k \in 1..Len(t) : l[k] = i
      <4> SUFFICES ASSUME NEW i \in 1..(n + 1), s[i] \in S
                   PROVE  \E k \in 1..Len(t) : l[k] = i
        OBVIOUS
      <4>1. CASE i = n + 1
        <5>1. len + 1 \in 1..Len(t)
          BY <3>4, <3>7
        <5> QED BY <3>7, <4>1, <5>1
      <4>2. CASE i \in 1..n
        <5>1. PICK k \in 1..len : m[k] = i
          BY <2>2, <4>2 DEF Selects
        <5>2. k \in 1..Len(t)
          BY <3>4, <3>7
        <5> QED BY <3>6, <5>1, <5>2
      <4> QED BY <4>1, <4>2
    <3> QED BY <3>2, <3>5, <3>8, <3>9, <3>10 DEF Selects, t
  <2>5. CASE s[n + 1] \notin S
    <3>1. Selects(s, S, n + 1, f[n], m)
      BY <2>1, <2>2, <2>5 DEF Selects
    <3> QED BY <2>1, <2>3, <2>5, <3>1
  <2> QED BY <2>4, <2>5
<1>4. Len(s) \in Known
  <2>1. 0 \in Known
    BY <1>2
  <2> HIDE DEF Known
  <2> QED BY <1>3, <2>1, SetInduction
<1> QED BY <1>4 DEF Only, f
\* What is selected is in the set.
LEMMA OnlyType ==
    ASSUME NEW A, NEW s \in Seq(A), NEW S
    PROVE  Only(s, S) \in Seq(A \cap S)
<1>1. Only(s, S) \in Seq(A) /\ \A k \in 1..Len(Only(s, S)) : Only(s, S)[k] \in A \cap S
  BY OnlySelects DEF Selects
<1> HIDE DEF Only
<1> QED BY <1>1

\* All and only the elements of s that are in the set are selected.
LEMMA OnlyElements ==
    ASSUME NEW A, NEW s \in Seq(A), NEW S
    PROVE  \A x : (\E k \in DOMAIN Only(s, S) : Only(s, S)[k] = x)
                      <=> x \in S /\ \E i \in DOMAIN s : s[i] = x
<1> DEFINE t == Only(s, S)
<1>1. t \in Seq(A)
  BY OnlySelects
<1>2. PICK m : Selects(s, S, Len(s), t, m)
  BY OnlySelects
<1> HIDE DEF t
<1>3. DOMAIN s = 1..Len(s) /\ DOMAIN t = 1..Len(t)
  BY <1>1
<1>4. \A k \in DOMAIN t : m[k] \in DOMAIN s /\ t[k] = s[m[k]] /\ t[k] \in S
  BY <1>2, <1>3 DEF Selects
<1>5. \A i \in DOMAIN s : s[i] \in S => \E k \in DOMAIN t : t[k] = s[i]
  BY <1>2, <1>3, <1>4 DEF Selects
<1>6. \A x : (\E k \in DOMAIN t : t[k] = x) <=> x \in S /\ \E i \in DOMAIN s : s[i] = x
  BY <1>4, <1>5
<1> QED BY <1>6 DEF t

\* a stands before b in s.
Before(s, a, b) == \E i, j \in DOMAIN s : i < j /\ s[i] = a /\ s[j] = b

\* No element stands twice in s.
Distinct(s) == \A i, j \in DOMAIN s : s[i] = s[j] => i = j

\* What is selected keeps its order.
LEMMA OnlyBefore ==
    ASSUME NEW A, NEW s \in Seq(A), NEW S, NEW a, NEW b
    PROVE  Before(Only(s, S), a, b) <=> a \in S /\ b \in S /\ Before(s, a, b)
<1> DEFINE t == Only(s, S)
<1>1. t \in Seq(A)
  BY OnlySelects
<1>2. PICK m : Selects(s, S, Len(s), t, m)
  BY OnlySelects
<1> HIDE DEF t
<1>3. DOMAIN s = 1..Len(s) /\ DOMAIN t = 1..Len(t) /\ Len(s) \in Nat /\ Len(t) \in Nat
  BY <1>1
<1>4. \A k \in DOMAIN t : m[k] \in DOMAIN s /\ t[k] = s[m[k]] /\ t[k] \in S
  BY <1>2, <1>3 DEF Selects
<1>5. ASSUME NEW i \in DOMAIN t, NEW j \in DOMAIN t, i < j, t[i] = a, t[j] = b
      PROVE  a \in S /\ b \in S /\ Before(s, a, b)
  <2>1. m[i] < m[j]
    BY <1>2, <1>3, <1>5 DEF Selects
  <2> QED BY <1>4, <1>5, <2>1 DEF Before
<1>6. ASSUME a \in S, b \in S,
             NEW i \in DOMAIN s, NEW j \in DOMAIN s, i < j, s[i] = a, s[j] = b
      PROVE  Before(t, a, b)
  <2>1. PICK k \in 1..Len(t) : m[k] = i
    BY <1>2, <1>3, <1>6 DEF Selects
  <2>2. PICK l \in 1..Len(t) : m[l] = j
    BY <1>2, <1>3, <1>6 DEF Selects
  <2>3. k < l
    <3>1. k = l => i = j
      BY <2>1, <2>2
    <3>2. l < k => j < i
      BY <1>2, <2>1, <2>2 DEF Selects
    <3> QED BY <1>3, <1>6, <3>1, <3>2
  <2>4. t[k] = a /\ t[l] = b
    BY <1>3, <1>4, <1>6, <2>1, <2>2
  <2> QED BY <1>3, <2>3, <2>4 DEF Before
<1>7. Before(t, a, b) <=> a \in S /\ b \in S /\ Before(s, a, b)
  BY <1>5, <1>6 DEF Before
<1> QED BY <1>7 DEF t

\* Nothing is selected twice that was not there twice.
LEMMA OnlyDistinct ==
    ASSUME NEW A, NEW s \in Seq(A), NEW S, Distinct(s)
    PROVE  Distinct(Only(s, S))
<1> DEFINE t == Only(s, S)
<1>1. t \in Seq(A)
  BY OnlySelects
<1>2. PICK m : Selects(s, S, Len(s), t, m)
  BY OnlySelects
<1> HIDE DEF t
<1>3. DOMAIN s = 1..Len(s) /\ DOMAIN t = 1..Len(t) /\ Len(s) \in Nat /\ Len(t) \in Nat
  BY <1>1
<1> SUFFICES ASSUME NEW i \in DOMAIN t, NEW j \in DOMAIN t, t[i] = t[j], i < j PROVE FALSE
  <2>1. ASSUME NEW i \in DOMAIN t, NEW j \in DOMAIN t, t[i] = t[j], i # j PROVE FALSE
    BY <1>3, <2>1
  <2> QED BY <2>1 DEF Distinct, t
<1>4. m[i] \in DOMAIN s /\ m[j] \in DOMAIN s /\ s[m[i]] = s[m[j]]
  BY <1>2, <1>3 DEF Selects
<1>5. m[i] < m[j]
  BY <1>2, <1>3 DEF Selects
<1> QED BY <1>3, <1>4, <1>5 DEF Distinct
\* An element appended is selected last, if it is selected at all.
LEMMA OnlyAppend ==
    ASSUME NEW A, NEW s \in Seq(A), NEW x \in A, NEW S
    PROVE  Only(Append(s, x), S) = IF x \in S THEN Append(Only(s, S), x) ELSE Only(s, S)
<1> DEFINE t == Append(s, x)
           f == OnlyUpTo(s, S)
           g == OnlyUpTo(t, S)
           Known == {n \in Nat : n <= Len(s) => g[n] = f[n]}
<1>1. t \in Seq(A) /\ Len(t) = Len(s) + 1 /\ t[Len(t)] = x
  OBVIOUS
<1>2. \A i \in 1..Len(s) : t[i] = s[i]
  OBVIOUS
<1>3. Len(s) \in Nat
  OBVIOUS
<1> HIDE DEF t
<1>4. \A i \in 0..Len(s) : Filters(s, S, f, i)
  BY OnlyUnfolds
<1>5. \A i \in 0..Len(t) : Filters(t, S, g, i)
  BY <1>1, OnlyUnfolds
<1> HIDE DEF f, g
<1>6. 0 \in Known
  BY <1>1, <1>3, <1>4, <1>5 DEF Filters
<1>7. ASSUME NEW n \in Nat, n \in Known PROVE n + 1 \in Known
  BY <1>1, <1>2, <1>3, <1>4, <1>5, <1>7 DEF Filters
<1>8. Len(s) \in Known
  <2> HIDE DEF Known
  <2> QED BY <1>3, <1>6, <1>7, SetInduction
<1>9. g[Len(t)] = IF x \in S THEN Append(g[Len(s)], x) ELSE g[Len(s)]
  BY <1>1, <1>3, <1>5 DEF Filters
<1> QED BY <1>8, <1>9 DEF Only, t, f, g

\* Nothing is selected from nothing.
LEMMA OnlyOfNone == \A S : Only(<<>>, S) = <<>>
<1> SUFFICES ASSUME NEW S PROVE Only(<<>>, S) = <<>>
  OBVIOUS
<1>1. <<>> \in Seq({}) /\ Len(<<>>) = 0
  OBVIOUS
<1>2. \A i \in 0..Len(<<>>) : Filters(<<>>, S, OnlyUpTo(<<>>, S), i)
  BY <1>1, OnlyUnfolds
<1>3. OnlyUpTo(<<>>, S)[0] = <<>>
  BY <1>1, <1>2 DEF Filters
<1> QED BY <1>1, <1>3 DEF Only

\* No more is selected than is there.
LEMMA OnlyShorter ==
    ASSUME NEW A, NEW s \in Seq(A), NEW S
    PROVE  Len(Only(s, S)) <= Len(s)
<1> DEFINE f == OnlyUpTo(s, S)
           Known == {n \in Nat : n <= Len(s) => f[n] \in Seq(A) /\ Len(f[n]) <= n}
<1>1. \A i \in 0..Len(s) : Filters(s, S, f, i)
  BY OnlyUnfolds
<1> HIDE DEF f
<1>2. 0 \in Known
  <2>1. f[0] = <<>>
    BY <1>1 DEF Filters
  <2>2. f[0] \in Seq(A) /\ Len(f[0]) = 0
    BY <2>1
  <2> QED BY <2>2
<1>3. ASSUME NEW n \in Nat, n \in Known PROVE n + 1 \in Known
  <2> SUFFICES ASSUME n + 1 <= Len(s)
               PROVE  f[n + 1] \in Seq(A) /\ Len(f[n + 1]) <= n + 1
    OBVIOUS
  <2>1. f[n] \in Seq(A) /\ Len(f[n]) <= n
    BY <1>3
  <2>2. f[n + 1] = IF s[n + 1] \in S THEN Append(f[n], s[n + 1]) ELSE f[n]
    BY <1>1 DEF Filters
  <2> QED BY <2>1, <2>2
<1>4. Len(s) \in Known
  <2> HIDE DEF Known
  <2> QED BY <1>2, <1>3, SetInduction
<1> QED BY <1>4 DEF Only, f

\* When all behind b is selected, what is selected ends with it.
LEMMA OnlyEnd ==
    ASSUME NEW A, NEW s \in Seq(A), NEW S, NEW b \in 0..Len(s),
           \A i \in (b + 1)..Len(s) : s[i] \in S
    PROVE  /\ Len(Only(s, S)) >= Len(s) - b
           /\ \A k \in 0..(Len(s) - b - 1) : Only(s, S)[Len(Only(s, S)) - k] = s[Len(s) - k]
<1> DEFINE f == OnlyUpTo(s, S)
           l == Len(s)
           Ends(n) == /\ f[n] \in Seq(A) /\ Len(f[n]) >= n - b
                      /\ \A k \in 0..(n - b - 1) : f[n][Len(f[n]) - k] = s[n - k]
           Known == {n \in Nat : n <= l => Ends(n)}
<1>1. \A i \in 0..l : Filters(s, S, f, i)
  BY OnlyUnfolds
<1>2. l \in Nat /\ b \in 0..l
  OBVIOUS
<1>3. \A i \in 1..l : s[i] \in A
  OBVIOUS
<1> HIDE DEF f, l
<1>4. 0 \in Known
  <2>1. f[0] = <<>>
    BY <1>1, <1>2 DEF Filters
  <2>2. 0..(0 - b - 1) = {} /\ 0 >= 0 - b
    BY <1>2
  <2>3. f[0] \in Seq(A) /\ Len(f[0]) = 0
    BY <2>1
  <2>4. Ends(0)
    BY <2>2, <2>3
  <2> QED BY <2>4
<1>5. ASSUME NEW n \in Nat, n \in Known PROVE n + 1 \in Known
  <2> SUFFICES ASSUME n + 1 <= l PROVE Ends(n + 1)
    OBVIOUS
  <2>1. Ends(n)
    BY <1>2, <1>5
  <2>2. f[n + 1] = IF s[n + 1] \in S THEN Append(f[n], s[n + 1]) ELSE f[n]
    BY <1>1, <1>2 DEF Filters
  <2> DEFINE t == f[n]
             u == f[n + 1]
  <2>3. t \in Seq(A) /\ Len(t) \in Nat /\ s[n + 1] \in A
    BY <1>2, <1>3, <2>1
  <2>4. CASE n + 1 <= b
    <3>1. u \in Seq(A) /\ Len(u) \in Nat
      BY <2>2, <2>3
    <3> HIDE DEF u
    <3> QED BY <1>2, <2>4, <3>1 DEF u
  <2>5. CASE n + 1 > b
    <3>1. s[n + 1] \in S
      BY <1>2, <2>5 DEF l
    <3>2. u = Append(t, s[n + 1])
      BY <2>2, <3>1
    <3> HIDE DEF u, t
    <3>3. /\ u \in Seq(A) /\ Len(u) = Len(t) + 1 /\ u[Len(t) + 1] = s[n + 1]
          /\ \A i \in 1..Len(t) : u[i] = t[i]
      BY <2>3, <3>2
    <3>4. Len(t) >= n - b /\ \A k \in 0..(n - b - 1) : t[Len(t) - k] = s[n - k]
      BY <2>1 DEF t
    <3>5. Len(u) >= (n + 1) - b
      BY <1>2, <2>3, <3>3, <3>4
    <3>6. ASSUME NEW k \in 0..((n + 1) - b - 1) PROVE u[Len(u) - k] = s[(n + 1) - k]
      <4>1. CASE k = 0
        BY <2>3, <3>3, <4>1
      <4>2. CASE k # 0
        <5> DEFINE j == k - 1
        <5>1. j \in 0..(n - b - 1) /\ Len(u) - k = Len(t) - j /\ (n + 1) - k = n - j
          BY <1>2, <2>3, <3>3, <4>2
        <5>2. Len(t) - j \in 1..Len(t)
          BY <1>2, <2>3, <3>4, <5>1
        <5> HIDE DEF j
        <5> QED BY <3>3, <3>4, <5>1, <5>2
      <4> QED BY <4>1, <4>2
    <3> QED BY <3>3, <3>5, <3>6 DEF u
  <2> QED BY <1>2, <2>4, <2>5
<1>6. l \in Known
  <2> HIDE DEF Known
  <2> QED BY <1>2, <1>4, <1>5, SetInduction
<1> QED BY <1>2, <1>6 DEF Only, f, l

\* Of natural numbers one is the least.
LEMMA LeastElement ==
    ASSUME NEW S \in SUBSET Nat, S # {}
    PROVE  \E n \in S : \A m \in S : n <= m
<1> DEFINE Less == {ss \in Nat \X Nat : ss[1] < ss[2]}
<1>1. IsWellFoundedOn(Less, Nat)
  BY NatLessThanWellFounded, Zenon DEF OpToRel
<1> HIDE DEF Less
<1>2. PICK n \in S : \A m \in S : <<m, n>> \notin Less
  BY <1>1, WFMin
<1>3. ASSUME NEW m \in S PROVE n <= m
  <2>1. m \in Nat /\ n \in Nat
    OBVIOUS
  <2>2. ~(m < n)
    BY <1>2, <2>1 DEF Less
  <2> QED BY <2>1, <2>2
<1> QED BY <1>3
=============================================================================
