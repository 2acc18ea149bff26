------------------------------ MODULE Induction ------------------------------
(***************************************************************************)
(* Induction without an operator as a parameter: what the proofs about     *)
(* recursive functions and folds rest on.  The library's set of all        *)
(* numbers, or of all subsets, with a property has a least element.        *)
(***************************************************************************)
EXTENDS Integers, FiniteSets, FiniteSetTheorems, WellFoundedInduction, TLAPS

LEMMA Least ==
  ASSUME NEW S \in SUBSET Nat, S # {}
  PROVE  \E n \in S : \A m \in S : n <= m
<1>1. \E n \in S : \A m \in S : ~(<<m, n>> \in OpToRel(<, Nat))
  BY NatLessThanWellFounded, WFMin
<1>2. PICK n \in S : \A m \in S : ~(<<m, n>> \in OpToRel(<, Nat))
  BY <1>1
<1>3. \A m \in S : ~(m < n)
  BY <1>2 DEF OpToRel
<1> QED
  BY <1>3

LEMMA Greatest ==
  ASSUME NEW S \in SUBSET Nat, S # {}, NEW b \in Nat, \A m \in S : m <= b
  PROVE  \E n \in S : \A m \in S : m <= n
<1> DEFINE T == {b - n : n \in S}
<1>1. T \in SUBSET Nat /\ T # {}
  <2>1. \A n \in S : b - n \in Nat
    OBVIOUS
  <2> QED
    BY <2>1
<1>2. PICK t \in T : \A m \in T : t <= m
  BY <1>1, Least
<1>3. PICK n \in S : t = b - n
  OBVIOUS
<1>4. \A m \in S : b - n <= b - m
  BY <1>2, <1>3
<1> QED
  BY <1>4

\* A set of numbers with 0 and the successor of each of its own is the whole.
LEMMA SetInduction ==
  ASSUME NEW S \in SUBSET Nat, 0 \in S, \A n \in S : n + 1 \in S
  PROVE  S = Nat
<1> SUFFICES ASSUME Nat \ S # {} PROVE FALSE
  OBVIOUS
<1>1. PICK n \in Nat \ S : \A m \in Nat \ S : n <= m
  BY Least
<1>2. n # 0
  OBVIOUS
<1>3. n - 1 \in Nat /\ n - 1 \notin Nat \ S
  BY <1>1, <1>2
<1> QED
  BY <1>3

\* What holds of an element if it holds of all of lower rank holds of all.
Inductive(S, rank, P) ==
  /\ rank \in [S -> Nat] /\ P \in SUBSET S
  /\ \A s \in S : (\A t \in S : rank[t] < rank[s] => t \in P) => s \in P

LEMMA RankInduction ==
  ASSUME NEW S, NEW rank, NEW P, Inductive(S, rank, P)
  PROVE  P = S
<1> USE DEF Inductive
<1> DEFINE R == {rank[s] : s \in S \ P}
<1> SUFFICES ASSUME S \ P # {} PROVE FALSE
  OBVIOUS
<1>1. R \in SUBSET Nat /\ R # {}
  OBVIOUS
<1>2. PICK r \in R : \A q \in R : r <= q
  BY <1>1, Least
<1>3. PICK s \in S \ P : r = rank[s]
  OBVIOUS
<1>4. ASSUME NEW t \in S, rank[t] < rank[s]
      PROVE  t \in P
  <2> SUFFICES ASSUME t \notin P PROVE FALSE
    OBVIOUS
  <2>1. rank[t] \in R
    OBVIOUS
  <2>2. rank[s] <= rank[t] /\ rank[s] \in Nat /\ rank[t] \in Nat
    BY <1>2, <1>3, <2>1
  <2> QED
    BY <1>4, <2>2
<1> QED
  BY <1>3, <1>4

\* The value at s follows, by a rule, from that at an element of lower rank, or from none.
WellRanked(S, T, rank, prev, rule) ==
  /\ T # {} /\ rank \in [S -> Nat] /\ prev \in [S -> S] /\ rule \in [S \X T -> T]
  /\ \A s \in S : \/ rank[prev[s]] < rank[s]
                  \/ \A t, u \in T : rule[<<s, t>>] = rule[<<s, u>>]

Obeys(f, S, prev, rule) == \A s \in S : f[s] = rule[<<s, f[prev[s]]>>]

\* There is a function that obeys such a rule.
LEMMA Recursion ==
  ASSUME NEW S, NEW T, NEW rank, NEW prev, NEW rule, WellRanked(S, T, rank, prev, rule)
  PROVE  \E f \in [S -> T] : Obeys(f, S, prev, rule)
<1> USE DEF WellRanked
<1> DEFINE Upto(n, f) == \A s \in S : rank[s] < n => f[s] = rule[<<s, f[prev[s]]>>]
           N == {n \in Nat : \E f \in [S -> T] : Upto(n, f)}
<1>1. 0 \in N
  <2>1. PICK t \in T : TRUE
    OBVIOUS
  <2>2. [s \in S |-> t] \in [S -> T]
    OBVIOUS
  <2>3. \A s \in S : ~(rank[s] < 0)
    <3>1. \A s \in S : rank[s] \in Nat
      OBVIOUS
    <3> QED
      BY <3>1
  <2> QED
    BY <2>2, <2>3
<1>2. ASSUME NEW n \in N PROVE n + 1 \in N
  <2>1. PICK f \in [S -> T] : Upto(n, f)
    OBVIOUS
  <2> DEFINE Val(s) == rule[<<s, f[prev[s]]>>]
             g == [s \in S |-> IF rank[s] < n THEN f[s] ELSE Val(s)]
  <2>2. \A s \in S : f[s] \in T /\ Val(s) \in T
    OBVIOUS
  <2>3. g \in [S -> T]
    BY <2>2
  <2>4. ASSUME NEW s \in S, rank[s] < n + 1
        PROVE  g[s] = rule[<<s, g[prev[s]]>>]
    <3>1. Val(s) = rule[<<s, g[prev[s]]>>]
      <4>1. CASE \A t, u \in T : rule[<<s, t>>] = rule[<<s, u>>]
        <5>1. g[prev[s]] \in T /\ f[prev[s]] \in T
          BY <2>2, <2>3
        <5> HIDE DEF g
        <5> QED
          BY <4>1, <5>1
      <4>2. CASE rank[prev[s]] < rank[s]
        <5>1. rank[s] \in Nat /\ prev[s] \in S /\ rank[prev[s]] \in Nat /\ n \in Nat
          OBVIOUS
        <5>2. rank[prev[s]] < n
          BY <2>4, <4>2, <5>1
        <5>3. g[prev[s]] = f[prev[s]]
          BY <5>1, <5>2
        <5> QED
          BY <5>3
      <4> QED
        BY <4>1, <4>2
    <3>2. CASE rank[s] < n
      <4>1. g[s] = f[s]
        BY <3>2
      <4> QED
        BY <2>1, <3>1, <3>2, <4>1
    <3>3. CASE ~(rank[s] < n)
      <4>1. g[s] = Val(s)
        BY <3>3
      <4> QED
        BY <3>1, <4>1
    <3> QED
      BY <3>2, <3>3
  <2>5. Upto(n + 1, g)
    BY <2>4
  <2> HIDE DEF g
  <2> QED
    BY <2>3, <2>5
<1>3. N = Nat
  <2> HIDE DEF N
  <2>1. N \in SUBSET Nat
    BY DEF N
  <2> QED
    BY <1>1, <1>2, <2>1, SetInduction
<1>4. ASSUME NEW a \in Nat, NEW b \in Nat, NEW f \in [S -> T], NEW g \in [S -> T],
             Upto(a, f), Upto(b, g)
      PROVE  \A s \in S : rank[s] < a /\ rank[s] < b => f[s] = g[s]
  <2> DEFINE P == {s \in S : rank[s] < a /\ rank[s] < b => f[s] = g[s]}
  <2>1. ASSUME NEW s \in S, \A t \in S : rank[t] < rank[s] => t \in P
        PROVE  s \in P
    <3> SUFFICES ASSUME rank[s] < a, rank[s] < b PROVE f[s] = g[s]
      OBVIOUS
    <3>1. f[s] = rule[<<s, f[prev[s]]>>] /\ g[s] = rule[<<s, g[prev[s]]>>]
      BY <1>4
    <3>2. CASE \A t, u \in T : rule[<<s, t>>] = rule[<<s, u>>]
      <4>1. g[prev[s]] \in T /\ f[prev[s]] \in T
        OBVIOUS
      <4> QED
        BY <3>1, <3>2, <4>1
    <3>3. CASE rank[prev[s]] < rank[s]
      <4>1. rank[s] \in Nat /\ rank[prev[s]] \in Nat /\ prev[s] \in S
        OBVIOUS
      <4>2. prev[s] \in P /\ rank[prev[s]] < a /\ rank[prev[s]] < b
        BY <2>1, <3>3, <4>1
      <4>3. f[prev[s]] = g[prev[s]]
        BY <4>2
      <4> QED
        BY <3>1, <4>3
    <3> QED
      BY <3>2, <3>3
  <2>2. P = S
    <3> HIDE DEF P
    <3>1. Inductive(S, rank, P)
      BY <2>1 DEF Inductive, P
    <3> QED
      BY <3>1, RankInduction
  <2> QED
    BY <2>2
<1> DEFINE F(n) == CHOOSE f \in [S -> T] : Upto(n, f)
           h == [s \in S |-> F(rank[s] + 1)[s]]
<1> HIDE DEF Upto
<1>5. \A n \in Nat : F(n) \in [S -> T] /\ Upto(n, F(n))
  BY <1>3
<1>6. ASSUME NEW a \in Nat, NEW b \in Nat
      PROVE  \A s \in S : rank[s] < a /\ rank[s] < b => F(a)[s] = F(b)[s]
  <2> HIDE DEF F
  <2>1. F(a) \in [S -> T] /\ Upto(a, F(a)) /\ F(b) \in [S -> T] /\ Upto(b, F(b))
    BY <1>5
  <2> QED
    BY <1>4, <2>1
<1> HIDE DEF F, N
<1>7. h \in [S -> T]
  <2>1. \A s \in S : rank[s] + 1 \in Nat
    <3>1. \A s \in S : rank[s] \in Nat
      OBVIOUS
    <3> QED
      BY <3>1
  <2> QED
    BY <1>5, <2>1
<1>8. ASSUME NEW s \in S
      PROVE  h[s] = rule[<<s, h[prev[s]]>>]
  <2>1. rank[s] \in Nat /\ prev[s] \in S /\ rank[prev[s]] \in Nat
    OBVIOUS
  <2>2. rank[s] + 1 \in Nat /\ rank[s] < rank[s] + 1
        /\ rank[prev[s]] + 1 \in Nat /\ rank[prev[s]] < rank[prev[s]] + 1
    BY <2>1
  <2>3. F(rank[s] + 1)[s] = rule[<<s, F(rank[s] + 1)[prev[s]]>>]
    BY <1>5, <2>2 DEF Upto
  <2>4. CASE \A t, u \in T : rule[<<s, t>>] = rule[<<s, u>>]
    <3>1. F(rank[s] + 1)[prev[s]] \in T /\ h[prev[s]] \in T
      BY <1>5, <1>7, <2>2
    <3> QED
      BY <2>3, <2>4, <3>1
  <2>5. CASE rank[prev[s]] < rank[s]
    <3>1. rank[prev[s]] < rank[s] + 1
      BY <2>1, <2>5
    <3>2. F(rank[s] + 1)[prev[s]] = F(rank[prev[s]] + 1)[prev[s]]
      BY <1>6, <2>1, <2>2, <3>1
    <3> QED
      BY <2>1, <2>3, <3>2
  <2> QED
    BY <2>4, <2>5
<1> HIDE DEF h
<1>9. Obeys(h, S, prev, rule)
  BY <1>8 DEF Obeys
<1> QED
  BY <1>7, <1>9
=============================================================================
