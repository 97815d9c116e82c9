--------------------------- MODULE LeastNaturals ---------------------------
(***************************************************************************)
(* Facts about sets of naturals and about functions on intervals that the  *)
(* other proofs rest on.                                                   *)
(***************************************************************************)
EXTENDS Integers, TLAPS, WellFoundedInduction

\* Every non-empty set of naturals has a least element.
LEMMA LeastNatural ==
    ASSUME NEW T, T \subseteq Nat, T # {}
    PROVE  \E x \in T : \A y \in T : x <= y
<1> DEFINE R == {ss \in Nat \X Nat : ss[1] < ss[2]}
<1>1. IsWellFoundedOn(R, Nat)
  BY NatLessThanWellFounded DEF OpToRel
<1> HIDE DEF R
<1>2. \E x \in T : \A y \in T : <<y, x>> \notin R
  BY <1>1, WFMin
<1>3. ASSUME NEW x \in T, NEW y \in T, <<y, x>> \notin R
      PROVE  x <= y
  BY <1>3 DEF R
<1> QED
  BY <1>2, <1>3

\* Every non-empty set of naturals with a bound has a greatest element.
LEMMA GreatestNatural ==
    ASSUME NEW T, T \subseteq Nat, T # {}, NEW n \in Nat, \A x \in T : x <= n
    PROVE  \E x \in T : \A y \in T : y <= x
<1> DEFINE bounds == {b \in Nat : \A y \in T : y <= b}
<1>1. bounds \subseteq Nat /\ bounds # {}
  OBVIOUS
<1>2. PICK least \in bounds : \A b \in bounds : least <= b
  BY <1>1, LeastNatural
<1>3. least \in T
  <2> SUFFICES ASSUME least \notin T PROVE FALSE
    OBVIOUS
  <2>1. least \in Nat /\ \A y \in T : y \in Nat /\ y < least
    BY <1>2
  <2>2. least - 1 \in Nat /\ \A y \in T : y <= least - 1
    <3>1. PICK y \in T : TRUE
      OBVIOUS
    <3>2. y \in Nat /\ y < least
      BY <2>1, <3>1
    <3> HIDE DEF bounds
    <3> QED
      BY <2>1, <3>2
  <2>3. least - 1 \in bounds
    BY <2>2
  <2> QED
    BY <1>2, <2>1, <2>3
<1> QED
  BY <1>2, <1>3

\* Induction over an interval, for a property given as the set of those that have it.
LEMMA Upward ==
    ASSUME NEW T, NEW n \in Nat, 0 \in T, \A k \in 1..n : k - 1 \in T => k \in T
    PROVE  0..n \subseteq T
<1> DEFINE bad == {k \in 0..n : k \notin T}
<1> SUFFICES ASSUME bad # {} PROVE FALSE
  OBVIOUS
<1>1. bad \subseteq Nat
  OBVIOUS
<1>2. PICK k \in bad : \A m \in bad : k <= m
  BY <1>1, LeastNatural
<1>3. k \in 1..n /\ k \notin T /\ k - 1 \in 0..n /\ k - 1 < k
  OBVIOUS
<1>4. k - 1 \in bad
  BY <1>3
<1> HIDE DEF bad
<1> QED
  BY <1>2, <1>3, <1>4

\* The same from the other end.
LEMMA Downward ==
    ASSUME NEW T, NEW n \in Nat, n + 1 \in T, \A k \in 1..n : k + 1 \in T => k \in T
    PROVE  1..(n + 1) \subseteq T
<1> DEFINE U == {j \in 0..n : n + 1 - j \in T}
<1>1. 0 \in U
  OBVIOUS
<1>2. ASSUME NEW j \in 1..n, j - 1 \in U PROVE j \in U
  <2>1. n + 1 - j \in 1..n /\ n + 1 - (j - 1) \in T
    BY <1>2
  <2>2. (n + 1 - j) + 1 = n + 1 - (j - 1)
    OBVIOUS
  <2> QED
    BY <2>1, <2>2
<1> HIDE DEF U
<1>3. 0..n \subseteq U
  BY <1>1, <1>2, Upward
<1>4. ASSUME NEW k \in 1..(n + 1) PROVE k \in T
  <2>1. n + 1 - k \in 0..n /\ n + 1 - (n + 1 - k) = k
    OBVIOUS
  <2> QED
    BY <1>3, <2>1 DEF U
<1> QED
  BY <1>4

\* A function on 0..n that starts with a, and each of whose other values is made by
\* step of an earlier one, the one that back tells.
Recursive(f, S, a, n, back, step) ==
    f \in [0..n -> S] /\ f[0] = a /\ \A k \in 1..n : f[k] = step[<<k, f[back[k]]>>]

GoesBack(back, n) == back \in [1..n -> Nat] /\ \A k \in 1..n : back[k] < k

IsStep(step, S, n) == step \in [(1..n) \X S -> S]

\* There is one, whatever a, back and step are.
LEMMA RecursiveFunction ==
    ASSUME NEW S, NEW a \in S, NEW n \in Nat, NEW back, GoesBack(back, n), NEW step, IsStep(step, S, n)
    PROVE  \E f : Recursive(f, S, a, n, back, step)
<1> USE DEF GoesBack, IsStep
<1> SUFFICES \E f \in [0..n -> S] : f[0] = a /\ \A k \in 1..n : f[k] = step[<<k, f[back[k]]>>]
  BY DEF Recursive
<1> DEFINE Good(m) == \E f \in [0..m -> S] :
                        f[0] = a /\ \A k \in 1..m : f[k] = step[<<k, f[back[k]]>>]
           bad == {m \in 0..n : ~Good(m)}
<1> HIDE DEF Good
<1> SUFFICES ASSUME bad # {} PROVE FALSE
  <2>1. n \in 0..n
    OBVIOUS
  <2> QED
    BY <2>1 DEF Good
<1>0. bad \subseteq Nat
  OBVIOUS
<1>1. PICK m \in bad : \A b \in bad : m <= b
  BY <1>0, LeastNatural
<1>2. m \in 0..n /\ ~Good(m)
  OBVIOUS
<1>3. CASE m = 0
  <2> DEFINE f == [k \in 0..0 |-> a]
  <2>1. f \in [0..0 -> S] /\ f[0] = a
    OBVIOUS
  <2> HIDE DEF f
  <2>2. \A k \in 1..0 : f[k] = step[<<k, f[back[k]]>>]
    OBVIOUS
  <2> QED
    BY <1>2, <1>3, <2>1, <2>2 DEF Good
<1>4. CASE m # 0
  <2>1. m - 1 \in 0..n /\ m - 1 \notin bad /\ m \in 1..n
    <3>1. m - 1 \in 0..n /\ m - 1 < m /\ m \in 1..n
      BY <1>2, <1>4
    <3>2. m - 1 \notin bad
      <4> HIDE DEF bad
      <4>1. CASE m - 1 \in bad
        BY <1>1, <3>1, <4>1
      <4> QED
        BY <4>1
    <3> QED
      BY <3>1, <3>2
  <2>2. PICK f \in [0..(m - 1) -> S] : f[0] = a /\ \A k \in 1..(m - 1) : f[k] = step[<<k, f[back[k]]>>]
    BY <2>1 DEF Good
  <2> DEFINE last == step[<<m, f[back[m]]>>]
             g == [k \in 0..m |-> IF k = m THEN last ELSE f[k]]
  <2>3. \A k \in 1..m : back[k] \in 0..(m - 1) /\ back[k] # m /\ back[k] \in 0..m
    BY <1>2
  <2>4. last \in S
    <3>1. f[back[m]] \in S
      BY <2>1, <2>2, <2>3
    <3> QED
      BY <2>1, <3>1
  <2> HIDE DEF last
  <2>5. g \in [0..m -> S] /\ g[0] = a
    BY <1>2, <1>4, <2>1, <2>2, <2>4
  <2>6. \A k \in 1..m : g[back[k]] = f[back[k]]
    BY <2>3
  <2>7. ASSUME NEW k \in 1..m PROVE g[k] = step[<<k, g[back[k]]>>]
    <3>1. CASE k = m
      <4>1. g[m] = last /\ g[back[m]] = f[back[m]]
        BY <2>1, <2>6
      <4> HIDE DEF g
      <4> QED
        BY <3>1, <4>1 DEF last
    <3>2. CASE k # m
      <4>1. k \in 1..(m - 1) /\ g[k] = f[k]
        BY <1>2, <3>2
      <4> QED
        BY <2>2, <2>6, <4>1
    <3> QED
      BY <3>1, <3>2
  <2> HIDE DEF g
  <2> QED
    BY <1>2, <2>5, <2>7 DEF Good
<1> QED
  BY <1>3, <1>4

\* The same from the other end.
RecursiveDown(f, S, a, n, step) ==
    f \in [1..(n + 1) -> S] /\ f[n + 1] = a /\ \A k \in 1..n : f[k] = step[<<k, f[k + 1]>>]

\* There is one, whatever a and step are.
LEMMA BackwardFunction ==
    ASSUME NEW S, NEW a \in S, NEW n \in Nat, NEW step, IsStep(step, S, n)
    PROVE  \E f : RecursiveDown(f, S, a, n, step)
<1> USE DEF IsStep
<1> SUFFICES \E f \in [1..(n + 1) -> S] :
               f[n + 1] = a /\ \A k \in 1..n : f[k] = step[<<k, f[k + 1]>>]
  BY DEF RecursiveDown
<1> DEFINE back == [k \in 1..n |-> k - 1]
           forth == [p \in (1..n) \X S |-> step[<<n + 1 - p[1], p[2]>>]]
<1>1. back \in [1..n -> Nat] /\ \A k \in 1..n : back[k] < k /\ back[k] = k - 1
  OBVIOUS
<1>2. ASSUME NEW k \in 1..n, NEW x \in S
      PROVE  forth[<<k, x>>] = step[<<n + 1 - k, x>>] /\ step[<<n + 1 - k, x>>] \in S
  <2>1. n + 1 - k \in 1..n
    OBVIOUS
  <2> QED
    BY <2>1
<1>3. forth \in [(1..n) \X S -> S]
  BY <1>2
<1> HIDE DEF back, forth
<1>4. \E g : Recursive(g, S, a, n, back, forth)
  <2>1. GoesBack(back, n) /\ IsStep(forth, S, n)
    BY <1>1, <1>3 DEF GoesBack, IsStep
  <2> QED
    BY <2>1, RecursiveFunction
<1>5. PICK g \in [0..n -> S] : g[0] = a /\ \A k \in 1..n : g[k] = forth[<<k, g[back[k]]>>]
  BY <1>4 DEF Recursive
<1> DEFINE f == [k \in 1..(n + 1) |-> g[n + 1 - k]]
<1>6. \A k \in 1..(n + 1) : n + 1 - k \in 0..n
  OBVIOUS
<1>7. f \in [1..(n + 1) -> S] /\ f[n + 1] = a
  BY <1>5, <1>6
<1>8. ASSUME NEW k \in 1..n PROVE f[k] = step[<<k, f[k + 1]>>]
  <2>1. n + 1 - k \in 1..n /\ n + 1 - (n + 1 - k) = k /\ back[n + 1 - k] = n - k /\ n - k \in 0..n
    BY <1>1
  <2>2. f[k] = g[n + 1 - k] /\ f[k + 1] = g[n - k]
    <3>1. k \in 1..(n + 1) /\ k + 1 \in 1..(n + 1) /\ n + 1 - (k + 1) = n - k
      OBVIOUS
    <3> QED
      BY <3>1
  <2>3. g[n - k] \in S
    BY <2>1, <1>5
  <2>4. g[n + 1 - k] = forth[<<n + 1 - k, g[n - k]>>]
    BY <1>5, <2>1
  <2>5. forth[<<n + 1 - k, g[n - k]>>] = step[<<k, g[n - k]>>]
    BY <1>2, <2>1, <2>3
  <2> QED
    BY <2>2, <2>4, <2>5
<1> HIDE DEF f
<1> QED
  BY <1>7, <1>8
=============================================================================
