------------------------------ MODULE Extrema ------------------------------
(***************************************************************************)
(* The least and the greatest member of a set of numbers.  A fact about     *)
(* every number up to a bound is proved with them by looking at the least   *)
(* number it fails for; so a loop can be proved about, step by step.        *)
(***************************************************************************)
EXTENDS Integers, FiniteSetsExt, WellFoundedInduction, TLAPS

LEMMA Smallest ==
    ASSUME NEW S \in SUBSET Nat, S # {}
    PROVE  \E n \in S : \A m \in S : n <= m
<1>1. PICK n \in S : \A m \in S : <<m, n>> \notin OpToRel(<, Nat)
  BY NatLessThanWellFounded, WFMin, Zenon
<1>2. \A m \in S : ~(m < n)
  BY <1>1, Zenon DEF OpToRel
<1>3. QED
  BY <1>2

LEMMA Greatest ==
    ASSUME NEW top \in Int, NEW S \in SUBSET Int, S # {},
           \A n \in S : n <= top
    PROVE  \E n \in S : \A m \in S : m <= n
<1> DEFINE T == {top - n : n \in S}
<1>1. \A n \in S : top - n \in Nat
  OBVIOUS
<1>2. T \in SUBSET Nat
  BY <1>1
<1>3. T # {}
  OBVIOUS
<1> HIDE DEF T
<1>4. PICK d \in T : \A e \in T : d <= e
  BY <1>2, <1>3, Smallest
<1>5. PICK n \in S : d = top - n
  BY <1>4 DEF T
<1>6. ASSUME NEW m \in S PROVE m <= n
  <2>1. top - m \in T
    BY DEF T
  <2>2. top - n <= top - m
    BY <1>4, <1>5, <2>1
  <2>3. n \in Int /\ m \in Int
    OBVIOUS
  <2>4. QED
    BY <2>2, <2>3
<1>7. QED
  BY <1>6

LEMMA MinIs ==
    ASSUME NEW S \in SUBSET Nat, S # {}
    PROVE  Min(S) \in S /\ \A m \in S : Min(S) <= m
  BY Smallest DEF Min

LEMMA MaxIs ==
    ASSUME NEW top \in Int, NEW S \in SUBSET Int, S # {},
           \A n \in S : n <= top
    PROVE  Max(S) \in S /\ \A m \in S : m <= Max(S)
  BY Greatest DEF Max

(* Finitely many numbers are bounded. *)
LEMMA Bounded ==
    ASSUME NEW n \in Nat, NEW f, \A i \in 1 .. n : f[i] \in Int
    PROVE  \E top \in Int : \A i \in 1 .. n : f[i] <= top
<1> DEFINE Bound(m) == \E top \in Int : \A i \in 1 .. m : f[i] <= top
           Unbounded == {m \in 0 .. n : ~Bound(m)}
<1> SUFFICES ASSUME Unbounded # {} PROVE FALSE
  <2>1. n \in 0 .. n
    OBVIOUS
  <2>2. Unbounded = {} => Bound(n)
    BY <2>1
  <2>3. QED
    BY <2>2
<1>1. Unbounded \in SUBSET Nat
  OBVIOUS
<1>2. PICK m \in Unbounded : \A k \in Unbounded : m <= k
  BY <1>1, Smallest
<1>3. m \in 0 .. n /\ ~Bound(m)
  BY <1>2
<1>4. m # 0
  BY <1>3
<1>5. Bound(m - 1)
  <2>1. m - 1 \in 0 .. n /\ ~(m <= m - 1)
    BY <1>3, <1>4
  <2>2. m - 1 \notin Unbounded
    BY <1>2, <2>1
  <2> HIDE DEF Bound
  <2>3. QED
    BY <2>1, <2>2
<1>6. PICK top \in Int : \A i \in 1 .. m - 1 : f[i] <= top
  BY <1>5
<1>7. f[m] \in Int
  BY <1>3, <1>4
<1>8. PICK higher \in Int : top <= higher /\ f[m] <= higher
  <2>1. CASE top <= f[m]
    BY <1>7, <2>1
  <2>2. CASE ~(top <= f[m])
    BY <1>7, <2>2
  <2>3. QED
    BY <2>1, <2>2
<1>9. \A i \in 1 .. m : f[i] <= higher
  <2>1. SUFFICES ASSUME NEW i \in 1 .. m PROVE f[i] <= higher
    OBVIOUS
  <2>2. i = m \/ i \in 1 .. m - 1
    BY <1>3
  <2>3. f[i] \in Int
    BY <1>3
  <2>4. QED
    BY <1>6, <1>8, <2>2, <2>3
<1>10. QED
  BY <1>3, <1>9

(* What holds at 0 and is kept by every step holds up to n. *)
LEMMA StepByStep ==
    ASSUME NEW n \in Nat, NEW P, 0 \in P,
           \A k \in 1 .. n : k - 1 \in P => k \in P
    PROVE  \A k \in 0 .. n : k \in P
<1> DEFINE Failing == {k \in 0 .. n : k \notin P}
<1> SUFFICES ASSUME Failing # {} PROVE FALSE
  OBVIOUS
<1>1. Failing \in SUBSET Nat
  OBVIOUS
<1>2. PICK k \in Failing : \A m \in Failing : k <= m
  BY <1>1, Smallest
<1>3. k \in 1 .. n /\ k - 1 \in 0 .. n /\ ~(k <= k - 1)
  BY <1>2
<1>4. k - 1 \in P
  BY <1>2, <1>3
<1>5. QED
  BY <1>2, <1>3, <1>4

(* A loop of n steps, of which step k makes g[k][x] of x, has results. *)
IsLoop(f, n, start, g) ==
    f = [k \in 0 .. n |-> IF k = 0 THEN start ELSE g[k][f[k - 1]]]

AllIn(f, n, S) == \A k \in 0 .. n : f[k] \in S

LEMMA LoopExists ==
    ASSUME NEW n \in Nat, NEW S, NEW start \in S, NEW g,
           \A k \in 1 .. n : \A x \in S : g[k][x] \in S
    PROVE  \E f : IsLoop(f, n, start, g) /\ AllIn(f, n, S)
<1> DEFINE Is(f, m) == IsLoop(f, m, start, g) /\ AllIn(f, m, S)
           P == {m \in 0 .. n : \E f : Is(f, m)}
<1>1. 0 \in P
  <2>1. Is([k \in 0 .. 0 |-> start], 0)
    BY DEF IsLoop, AllIn
  <2>2. 0 \in 0 .. n
    OBVIOUS
  <2> HIDE DEF Is
  <2>3. QED
    BY <2>1, <2>2
<1>2. ASSUME NEW m \in 1 .. n, m - 1 \in P PROVE m \in P
  <2>1. PICK f : Is(f, m - 1)
    BY <1>2
  <2> DEFINE h == [k \in 0 .. m |-> IF k = m THEN g[m][f[m - 1]] ELSE f[k]]
  <2>2. /\ \A k \in 0 .. m - 1 : f[k] \in S /\ h[k] = f[k]
        /\ f[0] = start
        /\ \A k \in 1 .. m - 1 : f[k] = g[k][f[k - 1]]
    BY <2>1 DEF IsLoop, AllIn
  <2>3. h[m] = g[m][f[m - 1]] /\ h[m] \in S
    <3>1. m - 1 \in 0 .. m - 1 /\ m \in 0 .. m
      OBVIOUS
    <3>2. f[m - 1] \in S
      BY <2>2, <3>1
    <3>3. QED
      BY <3>1, <3>2
  <2>4. DOMAIN h = 0 .. m /\ h[0] = start
    BY <2>2
  <2> HIDE DEF h
  <2>5. ASSUME NEW k \in 1 .. m PROVE h[k] = g[k][h[k - 1]]
    <3>1. k - 1 \in 0 .. m - 1
      OBVIOUS
    <3>2. h[k - 1] = f[k - 1]
      BY <2>2, <3>1
    <3>3. CASE k = m
      BY <2>3, <3>2, <3>3
    <3>4. CASE k \in 1 .. m - 1
      <4>1. k \in 0 .. m - 1
        BY <3>4
      <4>2. QED
        BY <2>2, <3>2, <3>4, <4>1
    <3>5. QED
      BY <3>3, <3>4
  <2>6. \A k \in 0 .. m : h[k] = IF k = 0 THEN start ELSE g[k][h[k - 1]]
    BY <2>4, <2>5
  <2>7. h = [k \in 0 .. m |-> h[k]]
    BY <2>4, Zenon DEF h
  <2>8. h = [k \in 0 .. m |-> IF k = 0 THEN start ELSE g[k][h[k - 1]]]
    BY <2>6, <2>7, Zenon
  <2>9. \A k \in 0 .. m : h[k] \in S
    BY <2>2, <2>3
  <2>10. Is(h, m)
    BY <2>8, <2>9, Zenon DEF IsLoop, AllIn
  <2> HIDE DEF Is
  <2>11. QED
    BY <2>10
<1> HIDE DEF P
<1>3. n \in P
  BY <1>1, <1>2, StepByStep
<1>4. QED
  BY <1>3 DEF P
=============================================================================
