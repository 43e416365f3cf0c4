------------------------------ MODULE SetInduction ------------------------------
(***************************************************************************)
(* Induction over the natural numbers, and the recursive functions that    *)
(* the models use for the loops of the code.  NaturalsInduction states     *)
(* these facts of an operator P(_); here they are stated of a set and of a *)
(* function, so that a proof can cite them.                                *)
(***************************************************************************)
EXTENDS Integers, WellFoundedInduction, TLAPS

\* A set of numbers that is not empty has a least element.
LEMMA LeastNumber ==
    ASSUME NEW T, T \subseteq Nat, T # {}
    PROVE  \E x \in T : \A y \in T : x <= y
  <1> DEFINE R == {ss \in Nat \X Nat : ss[1] < ss[2]}
  <1>1. IsWellFoundedOn(R, Nat)
    BY NatLessThanWellFounded DEF OpToRel
  <1>2. \A x, y \in Nat : <<y, x>> \in R <=> y < x
    OBVIOUS
  <1> HIDE DEF R
  <1>3. PICK x \in T : \A y \in T : ~ (<<y, x>> \in R)
    BY <1>1, WFMin
  <1>4. \A y \in T : x <= y
    <2> TAKE y \in T
    <2>1. x \in Nat /\ y \in Nat
      OBVIOUS
    <2>2. ~ (y < x)
      BY <2>1, <1>2, <1>3
    <2> QED
      BY <2>1, <2>2
  <1> QED
    BY <1>4

\* A set that holds 0 and with every number the next one holds every number.
LEMMA Induction ==
    ASSUME NEW T, 0 \in T, \A n \in Nat : n \in T => n + 1 \in T
    PROVE  Nat \subseteq T
  <1> SUFFICES ASSUME Nat \ T # {}
               PROVE  FALSE
    OBVIOUS
  <1> DEFINE U == Nat \ T
  <1>1. U \subseteq Nat /\ U # {}
    OBVIOUS
  <1>2. PICK x \in U : \A y \in U : x <= y
    <2> HIDE DEF U
    <2> QED
      BY <1>1, LeastNumber
  <1>3. x # 0 /\ x - 1 \in Nat /\ x - 1 \in T
    BY <1>2
  <1> QED
    BY <1>2, <1>3

\* A set that holds 0 and, up to N, with every number the next one holds 0 .. N.
LEMMA BoundedInduction ==
    ASSUME NEW N \in Nat, NEW T, 0 \in T,
           \A n \in 0 .. N - 1 : n \in T => n + 1 \in T
    PROVE  0 .. N \subseteq T
  <1> DEFINE U == {n \in Nat : n <= N => n \in T}
  <1>1. 0 \in U
    OBVIOUS
  <1>2. \A n \in Nat : n \in U => n + 1 \in U
    OBVIOUS
  <1>3. Nat \subseteq U
    <2> HIDE DEF U
    <2> QED
      BY <1>1, <1>2, Induction
  <1> QED
    BY <1>3

\* What a loop of N turns over values of V has computed after each turn, if it
\* starts with base and its turn n takes the value v to F[n][v].
IsLoop(g, N, V, base, F) ==
    /\ g \in [0 .. N -> V]
    /\ g[0] = base
    /\ \A n \in 1 .. N : g[n] = F[n][g[n - 1]]

LEMMA LoopExists ==
    ASSUME NEW N \in Nat, NEW V, NEW base \in V, NEW F \in [1 .. N -> [V -> V]]
    PROVE  \E g : IsLoop(g, N, V, base, F)
  <1> DEFINE Solves(g, k) ==
               /\ g \in [0 .. k -> V]
               /\ g[0] = base
               /\ \A n \in 1 .. k : g[n] = F[n][g[n - 1]]
             T == {k \in 0 .. N : \E g : Solves(g, k)}
  <1>1. 0 \in T
    <2> DEFINE h == [n \in 0 .. 0 |-> base]
    <2>1. Solves(h, 0)
      OBVIOUS
    <2> HIDE DEF h
    <2> QED
      BY <2>1
  <1>2. ASSUME NEW k \in 0 .. N - 1, k \in T
        PROVE  k + 1 \in T
    <2>1. PICK g : Solves(g, k)
      BY <1>2
    <2> DEFINE h == [n \in 0 .. k + 1 |->
                       IF n <= k THEN g[n] ELSE F[k + 1][g[k]]]
    <2>2. F[k + 1][g[k]] \in V
      BY <2>1
    <2>3. h \in [0 .. k + 1 -> V]
      BY <2>1, <2>2
    <2>4. h[0] = base
      BY <2>1
    <2>5. ASSUME NEW n \in 1 .. k + 1
          PROVE  h[n] = F[n][h[n - 1]]
      <3>1. n - 1 \in 0 .. k + 1 /\ n - 1 <= k /\ h[n - 1] = g[n - 1]
        OBVIOUS
      <3>2. CASE n <= k
        BY <3>1, <3>2, <2>1
      <3>3. CASE n = k + 1
        BY <3>1, <3>3, <2>1
      <3> QED
        BY <3>2, <3>3
    <2> HIDE DEF h
    <2>6. Solves(h, k + 1)
      BY <2>3, <2>4, <2>5
    <2> QED
      BY <2>6
  <1>3. 0 .. N \subseteq T
    <2> HIDE DEF T
    <2> QED
      BY <1>1, <1>2, BoundedInduction
  <1>4. N \in T
    BY <1>3
  <1> QED
    BY <1>4 DEF IsLoop

\* What holds before a loop and is kept by each of its turns holds after all of them.
LEMMA LoopKeeps ==
    ASSUME NEW N \in Nat, NEW g, NEW J,
           g[0] \in J[0],
           \A n \in 1 .. N : g[n - 1] \in J[n - 1] => g[n] \in J[n]
    PROVE  \A n \in 0 .. N : g[n] \in J[n]
  <1> DEFINE T == {n \in Nat : g[n] \in J[n]}
  <1>1. 0 \in T
    OBVIOUS
  <1>2. \A n \in 0 .. N - 1 : n \in T => n + 1 \in T
    <2> TAKE n \in 0 .. N - 1
    <2>1. n + 1 \in 1 .. N /\ (n + 1) - 1 = n
      OBVIOUS
    <2> QED
      BY <2>1
  <1>3. 0 .. N \subseteq T
    <2> HIDE DEF T
    <2> QED
      BY <1>1, <1>2, BoundedInduction
  <1> QED
    BY <1>3

\* Of 1 .. N, ordered by a strict weak order, one is the first that no other exceeds.
LEMMA FirstLargestExists ==
    ASSUME NEW N \in Nat \ {0}, NEW Less,
           \A a, b \in 1 .. N : <<a, b>> \in Less => <<b, a>> \notin Less,
           \A a, b, c \in 1 .. N :
               <<a, c>> \in Less => <<a, b>> \in Less \/ <<b, c>> \in Less
    PROVE  \E n \in 1 .. N : /\ \A m \in 1 .. N : <<n, m>> \notin Less
                            /\ \A m \in 1 .. n - 1 : <<m, n>> \in Less
  <1> DEFINE IsLargest(n, k) == /\ \A m \in 1 .. k : <<n, m>> \notin Less
                                /\ \A m \in 1 .. n - 1 : <<m, n>> \in Less
             T == {k \in 0 .. N - 1 : \E n \in 1 .. k + 1 : IsLargest(n, k + 1)}
  <1>1. 0 \in T
    <2>1. <<1, 1>> \notin Less
      OBVIOUS
    <2>2. IsLargest(1, 0 + 1)
      BY <2>1
    <2> QED
      BY <2>2
  <1>2. ASSUME NEW k \in 0 .. N - 1 - 1, k \in T
        PROVE  k + 1 \in T
    <2>1. PICK n \in 1 .. k + 1 : IsLargest(n, k + 1)
      BY <1>2
    <2>2. k + 1 \in 0 .. N - 1 /\ k + 2 \in 1 .. N /\ n \in 1 .. N
      OBVIOUS
    <2>3. \A m \in 1 .. k + 2 : m \in 1 .. k + 1 \/ m = k + 2
      OBVIOUS
    <2>4. CASE <<n, k + 2>> \in Less
      <3>1. <<k + 2, k + 2>> \notin Less
        BY <2>2
      <3>2. ASSUME NEW m \in 1 .. k + 1
            PROVE  <<k + 2, m>> \notin Less /\ <<m, k + 2>> \in Less
        <4>1. m \in 1 .. N /\ <<n, m>> \notin Less
          BY <2>1
        <4> QED
          BY <2>2, <2>4, <4>1
      <3>3. \A m \in 1 .. k + 2 : <<k + 2, m>> \notin Less
        BY <2>3, <3>1, <3>2
      <3>4. \A m \in 1 .. (k + 2) - 1 : <<m, k + 2>> \in Less
        <4>1. (k + 2) - 1 = k + 1
          OBVIOUS
        <4> QED
          BY <3>2, <4>1
      <3>5. IsLargest(k + 2, k + 2)
        BY <3>3, <3>4
      <3> QED
        BY <2>2, <3>5
    <2>5. CASE <<n, k + 2>> \notin Less
      <3>1. IsLargest(n, k + 2)
        BY <2>1, <2>3, <2>5
      <3> QED
        BY <2>2, <3>1
    <2> QED
      BY <2>4, <2>5
  <1>3. 0 .. N - 1 \subseteq T
    <2> HIDE DEF T
    <2> QED
      BY <1>1, <1>2, BoundedInduction
  <1>4. N - 1 \in T
    <2> HIDE DEF T
    <2> QED
      BY <1>3
  <1>5. (N - 1) + 1 = N
    OBVIOUS
  <1> QED
    BY <1>4, <1>5
=============================================================================
