---------------------------- MODULE CountingProofs ----------------------------
(***************************************************************************)
(* What the program computes step by step: the wait before each attempt    *)
(* (Backoff), for every base and cap, and the frames cut out of a stream   *)
(* (Framing), for every stream, every limit and every division into chunks.*)
(*                                                                         *)
(* Both are defined by recursion, so the module begins with induction.  It *)
(* is stated of sets, not of predicates: a theorem that takes an operator  *)
(* is beyond the provers, a set is a value like another.                   *)
(***************************************************************************)
EXTENDS Backoff, Framing, FiniteSetTheorems, SequenceTheorems, WellFoundedInduction, TLAPS

\* Every set of natural numbers that is not empty has a least element.
LEMMA LeastNatural ==
    ASSUME NEW T, T \subseteq Nat, T # {}
    PROVE  \E m \in T : \A n \in T : m <= n
<1> DEFINE Less == OpToRel(<, Nat)
<1>1. \E m \in T : \A n \in T : ~(<<n, m>> \in Less)
  BY NatLessThanWellFounded, WFMin
<1>2. \A m, n \in Nat : n < m => <<n, m>> \in Less
  BY DEF OpToRel
<1> HIDE DEF Less
<1>3. PICK m \in T : \A n \in T : ~(<<n, m>> \in Less)
  BY <1>1
<1>4. ASSUME NEW n \in T PROVE m <= n
  <2>1. m \in Nat /\ n \in Nat
    OBVIOUS
  <2>2. ~(n < m)
    BY <1>2, <1>3, <2>1
  <2> QED
    BY <2>1, <2>2
<1> QED
  BY <1>4

\* Induction: a set with 0, and with n + 1 for each n in it, has every number.
LEMMA NatSetInduction ==
    ASSUME NEW T, 0 \in T, \A n \in Nat : n \in T => n + 1 \in T
    PROVE  Nat \subseteq T
<1> SUFFICES ASSUME Nat \ T # {} PROVE FALSE
  OBVIOUS
<1>1. PICK m \in Nat \ T : \A n \in Nat \ T : m <= n
  <2> DEFINE U == Nat \ T
  <2>1. U \subseteq Nat /\ U # {}
    OBVIOUS
  <2> HIDE DEF U
  <2>2. \E m \in U : \A n \in U : m <= n
    BY <2>1, LeastNatural
  <2> QED
    BY <2>2 DEF U
<1>2. m # 0 /\ m - 1 \in Nat /\ m - 1 \in T
  BY <1>1
<1>3. (m - 1) + 1 \in T
  BY <1>2
<1> QED
  BY <1>1, <1>2, <1>3

-----------------------------------------------------------------------------
\* Sequences of values in which each is made from the one before it and its
\* own index: what a function defined by recursion is.
Runs(f, m, first, step) ==
    /\ f[0] = first
    /\ \A n \in 1 .. m : f[n] = step[<<f[n - 1], n>>]

Longer(f, m, v) == [n \in 0 .. m + 1 |-> IF n = m + 1 THEN v ELSE f[n]]

\* One value more leaves the others as they are.
LEMMA LongerKeeps ==
    ASSUME NEW m \in Nat, NEW f, NEW v, NEW n \in 0 .. m
    PROVE  Longer(f, m, v)[n] = f[n]
<1>1. n \in 0 .. m + 1 /\ n # m + 1
  OBVIOUS
<1> QED
  BY <1>1 DEF Longer

\* It is the last.
LEMMA LongerEnds ==
    ASSUME NEW m \in Nat, NEW f, NEW v
    PROVE  Longer(f, m, v)[m + 1] = v
<1>1. m + 1 \in 0 .. m + 1
  OBVIOUS
<1> QED
  BY <1>1 DEF Longer

\* It has the type of the others.
LEMMA LongerType ==
    ASSUME NEW V, NEW m \in Nat, NEW f \in [0 .. m -> V], NEW v \in V
    PROVE  Longer(f, m, v) \in [0 .. m + 1 -> V]
<1>1. ASSUME NEW n \in 0 .. m + 1 PROVE (IF n = m + 1 THEN v ELSE f[n]) \in V
  <2>1. CASE n = m + 1
    BY <2>1
  <2>2. CASE n # m + 1
    <3>1. n \in 0 .. m
      BY <2>2
    <3> QED
      BY <2>2, <3>1
  <2> QED
    BY <2>1, <2>2
<1> QED
  BY <1>1 DEF Longer

\* What runs to m can run to m + 1.
LEMMA RunsOn ==
    ASSUME NEW V, NEW first \in V, NEW step \in [V \X Nat -> V], NEW m \in Nat,
           NEW f \in [0 .. m -> V], Runs(f, m, first, step)
    PROVE  \E g \in [0 .. m + 1 -> V] : Runs(g, m + 1, first, step)
<1>1. f[m] \in V /\ m + 1 \in Nat
  OBVIOUS
<1>2. <<f[m], m + 1>> \in V \X Nat
  BY <1>1
<1> DEFINE v == step[<<f[m], m + 1>>]
<1>3. v \in V
  BY <1>2
<1> DEFINE g == Longer(f, m, v)
<1> HIDE DEF v
<1>4. /\ g \in [0 .. m + 1 -> V]
      /\ \A n \in 0 .. m : g[n] = f[n]
      /\ g[m + 1] = v
  <2>1. g \in [0 .. m + 1 -> V]
    BY <1>3, LongerType
  <2>2. \A n \in 0 .. m : g[n] = f[n]
    BY LongerKeeps
  <2>3. g[m + 1] = v
    BY LongerEnds
  <2> HIDE DEF g
  <2> QED
    BY <2>1, <2>2, <2>3
<1> USE DEF v
<1> HIDE DEF g
<1>5. 0 \in 0 .. m /\ m \in 0 .. m
  OBVIOUS
<1>6. g[0] = first
  BY <1>4, <1>5 DEF Runs
<1>7. ASSUME NEW n \in 1 .. m + 1 PROVE g[n] = step[<<g[n - 1], n>>]
  <2>1. CASE n = m + 1
    <3>1. n - 1 = m
      BY <2>1
    <3>2. g[m] = f[m]
      BY <1>4, <1>5
    <3> QED
      BY <1>4, <2>1, <3>1, <3>2
  <2>2. CASE n # m + 1
    <3>1. n \in 1 .. m /\ n \in 0 .. m /\ n - 1 \in 0 .. m
      BY <2>2
    <3>2. f[n] = step[<<f[n - 1], n>>]
      BY <3>1 DEF Runs
    <3>3. g[n] = f[n] /\ g[n - 1] = f[n - 1]
      BY <1>4, <3>1
    <3> QED
      BY <3>2, <3>3
  <2> QED
    BY <2>1, <2>2
<1> QED
  BY <1>4, <1>6, <1>7 DEF Runs

\* Whatever the first value and the step, there is such a function: the
\* definition by recursion defines something.
LEMMA RecursionExists ==
    ASSUME NEW V, NEW first \in V, NEW step \in [V \X Nat -> V], NEW N \in Nat
    PROVE  \E f \in [0 .. N -> V] : Runs(f, N, first, step)
<1> DEFINE T == {m \in Nat : \E f \in [0 .. m -> V] : Runs(f, m, first, step)}
<1>1. 0 \in T
  <2> DEFINE f == [n \in 0 .. 0 |-> first]
  <2>1. f \in [0 .. 0 -> V] /\ Runs(f, 0, first, step)
    BY DEF Runs
  <2> HIDE DEF f
  <2> QED
    BY <2>1
<1>2. ASSUME NEW m \in Nat, m \in T PROVE m + 1 \in T
  <2>1. PICK f \in [0 .. m -> V] : Runs(f, m, first, step)
    BY <1>2
  <2>2. \E g \in [0 .. m + 1 -> V] : Runs(g, m + 1, first, step)
    BY <2>1, RunsOn
  <2>3. m + 1 \in Nat
    OBVIOUS
  <2> QED
    BY <2>2, <2>3
<1> HIDE DEF T
<1>3. N \in T
  BY <1>1, <1>2, NatSetInduction
<1> QED
  BY <1>3 DEF T

-----------------------------------------------------------------------------
\* The delays before the cap is applied are what their definition says.
LEMMA DoubledDef ==
    Doubled = [n \in 0 .. Cap |-> IF n = 0 THEN Base ELSE 2 * Doubled[n - 1]]
<1> DEFINE step == [p \in Nat \X Nat |-> 2 * p[1]]
<1>1. step \in [Nat \X Nat -> Nat]
  OBVIOUS
<1>2. ASSUME NEW v \in Nat, NEW n \in Nat PROVE step[<<v, n>>] = 2 * v
  <2>1. <<v, n>> \in Nat \X Nat /\ <<v, n>>[1] = v
    OBVIOUS
  <2> QED
    BY <2>1
<1>0. Base \in Nat /\ Cap \in Nat
  BY BaseCapAssumption
<1> HIDE DEF step
<1>3. PICK f \in [0 .. Cap -> Nat] : Runs(f, Cap, Base, step)
  BY <1>0, <1>1, RecursionExists
<1>4. f = [n \in 0 .. Cap |-> IF n = 0 THEN Base ELSE 2 * f[n - 1]]
  <2>1. ASSUME NEW n \in 0 .. Cap, n # 0 PROVE f[n] = 2 * f[n - 1]
    <3>1. n - 1 \in 0 .. Cap /\ n \in Nat /\ n \in 1 .. Cap
      BY <1>0, <2>1
    <3>2. f[n - 1] \in Nat
      BY <3>1
    <3>3. f[n] = step[<<f[n - 1], n>>]
      BY <1>3, <3>1 DEF Runs
    <3> QED
      BY <3>1, <3>2, <3>3, <1>2
  <2>2. f[0] = Base
    BY <1>3 DEF Runs
  <2> QED
    BY <2>1, <2>2
<1>5. \E g : g = [n \in 0 .. Cap |-> IF n = 0 THEN Base ELSE 2 * g[n - 1]]
  BY <1>4
<1> QED
  BY <1>5 DEF Doubled
LEMMA DoubledSteps ==
    /\ Doubled[0] = Base
    /\ \A n \in 0 .. Cap : n + 1 <= Cap => Doubled[n + 1] = 2 * Doubled[n]
<1>1. Cap \in Nat
  BY BaseCapAssumption
<1>2. Doubled[0] = Base
  BY <1>1, DoubledDef
<1>3. ASSUME NEW n \in 0 .. Cap, n + 1 <= Cap PROVE Doubled[n + 1] = 2 * Doubled[n]
  <2>1. n + 1 \in 0 .. Cap /\ n + 1 # 0 /\ (n + 1) - 1 = n
    BY <1>1, <1>3
  <2> QED
    BY <2>1, DoubledDef
<1> QED
  BY <1>2, <1>3

\* Each is a number, and greater than the count of doublings; so the last of
\* them has reached the cap.
LEMMA DoubledGrows == \A n \in 0 .. Cap : Doubled[n] \in Nat /\ Doubled[n] > n
<1> DEFINE T == {n \in Nat : n <= Cap => Doubled[n] \in Nat /\ Doubled[n] > n}
<1>1. 0 \in T
  BY DoubledSteps, BaseCapAssumption
<1>2. ASSUME NEW n \in Nat, n \in T PROVE n + 1 \in T
  <2>1. CASE n + 1 <= Cap
    <3>1. n \in 0 .. Cap /\ Doubled[n] \in Nat /\ Doubled[n] > n
      BY <1>2, <2>1, BaseCapAssumption
    <3>2. Doubled[n + 1] = 2 * Doubled[n]
      BY <2>1, <3>1, DoubledSteps
    <3>3. 2 * Doubled[n] \in Nat /\ 2 * Doubled[n] > n + 1
      BY <3>1
    <3> QED
      BY <3>2, <3>3
  <2>2. CASE ~(n + 1 <= Cap)
    BY <2>2
  <2> QED
    BY <2>1, <2>2
<1> HIDE DEF T
<1>3. Nat \subseteq T
  BY <1>1, <1>2, NatSetInduction
<1> QED
  BY <1>3, BaseCapAssumption DEF T

\* The cap is reached after Doublings of them, and not before.
LEMMA DoublingsIs ==
    /\ Doublings \in 0 .. Cap
    /\ Doubled[Doublings] >= Cap
    /\ \A j \in 0 .. Doublings - 1 : Doubled[j] < Cap
<1> DEFINE T == {k \in 0 .. Cap : Doubled[k] >= Cap}
<1>1. Cap \in Nat /\ Cap \in 0 .. Cap
  BY BaseCapAssumption
<1>2. T \subseteq Nat /\ T # {}
  <2>1. Doubled[Cap] \in Nat /\ Doubled[Cap] > Cap
    BY <1>1, DoubledGrows
  <2>2. Cap \in T
    BY <1>1, <2>1
  <2> QED
    BY <1>1, <2>2
<1> HIDE DEF T
<1>3. PICK k \in T : \A n \in T : k <= n
  BY <1>2, LeastNatural
<1>4. k \in 0 .. Cap /\ Doubled[k] >= Cap
  BY <1>3 DEF T
<1>5. ASSUME NEW j \in 0 .. k - 1 PROVE Doubled[j] < Cap
  <2>1. j \in 0 .. Cap /\ ~(k <= j)
    BY <1>1, <1>4
  <2>2. j \notin T
    BY <1>3, <2>1
  <2> QED
    BY <1>1, <2>1, <2>2, DoubledGrows DEF T
<1>6. \E i \in 0 .. Cap : Doubled[i] >= Cap /\ \A j \in 0 .. i - 1 : Doubled[j] < Cap
  BY <1>4, <1>5
<1> QED
  BY <1>6 DEF Doublings

\* The waits: the base first, then twice the last while that is below the
\* cap, then the cap.
LEMMA DelaySteps ==
    /\ Delay(0) = Base
    /\ \A n \in Nat : /\ Delay(n) \in 1 .. Cap
                      /\ Delay(n + 1) = IF 2 * Delay(n) < Cap THEN 2 * Delay(n) ELSE Cap
<1>1. Cap \in Nat /\ Base \in Nat \ {0} /\ Base <= Cap
  BY BaseCapAssumption
<1> DEFINE k == Doublings
<1>2. k \in 0 .. Cap /\ Doubled[k] >= Cap /\ \A j \in 0 .. k - 1 : Doubled[j] < Cap
  BY DoublingsIs
<1> HIDE DEF k
<1>3. \A n : Delay(n) = IF n < k THEN Doubled[n] ELSE Cap
  BY DEF Delay, k
<1>4. Delay(0) = Base
  BY <1>1, <1>2, <1>3, DoubledSteps
<1>5. ASSUME NEW n \in Nat
      PROVE  /\ Delay(n) \in 1 .. Cap
             /\ Delay(n + 1) = IF 2 * Delay(n) < Cap THEN 2 * Delay(n) ELSE Cap
  <2>1. CASE n >= k
    <3>1. Delay(n) = Cap /\ Delay(n + 1) = Cap
      BY <1>2, <1>3, <2>1
    <3> QED
      BY <1>1, <3>1
  <2>2. CASE n < k
    <3>1. n \in 0 .. k - 1 /\ n \in 0 .. Cap /\ n + 1 <= k /\ n + 1 <= Cap /\ n + 1 \in Nat
      BY <1>1, <1>2, <2>2
    <3>2. Delay(n) = Doubled[n] /\ Doubled[n] \in Nat /\ Doubled[n] > n /\ Doubled[n] < Cap
      BY <1>2, <1>3, <2>2, <3>1, DoubledGrows
    <3>3. Doubled[n + 1] = 2 * Doubled[n]
      BY <3>1, DoubledSteps
    <3>4. CASE n + 1 < k
      <4>1. n + 1 \in 0 .. k - 1
        BY <1>2, <3>1, <3>4
      <4>2. Delay(n + 1) = Doubled[n + 1] /\ Doubled[n + 1] < Cap
        BY <1>2, <1>3, <3>4, <4>1
      <4> QED
        BY <1>1, <3>2, <3>3, <4>2
    <3>5. CASE n + 1 = k
      <4>1. Delay(n + 1) = Cap /\ Doubled[n + 1] >= Cap
        BY <1>2, <1>3, <3>5
      <4> QED
        BY <1>1, <3>2, <3>3, <4>1
    <3> QED
      BY <1>2, <3>1, <3>4, <3>5
  <2> QED
    BY <1>2, <2>1, <2>2
<1> QED
  BY <1>4, <1>5

-----------------------------------------------------------------------------
\* The last wait is the one for the attempts counted so far; none are while
\* a session is up, and none were made before the first wait.
BackoffInv ==
    /\ BackoffTypeOK
    /\ phase = "open" => attempts = 0
    /\ phase = "waiting" => attempts > 0
    /\ phase = "connecting" /\ attempts = 0 => delay = 0
    /\ attempts > 0 => delay = Delay(attempts - 1)

\* The wait that follows is the one the invariant and the count give.
LEMMA NextDelayIs ==
    ASSUME BackoffInv, NextDelay
    PROVE  \/ /\ phase' = "waiting" /\ attempts' \in 1 .. FloatBits
              /\ delay' = Delay(attempts' - 1) /\ delay' \in 0 .. Cap
           \/ phase' = "raised" /\ attempts' = attempts /\ delay' = delay
<1>1. attempts \in Nat /\ attempts \in 0 .. FloatBits /\ FloatBits \in Nat /\ Cap \in Nat
  BY FloatBitsAssumption, BaseCapAssumption DEF BackoffInv, BackoffTypeOK
<1>2. Delay(attempts) \in 1 .. Cap
  BY <1>1, DelaySteps
<1>3. CASE attempts < FloatBits
  <2>1. attempts' = attempts + 1 /\ delay' = Delay(attempts) /\ phase' = "waiting"
    BY <1>3 DEF NextDelay
  <2>2. attempts' - 1 = attempts
    BY <1>1, <2>1
  <2> QED
    BY <1>1, <1>2, <1>3, <2>1, <2>2
<1>4. CASE ~(attempts < FloatBits)
  BY <1>4 DEF NextDelay
<1> QED
  BY <1>3, <1>4

LEMMA BackoffStep == BackoffInv /\ [BackoffNext]_backoffVars => BackoffInv'
<1> SUFFICES ASSUME BackoffInv, [BackoffNext]_backoffVars PROVE BackoffInv'
  OBVIOUS
<1>1. /\ attempts \in 0 .. FloatBits /\ FloatBits \in Nat /\ Cap \in Nat /\ delay \in 0 .. Cap
      /\ phase \in {"connecting", "open", "waiting", "raised"}
  BY FloatBitsAssumption, BaseCapAssumption DEF BackoffInv, BackoffTypeOK
<1>2. \A n : Delay(n)' = Delay(n)
  OBVIOUS
<1>3. CASE NextDelay
  BY <1>1, <1>3, NextDelayIs DEF BackoffInv, BackoffTypeOK
<1>4. CASE Come
  BY <1>1, <1>4 DEF Come, BackoffInv, BackoffTypeOK
<1>5. CASE Retry
  BY <1>1, <1>5 DEF Retry, BackoffInv, BackoffTypeOK
<1>6. CASE UNCHANGED backoffVars
  BY <1>1, <1>6 DEF backoffVars, BackoffInv, BackoffTypeOK
<1> QED
  BY <1>3, <1>4, <1>5, <1>6 DEF BackoffNext, Fail, Lose, Raised

LEMMA BackoffStart == BackoffInit => BackoffInv
BY FloatBitsAssumption, BaseCapAssumption DEF BackoffInit, BackoffInv, BackoffTypeOK

LEMMA BackoffInvariant == BackoffSpec => []BackoffInv
BY BackoffStart, BackoffStep, PTL DEF BackoffSpec

\* No wait is longer than the cap, for any base, cap and size of float.
THEOREM BackoffTypeCorrect == BackoffSpec => []BackoffTypeOK
<1>1. BackoffInv => BackoffTypeOK
  BY DEF BackoffInv
<1> QED
  BY <1>1, BackoffInvariant, PTL

\* A wait is twice the one before it until the cap is reached, and the base
\* again after a session: what next_delay computes from the count of attempts
\* is what it would from the last wait.
THEOREM WaitGrowsHolds == BackoffSpec => WaitGrows
<1> DEFINE Grown == phase' = "waiting" /\ phase # "waiting" =>
                        delay' = IF phase = "open" \/ delay = 0 THEN Base
                                 ELSE IF 2 * delay < Cap THEN 2 * delay ELSE Cap
<1>1. BackoffInv /\ [BackoffNext]_backoffVars => [Grown]_backoffVars
  <2> SUFFICES ASSUME BackoffInv, BackoffNext, phase' = "waiting", phase # "waiting"
               PROVE  delay' = IF phase = "open" \/ delay = 0 THEN Base
                               ELSE IF 2 * delay < Cap THEN 2 * delay ELSE Cap
    BY DEF backoffVars
  <2>1. /\ NextDelay /\ phase \in {"connecting", "open"}
        /\ attempts \in Nat
    BY FloatBitsAssumption
       DEF BackoffNext, Fail, Lose, Come, Retry, Raised, backoffVars, BackoffInv, BackoffTypeOK
  <2>2. delay' = Delay(attempts)
    BY <2>1 DEF NextDelay
  <2>3. CASE attempts = 0
    <3>1. phase = "open" \/ delay = 0
      BY <2>1, <2>3 DEF BackoffInv
    <3> QED
      BY <2>2, <2>3, <3>1, DelaySteps
  <2>4. CASE attempts > 0
    <3>1. attempts - 1 \in Nat /\ (attempts - 1) + 1 = attempts
      BY <2>1, <2>4
    <3>2. phase # "open" /\ delay = Delay(attempts - 1)
      BY <2>4, <2>1 DEF BackoffInv
    <3>3. delay \in 1 .. Cap /\ delay' = IF 2 * delay < Cap THEN 2 * delay ELSE Cap
      BY <2>2, <3>1, <3>2, DelaySteps
    <3>4. delay # 0
      BY <3>3, BaseCapAssumption
    <3> QED
      BY <3>2, <3>3, <3>4
  <2> QED
    BY <2>1, <2>3, <2>4
<1> QED
  BY <1>1, BackoffInvariant, PTL DEF BackoffSpec, WaitGrows

-----------------------------------------------------------------------------
\* The offsets of the lines' ends are what their definition says.
LEMMA EndsDef ==
    ASSUME stream \in Seq(Line)
    PROVE  Ends = [i \in 0 .. Len(stream) |->
                      IF i = 0 THEN 0 ELSE Ends[i - 1] + stream[i].size + 1]
<1> DEFINE N == Len(stream)
           step == [p \in Nat \X Nat |-> IF p[2] \in 1 .. N THEN p[1] + stream[p[2]].size + 1 ELSE 0]
<1>1. N \in Nat /\ \A i \in 1 .. N : stream[i].size \in Nat
  <2>1. N \in Nat /\ \A i \in 1 .. N : stream[i] \in Line
    OBVIOUS
  <2> QED
    BY <2>1, SizesAssumption DEF Line
<1>2. step \in [Nat \X Nat -> Nat]
  BY <1>1
<1>3. ASSUME NEW v \in Nat, NEW i \in 1 .. N PROVE step[<<v, i>>] = v + stream[i].size + 1
  <2>1. <<v, i>> \in Nat \X Nat /\ <<v, i>>[1] = v /\ <<v, i>>[2] = i
    BY <1>1
  <2> QED
    BY <2>1
<1> HIDE DEF step
<1>4. PICK f \in [0 .. N -> Nat] : Runs(f, N, 0, step)
  BY <1>1, <1>2, RecursionExists
<1>5. f = [i \in 0 .. N |-> IF i = 0 THEN 0 ELSE f[i - 1] + stream[i].size + 1]
  <2>1. ASSUME NEW i \in 0 .. N, i # 0 PROVE f[i] = f[i - 1] + stream[i].size + 1
    <3>1. i - 1 \in 0 .. N /\ i \in 1 .. N
      BY <1>1, <2>1
    <3>2. f[i - 1] \in Nat
      BY <3>1
    <3>3. f[i] = step[<<f[i - 1], i>>]
      BY <1>4, <3>1 DEF Runs
    <3> QED
      BY <3>1, <3>2, <3>3, <1>3
  <2>2. f[0] = 0
    BY <1>4 DEF Runs
  <2> QED
    BY <2>1, <2>2
<1>6. \E g : g = [i \in 0 .. N |-> IF i = 0 THEN 0 ELSE g[i - 1] + stream[i].size + 1]
  BY <1>5
<1> QED
  BY <1>6 DEF Ends

\* A line ends after the one before it.
LEMMA EndsSteps ==
    ASSUME stream \in Seq(Line)
    PROVE  /\ Ends[0] = 0
           /\ \A i \in 1 .. Len(stream) : /\ stream[i].size \in Nat
                                          /\ Ends[i] = Ends[i - 1] + stream[i].size + 1
<1>1. Len(stream) \in Nat
  OBVIOUS
<1>2. Ends[0] = 0
  BY <1>1, EndsDef
<1>3. ASSUME NEW i \in 1 .. Len(stream)
      PROVE  stream[i].size \in Nat /\ Ends[i] = Ends[i - 1] + stream[i].size + 1
  <2>1. i \in 0 .. Len(stream) /\ i # 0
    BY <1>1
  <2>2. stream[i] \in Line
    OBVIOUS
  <2> QED
    BY <2>1, <2>2, EndsDef, SizesAssumption DEF Line
<1> QED
  BY <1>2, <1>3

LEMMA EndsType ==
    ASSUME stream \in Seq(Line)
    PROVE  \A i \in 0 .. Len(stream) : Ends[i] \in Nat
<1> DEFINE T == {i \in Nat : i <= Len(stream) => Ends[i] \in Nat}
<1>0. Len(stream) \in Nat
  OBVIOUS
<1>1. 0 \in T
  BY EndsSteps
<1>2. ASSUME NEW i \in Nat, i \in T PROVE i + 1 \in T
  <2>1. CASE i + 1 <= Len(stream)
    <3>1. Ends[i] \in Nat /\ i + 1 \in 1 .. Len(stream) /\ (i + 1) - 1 = i
      BY <1>0, <1>2, <2>1
    <3>2. Ends[i + 1] = Ends[i] + stream[i + 1].size + 1 /\ stream[i + 1].size \in Nat
      BY <3>1, EndsSteps
    <3> QED
      BY <3>1, <3>2
  <2>2. CASE ~(i + 1 <= Len(stream))
    BY <2>2
  <2> QED
    BY <2>1, <2>2
<1> HIDE DEF T
<1>3. Nat \subseteq T
  BY <1>1, <1>2, NatSetInduction
<1> QED
  BY <1>0, <1>3 DEF T

LEMMA EndsGrow ==
    ASSUME stream \in Seq(Line), NEW i \in 0 .. Len(stream), NEW j \in 0 .. Len(stream), i < j
    PROVE  Ends[i] < Ends[j]
<1> DEFINE T == {n \in Nat : i < n /\ n <= Len(stream) => Ends[i] < Ends[n]}
<1>0. Len(stream) \in Nat /\ Ends[i] \in Nat
  BY EndsType
<1>1. 0 \in T
  BY <1>0
<1>2. ASSUME NEW n \in Nat, n \in T PROVE n + 1 \in T
  <2>1. CASE i < n + 1 /\ n + 1 <= Len(stream)
    <3>1. n + 1 \in 1 .. Len(stream) /\ (n + 1) - 1 = n /\ n \in 0 .. Len(stream)
      BY <1>0, <2>1
    <3>2. Ends[n] \in Nat /\ stream[n + 1].size \in Nat
          /\ Ends[n + 1] = Ends[n] + stream[n + 1].size + 1
      BY <3>1, EndsSteps, EndsType
    <3>3. i = n \/ i < n
      BY <1>0, <2>1
    <3>4. Ends[i] <= Ends[n]
      BY <1>0, <1>2, <3>1, <3>2, <3>3
    <3> QED
      BY <1>0, <3>2, <3>4
  <2>2. CASE ~(i < n + 1 /\ n + 1 <= Len(stream))
    BY <2>2
  <2> QED
    BY <2>1, <2>2
<1> HIDE DEF T
<1>3. j \in T
  BY <1>0, <1>1, <1>2, NatSetInduction
<1> QED
  BY <1>0, <1>3 DEF T

\* The complete lines are the first ones: those that end within the offset.
LEMMA LinesBeforeIs ==
    ASSUME stream \in Seq(Line), NEW o \in Nat
    PROVE  /\ LinesBefore(o) \in 0 .. Len(stream)
           /\ Ends[LinesBefore(o)] <= o
           /\ \A i \in 0 .. Len(stream) : Ends[i] <= o <=> i <= LinesBefore(o)
<1> DEFINE N == Len(stream)
           U == {i \in 1 .. N + 1 : i <= N => Ends[i] > o}
<1>1. N \in Nat /\ \A i \in 0 .. N : Ends[i] \in Nat
  BY EndsType
<1>2. U \subseteq Nat /\ N + 1 \in U
  BY <1>1
<1> HIDE DEF U
<1>3. PICK u \in U : \A i \in U : u <= i
  BY <1>2, LeastNatural
<1>4. u \in 1 .. N + 1 /\ u - 1 \in 0 .. N /\ (u <= N => Ends[u] > o)
  BY <1>1, <1>3 DEF U
<1>5. ASSUME NEW i \in 0 .. N PROVE Ends[i] <= o <=> i <= u - 1
  <2>1. CASE i <= u - 1
    <3>1. CASE i = 0
      BY <2>1, <3>1, EndsSteps
    <3>2. CASE i # 0
      <4>1. i \in 1 .. N + 1 /\ ~(u <= i)
        BY <1>1, <1>4, <2>1, <3>2
      <4>2. i \notin U
        BY <1>3, <4>1
      <4>3. Ends[i] <= o
        BY <1>1, <4>1, <4>2 DEF U
      <4> QED
        BY <2>1, <4>3
    <3> QED
      BY <3>1, <3>2
  <2>2. CASE ~(i <= u - 1)
    <3>1. u <= i /\ u <= N /\ u \in 0 .. N
      BY <1>1, <1>4, <2>2
    <3>2. u = i \/ u < i
      BY <1>4, <3>1
    <3>3. Ends[u] <= Ends[i]
      BY <1>1, <3>1, <3>2, EndsGrow
    <3>4. ~(Ends[i] <= o)
      BY <1>1, <1>4, <3>1, <3>3
    <3> QED
      BY <2>2, <3>4
  <2> QED
    BY <2>1, <2>2
<1>6. {i \in 1 .. N : Ends[i] <= o} = 1 .. u - 1
  BY <1>1, <1>4, <1>5
<1>7. Cardinality(1 .. u - 1) = u - 1
  <2>1. u - 1 \in Int
    BY <1>4
  <2>2. Cardinality(1 .. u - 1) = IF 1 > u - 1 THEN 0 ELSE (u - 1) - 1 + 1
    BY <2>1, FS_Interval
  <2> QED
    BY <1>4, <2>2
<1>8. LinesBefore(o) = u - 1
  BY <1>6, <1>7 DEF LinesBefore
<1> QED
  BY <1>4, <1>5, <1>8

-----------------------------------------------------------------------------
ObjectsIn(first, last) == {i \in first .. last : stream[i].object}
BlanksIn(first, last) == {i \in first .. last : stream[i].size = 0}

\* A sequence that names the lines of an interval that are objects, in order
\* and once each.
Picked(s, first, last) ==
    /\ s \in Seq(Nat)
    /\ Len(s) = Cardinality(ObjectsIn(first, last))
    /\ \A k \in 2 .. Len(s) : s[k - 1] < s[k]
    /\ \A k \in 1 .. Len(s) : s[k] \in ObjectsIn(first, last)
    /\ \A i \in ObjectsIn(first, last) : \E k \in 1 .. Len(s) : s[k] = i

\* A longer interval of lines has the new line too, if it is of the kind.
LEMMA OneLineMore ==
    ASSUME NEW first \in Nat, NEW last \in Nat, first <= last + 1
    PROVE  /\ first .. last + 1 = first .. last \cup {last + 1}
           /\ last + 1 \notin first .. last
           /\ ObjectsIn(first, last + 1)
              = IF stream[last + 1].object THEN ObjectsIn(first, last) \cup {last + 1}
                ELSE ObjectsIn(first, last)
<1>1. first .. last + 1 = first .. last \cup {last + 1} /\ last + 1 \notin first .. last
  OBVIOUS
<1> QED
  BY <1>1 DEF ObjectsIn

LEMMA IntervalsAreFinite ==
    ASSUME NEW first \in Nat, NEW last \in Int
    PROVE  /\ IsFiniteSet(first .. last) /\ IsFiniteSet(ObjectsIn(first, last))
           /\ IsFiniteSet(BlanksIn(first, last))
<1>1. IsFiniteSet(first .. last)
  BY FS_Interval
<1>2. ObjectsIn(first, last) \in SUBSET (first .. last)
      /\ BlanksIn(first, last) \in SUBSET (first .. last)
  BY DEF ObjectsIn, BlanksIn
<1> QED
  BY <1>1, <1>2, FS_Subset

\* One more line decoded: the loop of feed, once round.
LEMMA PickNext ==
    ASSUME NEW first \in Nat, NEW last \in Nat, first <= last + 1, NEW s, Picked(s, first, last)
    PROVE  Picked(IF stream[last + 1].object THEN Append(s, last + 1) ELSE s, first, last + 1)
<1>1. CASE ~stream[last + 1].object
  <2>1. ObjectsIn(first, last + 1) = ObjectsIn(first, last)
    BY <1>1, OneLineMore
  <2> QED
    BY <1>1, <2>1 DEF Picked
<1>2. CASE stream[last + 1].object
  <2> DEFINE t == Append(s, last + 1)  n == Len(s)
  <2>1. s \in Seq(Nat) /\ n \in Nat /\ last + 1 \in Nat
    BY DEF Picked
  <2>2. /\ t \in Seq(Nat) /\ Len(t) = n + 1
        /\ \A k \in 1 .. n : t[k] = s[k]
        /\ t[n + 1] = last + 1
    BY <2>1, AppendProperties
  <2> HIDE DEF t
  <2>3. /\ ObjectsIn(first, last + 1) = ObjectsIn(first, last) \cup {last + 1}
        /\ last + 1 \notin ObjectsIn(first, last)
    BY <1>2, OneLineMore DEF ObjectsIn
  <2>4. Cardinality(ObjectsIn(first, last + 1)) = n + 1
    <3>1. IsFiniteSet(ObjectsIn(first, last))
      BY IntervalsAreFinite
    <3>2. Cardinality(ObjectsIn(first, last)) = n
      BY DEF Picked
    <3> QED
      BY <2>3, <3>1, <3>2, FS_AddElement
  <2>5. ASSUME NEW k \in 2 .. n + 1 PROVE t[k - 1] < t[k]
    <3>1. CASE k = n + 1
      <4>1. k - 1 \in 1 .. n
        BY <2>1, <3>1
      <4>2. s[k - 1] \in first .. last
        BY <4>1 DEF Picked, ObjectsIn
      <4>3. t[k - 1] = s[k - 1]
        BY <2>2, <4>1
      <4>4. t[k] = last + 1
        BY <2>2, <3>1
      <4>5. s[k - 1] < last + 1
        BY <4>2
      <4> QED
        BY <4>3, <4>4, <4>5
    <3>2. CASE k # n + 1
      <4>1. k \in 2 .. n /\ k \in 1 .. n /\ k - 1 \in 1 .. n
        BY <2>1, <3>2
      <4>2. s[k - 1] < s[k]
        BY <4>1 DEF Picked
      <4> QED
        BY <2>2, <4>1, <4>2
    <3> QED
      BY <3>1, <3>2
  <2>6. ASSUME NEW k \in 1 .. n + 1 PROVE t[k] \in ObjectsIn(first, last + 1)
    <3>1. CASE k = n + 1
      BY <2>2, <2>3, <3>1
    <3>2. CASE k # n + 1
      <4>1. k \in 1 .. n
        BY <2>1, <3>2
      <4>2. s[k] \in ObjectsIn(first, last)
        BY <4>1 DEF Picked
      <4> QED
        BY <2>2, <2>3, <4>1, <4>2
    <3> QED
      BY <3>1, <3>2
  <2>7. ASSUME NEW i \in ObjectsIn(first, last + 1) PROVE \E k \in 1 .. n + 1 : t[k] = i
    <3>1. CASE i = last + 1
      <4>1. n + 1 \in 1 .. n + 1
        BY <2>1
      <4> QED
        BY <2>2, <3>1, <4>1
    <3>2. CASE i # last + 1
      <4>1. i \in ObjectsIn(first, last)
        BY <2>3, <3>2
      <4>2. PICK k \in 1 .. n : s[k] = i
        BY <4>1 DEF Picked
      <4>3. k \in 1 .. n + 1 /\ t[k] = i
        BY <2>1, <2>2, <4>2
      <4> QED
        BY <4>3
    <3> QED
      BY <3>1, <3>2
  <2>8. Picked(t, first, last + 1)
    BY <2>2, <2>4, <2>5, <2>6, <2>7 DEF Picked
  <2> QED
    BY <1>2, <2>8 DEF t
<1> QED
  BY <1>1, <1>2

\* What Objects returns of lines that are whole: those that are objects.
LEMMA ObjectsArePicked ==
    ASSUME stream \in Seq(Line), NEW first \in 1 .. Len(stream) + 1,
           NEW last \in first - 1 .. Len(stream)
    PROVE  Picked(Objects(first, last, Ends[first - 1]), first, last)
<1> DEFINE N == Len(stream)  m == last - first + 1  b == Ends[first - 1]
           step == [p \in Seq(Nat) \X Nat |->
                       IF b <= Ends[first + p[2] - 2] /\ stream[first + p[2] - 1].object
                       THEN Append(p[1], first + p[2] - 1) ELSE p[1]]
<1>1. N \in Nat /\ m \in Nat /\ first \in Nat \ {0} /\ last \in Nat /\ m <= N
  OBVIOUS
<1>2. step \in [Seq(Nat) \X Nat -> Seq(Nat)]
  <2>1. ASSUME NEW p \in Seq(Nat) \X Nat
        PROVE  (IF b <= Ends[first + p[2] - 2] /\ stream[first + p[2] - 1].object
                THEN Append(p[1], first + p[2] - 1) ELSE p[1]) \in Seq(Nat)
    <3>1. p[1] \in Seq(Nat) /\ p[2] \in Nat /\ first + p[2] - 1 \in Nat
      BY <1>1
    <3>2. Append(p[1], first + p[2] - 1) \in Seq(Nat)
      BY <3>1, AppendProperties
    <3> QED
      BY <3>1, <3>2
  <2> QED
    BY <2>1
<1>3. ASSUME NEW v \in Seq(Nat), NEW k \in Nat
      PROVE  step[<<v, k>>] = IF b <= Ends[first + k - 2] /\ stream[first + k - 1].object
                              THEN Append(v, first + k - 1) ELSE v
  <2>1. <<v, k>> \in Seq(Nat) \X Nat /\ <<v, k>>[1] = v /\ <<v, k>>[2] = k
    OBVIOUS
  <2> QED
    BY <2>1
<1> HIDE DEF step
<1>4. <<>> \in Seq(Nat)
  OBVIOUS
<1>5. PICK f \in [0 .. m -> Seq(Nat)] : Runs(f, m, <<>>, step)
  BY <1>1, <1>2, <1>4, RecursionExists
<1>6. /\ f[0] = <<>>
      /\ \A k \in 1 .. m : f[k] = IF b <= Ends[first + k - 2] /\ stream[first + k - 1].object
                                  THEN Append(f[k - 1], first + k - 1) ELSE f[k - 1]
  <2>1. ASSUME NEW k \in 1 .. m
        PROVE  f[k] = IF b <= Ends[first + k - 2] /\ stream[first + k - 1].object
                      THEN Append(f[k - 1], first + k - 1) ELSE f[k - 1]
    <3>1. k - 1 \in 0 .. m /\ k \in Nat
      BY <1>1
    <3>2. f[k - 1] \in Seq(Nat)
      BY <3>1
    <3>3. f[k] = step[<<f[k - 1], k>>]
      BY <1>5 DEF Runs
    <3> QED
      BY <1>3, <3>1, <3>2, <3>3
  <2> QED
    BY <1>5, <2>1 DEF Runs
<1>7. f = [k \in 0 .. m |-> IF k = 0 THEN <<>>
                            ELSE IF b <= Ends[first + k - 2] /\ stream[first + k - 1].object
                                 THEN Append(f[k - 1], first + k - 1) ELSE f[k - 1]]
  <2>1. \A k \in 0 .. m : k = 0 \/ k \in 1 .. m
    BY <1>1
  <2> QED
    BY <1>6, <2>1
<1>8. PICK g : /\ g = [k \in 0 .. m |->
                          IF k = 0 THEN <<>>
                          ELSE IF b <= Ends[first + k - 2] /\ stream[first + k - 1].object
                               THEN Append(g[k - 1], first + k - 1) ELSE g[k - 1]]
               /\ Objects(first, last, b) = g[m]
  <2>1. \E g : g = [k \in 0 .. m |->
                       IF k = 0 THEN <<>>
                       ELSE IF b <= Ends[first + k - 2] /\ stream[first + k - 1].object
                            THEN Append(g[k - 1], first + k - 1) ELSE g[k - 1]]
    BY <1>7
  <2> QED
    BY <2>1 DEF Objects
<1> DEFINE T == {k \in Nat : k <= m => Picked(g[k], first, first + k - 1)}
<1>9. 0 \in T
  <2>1. g[0] = <<>>
    BY <1>1, <1>8
  <2>2. ObjectsIn(first, first + 0 - 1) = {}
    BY <1>1 DEF ObjectsIn
  <2>3. Len(<<>>) = 0 /\ <<>> \in Seq(Nat) /\ Cardinality({}) = 0
    BY FS_EmptySet
  <2>4. Picked(<<>>, first, first + 0 - 1)
    <3>1. 1 .. 0 = {} /\ 2 .. 0 = {}
      OBVIOUS
    <3> QED
      BY <2>2, <2>3, <3>1 DEF Picked
  <2> QED
    BY <2>1, <2>4
<1>10. ASSUME NEW k \in Nat, k \in T PROVE k + 1 \in T
  <2>1. CASE k + 1 <= m
    <3> DEFINE line == first + k
    <3>1. /\ k + 1 \in 0 .. m /\ k + 1 # 0 /\ k <= m /\ (k + 1) - 1 = k
          /\ first + (k + 1) - 2 = line - 1 /\ first + (k + 1) - 1 = line
          /\ line - 1 \in Nat /\ (line - 1) + 1 = line /\ first <= (line - 1) + 1
      BY <1>1, <2>1
    <3>2. b <= Ends[line - 1]
      <4>1. first - 1 \in 0 .. N /\ line - 1 \in 0 .. N /\ first - 1 <= line - 1
        BY <1>1, <2>1
      <4>2. first - 1 = line - 1 \/ first - 1 < line - 1
        BY <4>1
      <4>3. Ends[first - 1] \in Nat /\ Ends[line - 1] \in Nat
        BY <4>1, EndsType
      <4>4. first - 1 < line - 1 => Ends[first - 1] < Ends[line - 1]
        BY <4>1, EndsGrow
      <4>5. CASE first - 1 = line - 1
        BY <4>3, <4>5
      <4>6. CASE first - 1 < line - 1
        BY <4>3, <4>4, <4>6
      <4> QED
        BY <4>2, <4>5, <4>6
    <3>3. g[k + 1] = IF b <= Ends[first + (k + 1) - 2] /\ stream[first + (k + 1) - 1].object
                     THEN Append(g[(k + 1) - 1], first + (k + 1) - 1) ELSE g[(k + 1) - 1]
      BY <1>8, <3>1
    <3>4. g[k + 1] = IF stream[line].object THEN Append(g[k], line) ELSE g[k]
      BY <3>1, <3>2, <3>3
    <3>5. Picked(g[k], first, line - 1)
      BY <1>10, <3>1
    <3>6. Picked(IF stream[(line - 1) + 1].object THEN Append(g[k], (line - 1) + 1) ELSE g[k],
                 first, (line - 1) + 1)
      BY <1>1, <3>1, <3>5, PickNext
    <3>7. Picked(g[k + 1], first, first + (k + 1) - 1)
      BY <3>1, <3>4, <3>6
    <3> QED
      BY <3>7
  <2>2. CASE ~(k + 1 <= m)
    BY <2>2
  <2> QED
    BY <2>1, <2>2
<1> HIDE DEF T
<1>11. m \in T
  BY <1>1, <1>9, <1>10, NatSetInduction
<1>12. first + m - 1 = last
  BY <1>1
<1> QED
  BY <1>1, <1>8, <1>11, <1>12 DEF T

-----------------------------------------------------------------------------
\* What a line may be, as the counts need it.
LEMMA LineIs ==
    ASSUME stream \in Seq(Line), NEW i \in 1 .. Len(stream)
    PROVE  /\ stream[i].size \in Nat
           /\ stream[i].object \in BOOLEAN
           /\ stream[i].size = 0 => ~stream[i].object
<1>1. stream[i] \in Line
  OBVIOUS
<1> QED
  BY <1>1, SizesAssumption DEF Line

\* A buffer that begins with a line shows each blank one as blank.
LEMMA BlanksAreSeen ==
    ASSUME stream \in Seq(Line), NEW first \in 1 .. Len(stream) + 1,
           NEW last \in first - 1 .. Len(stream)
    PROVE  Blanks(first, last, Ends[first - 1]) = BlanksIn(first, last)
<1> DEFINE b == Ends[first - 1]
<1>1. ASSUME NEW i \in first .. last
      PROVE  Ends[i] - 1 = (IF b <= Ends[i - 1] THEN Ends[i - 1] ELSE b) <=> stream[i].size = 0
  <2>1. i \in 1 .. Len(stream) /\ i - 1 \in 0 .. Len(stream) /\ first - 1 \in 0 .. Len(stream)
        /\ (first - 1 = i - 1 \/ first - 1 < i - 1)
    OBVIOUS
  <2>2. Ends[i - 1] \in Nat /\ b \in Nat /\ stream[i].size \in Nat
        /\ Ends[i] = Ends[i - 1] + stream[i].size + 1
    BY <2>1, EndsSteps, EndsType
  <2>3. first - 1 < i - 1 => b < Ends[i - 1]
    BY <2>1, EndsGrow
  <2>4. CASE first - 1 = i - 1
    BY <2>2, <2>4
  <2>5. CASE first - 1 < i - 1
    BY <2>2, <2>3, <2>5
  <2> QED
    BY <2>1, <2>4, <2>5
<1> QED
  BY <1>1 DEF Blanks, BlanksIn

\* Blank lines are counted interval by interval, and are not objects.
LEMMA LinesAddUp ==
    ASSUME stream \in Seq(Line), NEW first \in 1 .. Len(stream) + 1,
           NEW last \in first - 1 .. Len(stream)
    PROVE  /\ Cardinality(BlanksIn(1, last)) \in Nat
           /\ Cardinality(BlanksIn(first, last)) \in Nat
           /\ Cardinality(BlanksIn(1, first - 1)) \in Nat
           /\ Cardinality(BlanksIn(1, last))
              = Cardinality(BlanksIn(1, first - 1)) + Cardinality(BlanksIn(first, last))
           /\ Cardinality(ObjectsIn(first, last)) \in Nat
           /\ Cardinality(ObjectsIn(first, last)) + Cardinality(BlanksIn(first, last))
              <= last - first + 1
<1> DEFINE A == BlanksIn(1, first - 1)  B == BlanksIn(first, last)  C == ObjectsIn(first, last)
<1>1. first \in Nat /\ last \in Int /\ first - 1 \in Int /\ 1 \in Nat
  OBVIOUS
<1>2. IsFiniteSet(A) /\ IsFiniteSet(B) /\ IsFiniteSet(C) /\ IsFiniteSet(BlanksIn(1, last))
      /\ IsFiniteSet(first .. last)
  BY <1>1, IntervalsAreFinite
<1>3. A \cup B = BlanksIn(1, last) /\ A \cap B = {}
  BY DEF BlanksIn
<1>4. C \cap B = {} /\ C \cup B \in SUBSET (first .. last)
  <2>1. ASSUME NEW i \in first .. last PROVE stream[i].size = 0 => ~stream[i].object
    <3>1. i \in 1 .. Len(stream)
      OBVIOUS
    <3> QED
      BY <3>1, LineIs
  <2> QED
    BY <2>1 DEF BlanksIn, ObjectsIn
<1>5. Cardinality(first .. last) = last - first + 1
  <2>1. Cardinality(first .. last) = IF first > last THEN 0 ELSE last - first + 1
    BY <1>1, FS_Interval
  <2> QED
    BY <1>1, <2>1
<1>6. Cardinality(A) \in Nat /\ Cardinality(B) \in Nat /\ Cardinality(C) \in Nat
      /\ Cardinality(BlanksIn(1, last)) \in Nat /\ Cardinality({}) = 0
  BY <1>2, FS_CardinalityType, FS_EmptySet
<1>7. Cardinality(A \cup B) = Cardinality(A) + Cardinality(B) - Cardinality(A \cap B)
  BY <1>2, FS_Union
<1>8. Cardinality(C \cup B) = Cardinality(C) + Cardinality(B) - Cardinality(C \cap B)
  BY <1>2, FS_Union
<1>9. Cardinality(C \cup B) <= Cardinality(first .. last)
  BY <1>2, <1>4, FS_Subset
<1> HIDE DEF A, B, C
<1>10. Cardinality(BlanksIn(1, last)) = Cardinality(A) + Cardinality(B)
  <2>1. Cardinality(A \cup B) = Cardinality(BlanksIn(1, last)) /\ Cardinality(A \cap B) = 0
    BY <1>3, <1>6
  <2> QED
    BY <1>6, <1>7, <2>1
<1>11. Cardinality(C) + Cardinality(B) <= last - first + 1
  <2>1. Cardinality(C \cap B) = 0
    BY <1>4, <1>6
  <2>2. Cardinality(C \cup B) = Cardinality(C) + Cardinality(B)
    BY <1>6, <1>8, <2>1
  <2> QED
    BY <1>5, <1>9, <2>2
<1> QED
  BY <1>6, <1>10, <1>11 DEF A, B, C

-----------------------------------------------------------------------------
\* The frames g and the count d account for the first c lines.
Told(g, d, c) ==
    /\ g \in Seq(Nat) /\ d \in Nat
    /\ \A k \in 2 .. Len(g) : g[k - 1] < g[k]
    /\ \A k \in 1 .. Len(g) : g[k] \in ObjectsIn(1, c)
    /\ \A i \in ObjectsIn(1, c) : stream[i].size <= limit => \E k \in 1 .. Len(g) : g[k] = i
    /\ d + Len(g) + Cardinality(BlanksIn(1, c)) = c

\* What a line too long leaves when the reader has skipped it: a loss counted,
\* nothing returned.
LEMMA SkippedIsTold ==
    ASSUME stream \in Seq(Line), limit \in Nat, NEW c \in Nat, c + 1 \in 1 .. Len(stream),
           stream[c + 1].size > limit, NEW g, NEW d, Told(g, d, c)
    PROVE  Told(g, d + 1, c + 1)
<1>1. stream[c + 1].size \in Nat /\ stream[c + 1].size # 0
  BY LineIs
<1>2. BlanksIn(1, c + 1) = BlanksIn(1, c)
  BY <1>1 DEF BlanksIn
<1>3. \A i \in ObjectsIn(1, c + 1) : i \in ObjectsIn(1, c) \/ i = c + 1
  BY DEF ObjectsIn
<1>4. ObjectsIn(1, c) \subseteq ObjectsIn(1, c + 1)
  BY DEF ObjectsIn
<1>5. ~(stream[c + 1].size <= limit)
  BY <1>1
<1>6. Cardinality(BlanksIn(1, c)) \in Nat
  BY IntervalsAreFinite, FS_CardinalityType
<1>7. g \in Seq(Nat) /\ d \in Nat /\ Len(g) \in Nat
      /\ d + Len(g) + Cardinality(BlanksIn(1, c)) = c
  BY DEF Told
<1>8. d + 1 + Len(g) + Cardinality(BlanksIn(1, c + 1)) = c + 1 /\ d + 1 \in Nat
  BY <1>2, <1>6, <1>7
<1> QED
  BY <1>3, <1>4, <1>5, <1>7, <1>8 DEF Told

\* What a run of whole lines leaves: each is returned, or blank, or counted.
LEMMA CutIsTold ==
    ASSUME stream \in Seq(Line), NEW first \in 1 .. Len(stream) + 1,
           NEW last \in first - 1 .. Len(stream), NEW g, NEW d, Told(g, d, first - 1)
    PROVE  LET s == Objects(first, last, Ends[first - 1])
           IN  Told(g \o s, d + (last - first + 1) - Len(s)
                            - Cardinality(Blanks(first, last, Ends[first - 1])), last)
<1> DEFINE s == Objects(first, last, Ends[first - 1])
           t == g \o s
           lost == d + (last - first + 1) - Len(s) - Cardinality(BlanksIn(first, last))
<1>1. Picked(s, first, last)
  BY ObjectsArePicked
<1> HIDE DEF s
<1>2. s \in Seq(Nat) /\ g \in Seq(Nat) /\ Len(s) \in Nat /\ Len(g) \in Nat /\ d \in Nat
  BY <1>1 DEF Picked, Told
<1>3. /\ t \in Seq(Nat) /\ Len(t) = Len(g) + Len(s)
      /\ \A k \in 1 .. Len(t) : t[k] = IF k <= Len(g) THEN g[k] ELSE s[k - Len(g)]
  BY <1>2, ConcatProperties
<1> HIDE DEF t
<1>4. ObjectsIn(1, last) = ObjectsIn(1, first - 1) \cup ObjectsIn(first, last)
  BY DEF ObjectsIn
<1>5. ASSUME NEW k \in 1 .. Len(t) PROVE t[k] \in ObjectsIn(1, last)
  <2>1. CASE k <= Len(g)
    <3>1. k \in 1 .. Len(g)
      BY <1>2, <1>3, <2>1
    <3>2. g[k] \in ObjectsIn(1, first - 1)
      BY <3>1 DEF Told
    <3> QED
      BY <1>3, <1>4, <2>1, <3>2
  <2>2. CASE ~(k <= Len(g))
    <3>1. k - Len(g) \in 1 .. Len(s)
      BY <1>2, <1>3, <2>2
    <3> QED
      BY <1>1, <1>3, <1>4, <2>2, <3>1 DEF Picked
  <2> QED
    BY <2>1, <2>2
<1>6. ASSUME NEW k \in 2 .. Len(t) PROVE t[k - 1] < t[k]
  <2>0. k \in 1 .. Len(t) /\ k - 1 \in 1 .. Len(t) /\ k \in Nat
    BY <1>2, <1>3
  <2>1. CASE k <= Len(g)
    <3>1. k \in 2 .. Len(g) /\ k - 1 <= Len(g)
      BY <1>2, <2>0, <2>1
    <3> QED
      BY <1>3, <2>0, <2>1, <3>1 DEF Told
  <2>2. CASE k = Len(g) + 1
    <3>1. k - 1 \in 1 .. Len(g) /\ k - 1 <= Len(g) /\ ~(k <= Len(g)) /\ k - Len(g) \in 1 .. Len(s)
      BY <1>2, <1>3, <2>0, <2>2
    <3>2. g[k - 1] \in 1 .. first - 1
      BY <3>1 DEF Told, ObjectsIn
    <3>3. s[k - Len(g)] \in first .. last
      BY <1>1, <3>1 DEF Picked, ObjectsIn
    <3>4. t[k - 1] = g[k - 1] /\ t[k] = s[k - Len(g)]
      BY <1>3, <2>0, <3>1
    <3>5. g[k - 1] < s[k - Len(g)]
      BY <3>2, <3>3
    <3> QED
      BY <3>4, <3>5
  <2>3. CASE k > Len(g) + 1
    <3> DEFINE j == k - Len(g)
    <3>1. j \in 2 .. Len(s) /\ ~(k <= Len(g)) /\ ~(k - 1 <= Len(g)) /\ (k - 1) - Len(g) = j - 1
      <4>1. \A i, x, y \in Int :
               i > x + 1 /\ i <= x + y => /\ i - x >= 2 /\ i - x <= y /\ ~(i <= x) /\ ~(i - 1 <= x)
                                         /\ (i - 1) - x = (i - x) - 1
        OBVIOUS
      <4>2. k \in Int /\ Len(g) \in Int /\ Len(s) \in Int /\ k <= Len(g) + Len(s)
        BY <1>2, <1>3, <2>0
      <4>3. /\ j >= 2 /\ j <= Len(s) /\ ~(k <= Len(g)) /\ ~(k - 1 <= Len(g))
            /\ (k - 1) - Len(g) = j - 1
        BY <2>3, <4>1, <4>2
      <4>4. j \in Int
        BY <4>2
      <4> HIDE DEF j
      <4> QED
        BY <4>2, <4>3, <4>4
    <3>2. s[j - 1] < s[j]
      BY <1>1, <3>1 DEF Picked
    <3>3. t[k] = s[j] /\ t[k - 1] = s[j - 1]
      BY <1>3, <2>0, <3>1
    <3> QED
      BY <3>2, <3>3
  <2> QED
    BY <1>2, <2>0, <2>1, <2>2, <2>3
<1>7. ASSUME NEW i \in ObjectsIn(1, last), stream[i].size <= limit
      PROVE  \E k \in 1 .. Len(t) : t[k] = i
  <2>1. CASE i \in ObjectsIn(1, first - 1)
    <3>1. PICK k \in 1 .. Len(g) : g[k] = i
      BY <1>7, <2>1 DEF Told
    <3>2. k \in 1 .. Len(t) /\ k <= Len(g)
      BY <1>2, <1>3, <3>1
    <3> QED
      BY <1>3, <3>1, <3>2
  <2>2. CASE i \in ObjectsIn(first, last)
    <3>1. PICK k \in 1 .. Len(s) : s[k] = i
      BY <1>1, <2>2 DEF Picked
    <3>2. k + Len(g) \in 1 .. Len(t) /\ ~(k + Len(g) <= Len(g)) /\ (k + Len(g)) - Len(g) = k
      <4>1. k \in Nat /\ 1 <= k /\ k <= Len(s) /\ Len(t) = Len(g) + Len(s)
        BY <1>2, <1>3, <3>1
      <4> QED
        BY <1>2, <4>1
    <3>3. t[k + Len(g)] = i
      BY <1>3, <3>1, <3>2
    <3> QED
      BY <3>2, <3>3
  <2> QED
    BY <1>4, <2>1, <2>2
<1>8. lost \in Nat /\ lost + Len(t) + Cardinality(BlanksIn(1, last)) = last
  <2>1. Len(s) = Cardinality(ObjectsIn(first, last))
    BY <1>1 DEF Picked
  <2> DEFINE all == Cardinality(BlanksIn(1, last))
             old == Cardinality(BlanksIn(1, first - 1))
             new == Cardinality(BlanksIn(first, last))
  <2>2. d + Len(g) + old = first - 1
    BY DEF Told
  <2>3. /\ all \in Nat /\ old \in Nat /\ new \in Nat /\ all = old + new
        /\ Len(s) + new <= last - first + 1
    BY <2>1, LinesAddUp
  <2>4. Len(t) = Len(g) + Len(s) /\ first \in Int /\ last \in Int
    BY <1>3
  <2> HIDE DEF all, old, new
  <2>5. d + (last - first + 1) - Len(s) - new \in Nat
    BY <1>2, <2>3, <2>4
  <2>6. (d + (last - first + 1) - Len(s) - new) + Len(t) + all = last
    <3>1. \A c, x, y, u, v, f, n \in Int :
             c + x + u = f - 1 => (c + (n - f + 1) - y - v) + (x + y) + (u + v) = n
      OBVIOUS
    <3>2. d \in Int /\ Len(g) \in Int /\ Len(s) \in Int /\ old \in Int /\ new \in Int
      BY <1>2, <2>3
    <3>3. (d + (last - first + 1) - Len(s) - new) + (Len(g) + Len(s)) + (old + new) = last
      BY <2>2, <2>4, <3>1, <3>2
    <3> QED
      BY <2>3, <2>4, <3>3
  <2> QED
    BY <2>5, <2>6 DEF new, all
<1>9. Told(t, lost, last)
  BY <1>3, <1>5, <1>6, <1>7, <1>8 DEF Told
<1> QED
  BY <1>9, BlanksAreSeen DEF t, s

-----------------------------------------------------------------------------
\* One lost frame is counted before its line is complete, while the reader
\* skips it.
Ahead == IF resyncing THEN 1 ELSE 0

\* The buffer begins with the first line that is not complete; or what there
\* is of that line is too long and has been dropped.  Everything before it is
\* accounted for.
FramingInv ==
    /\ stream \in Seq(Line) /\ limit \in Nat
    /\ fed \in 0 .. Ends[Len(stream)]
    /\ resyncing \in BOOLEAN /\ dropped \in Nat
    /\ Told(got, dropped - Ahead, LinesBefore(fed))
    /\ IF resyncing THEN begin = fed /\ fed - Ends[LinesBefore(fed)] > limit
                    ELSE begin = Ends[LinesBefore(fed)] /\ fed - begin <= limit

\* What is computed of the stream stays while the stream does.
LEMMA EndsKept == ASSUME UNCHANGED stream PROVE Ends' = Ends
BY DEF Ends

LEMMA LinesKept == ASSUME UNCHANGED stream PROVE LinesBefore(fed)' = LinesBefore(fed')
BY EndsKept DEF LinesBefore

LEMMA ToldKept ==
    ASSUME UNCHANGED <<stream, limit>>, Told(got', dropped' - Ahead', LinesBefore(fed'))
    PROVE  Told(got, dropped - Ahead, LinesBefore(fed))'
BY LinesKept DEF Told, ObjectsIn, BlanksIn

\* The invariant, from what a step makes of each of its parts.
LEMMA InvKept ==
    ASSUME UNCHANGED <<stream, limit>>, stream \in Seq(Line), limit \in Nat,
           fed' \in 0 .. Ends[Len(stream)], resyncing' \in BOOLEAN, dropped' \in Nat,
           Told(got', dropped' - Ahead', LinesBefore(fed')),
           IF resyncing' THEN begin' = fed' /\ fed' - Ends[LinesBefore(fed')] > limit
                         ELSE begin' = Ends[LinesBefore(fed')] /\ fed' - begin' <= limit
    PROVE  FramingInv'
<1>1. Told(got, dropped - Ahead, LinesBefore(fed))'
  BY ToldKept
<1>2. Ends' = Ends /\ LinesBefore(fed)' = LinesBefore(fed')
  BY EndsKept, LinesKept
<1>3. IF resyncing' THEN begin' = fed' /\ fed' - Ends'[LinesBefore(fed)'] > limit'
                    ELSE begin' = Ends'[LinesBefore(fed)'] /\ fed' - begin' <= limit'
  BY <1>2
<1>4. stream' \in Seq(Line) /\ limit' \in Nat /\ fed' \in 0 .. Ends'[Len(stream')]
  BY <1>2
<1> QED
  BY <1>1, <1>3, <1>4 DEF FramingInv

\* Cutting what the buffer holds up to an offset, when all before it is
\* accounted for.
LEMMA CutStep ==
    ASSUME UNCHANGED <<stream, limit>>, stream \in Seq(Line), limit \in Nat,
           fed' \in 0 .. Ends[Len(stream)],
           NEW first \in 1 .. Len(stream) + 1, NEW last \in first - 1 .. Len(stream),
           last = LinesBefore(fed'), Told(got, dropped, first - 1),
           Cut(first, last, Ends[first - 1], fed')
    PROVE  FramingInv'
<1> DEFINE s == Objects(first, last, Ends[first - 1])
           blanks == Cardinality(Blanks(first, last, Ends[first - 1]))
           lost == dropped + (last - first + 1) - Len(s) - blanks
           over == fed' - Ends[last] > limit
<1>1. Told(got \o s, lost, last)
  BY CutIsTold
<1>2. (IF first <= last THEN Ends[last] ELSE Ends[first - 1]) = Ends[last]
  <2>1. CASE first <= last
    BY <2>1
  <2>2. CASE ~(first <= last)
    <3>1. first - 1 = last
      BY <2>2
    <3> QED
      BY <2>2, <3>1
  <2> QED
    BY <2>1, <2>2
<1>3. /\ got' = got \o s
      /\ begin' = IF over THEN fed' ELSE Ends[last]
      /\ resyncing' = over
      /\ dropped' = lost + (IF over THEN 1 ELSE 0)
  BY <1>2 DEF Cut
<1>4. lost \in Nat
  BY <1>1 DEF Told
<1> HIDE DEF s, lost, blanks
<1>5. Ends[last] \in Nat /\ Ends[Len(stream)] \in Nat
  BY EndsType
<1>6. fed' \in Nat
  BY <1>5
<1>7. CASE over
  <2>1. resyncing' = TRUE /\ begin' = fed' /\ dropped' = lost + 1 /\ fed' - Ends[last] > limit
    BY <1>3, <1>7
  <2>2. Ahead' = 1
    BY <2>1 DEF Ahead
  <2>3. dropped' - Ahead' = lost /\ dropped' \in Nat
    BY <1>4, <2>1, <2>2
  <2>4. Told(got', dropped' - Ahead', LinesBefore(fed'))
    BY <1>1, <1>3, <2>3
  <2>5. resyncing' \in BOOLEAN /\ resyncing' /\ begin' = fed'
        /\ fed' - Ends[LinesBefore(fed')] > limit
    BY <2>1
  <2> QED
    BY <2>3, <2>4, <2>5, InvKept
<1>8. CASE ~over
  <2>1. resyncing' = FALSE /\ begin' = Ends[last] /\ dropped' = lost + 0
        /\ ~(fed' - Ends[last] > limit)
    <3>1. resyncing' = over /\ over \in BOOLEAN
      BY <1>3
    <3>2. begin' = Ends[last] /\ dropped' = lost + 0
      BY <1>3, <1>8
    <3>3. ~(fed' - Ends[last] > limit)
      BY <1>8
    <3> HIDE DEF over
    <3>4. resyncing' = FALSE
      BY <1>8, <3>1
    <3> QED
      BY <3>2, <3>3, <3>4
  <2>2. Ahead' = 0
    BY <2>1 DEF Ahead
  <2>3. dropped' - Ahead' = lost /\ dropped' \in Nat /\ fed' - begin' <= limit
    BY <1>4, <1>5, <1>6, <2>1, <2>2
  <2>4. Told(got', dropped' - Ahead', LinesBefore(fed'))
    BY <1>1, <1>3, <2>3
  <2> QED
    BY <2>1, <2>3, <2>4, InvKept
<1> QED
  BY <1>7, <1>8

\* feed keeps the invariant, wherever its chunk begins and ends.
LEMMA FeedStep == ASSUME FramingInv, NEW n \in 1 .. Ends[Len(stream)] - fed, Feed(n)
                  PROVE  FramingInv'
<1> DEFINE before == LinesBefore(fed)  after == LinesBefore(fed + n)  N == Len(stream)
<1>1. /\ stream \in Seq(Line) /\ limit \in Nat /\ dropped \in Nat /\ N \in Nat
      /\ fed \in 0 .. Ends[N] /\ resyncing \in BOOLEAN
      /\ Told(got, dropped - Ahead, before)
      /\ IF resyncing THEN begin = fed /\ fed - Ends[before] > limit
                      ELSE begin = Ends[before] /\ fed - begin <= limit
  BY DEF FramingInv
<1>2. Ends[N] \in Nat
  BY <1>1, EndsType
<1>3. fed \in Nat /\ fed + n \in Nat /\ n \in Nat /\ fed + n \in 0 .. Ends[N] /\ fed < fed + n
  BY <1>1, <1>2
<1>4. fed' = fed + n /\ UNCHANGED <<stream, limit>>
  BY DEF Feed
<1>5. /\ before \in 0 .. N /\ after \in 0 .. N
      /\ Ends[before] <= fed /\ Ends[after] <= fed + n
      /\ \A i \in 0 .. N : Ends[i] <= fed <=> i <= before
  BY <1>1, <1>3, LinesBeforeIs
<1>6. \A i \in 0 .. N : Ends[i] <= fed + n <=> i <= after
  BY <1>1, <1>3, LinesBeforeIs
<1>7. before <= after
  <2>1. Ends[before] \in Nat
    BY <1>1, <1>5, EndsType
  <2>2. Ends[before] <= fed + n
    BY <1>3, <1>5, <2>1
  <2> QED
    BY <1>5, <1>6, <2>2
<1>8. (IF resyncing THEN IF before = after
                         THEN begin' = fed' /\ UNCHANGED <<resyncing, dropped, got>>
                         ELSE Cut(before + 2, after, Ends[before + 1], fed')
       ELSE Cut(before + 1, after, begin, fed'))
  BY DEF Feed
<1>9. LinesBefore(fed') = after
  BY <1>4
<1> HIDE DEF before, after
<1>10. CASE ~resyncing
  <2>1. Ahead = 0 /\ begin = Ends[before] /\ dropped - Ahead = dropped
    BY <1>1, <1>10 DEF Ahead
  <2>2. before + 1 \in 1 .. N + 1 /\ (before + 1) - 1 = before /\ after \in (before + 1) - 1 .. N
    BY <1>1, <1>5, <1>7
  <2>3. Told(got, dropped, (before + 1) - 1)
    BY <1>1, <2>1, <2>2
  <2>4. Cut(before + 1, after, Ends[(before + 1) - 1], fed')
    <3>1. Cut(before + 1, after, begin, fed')
      BY <1>8, <1>10
    <3>2. begin = Ends[(before + 1) - 1]
      BY <2>1, <2>2
    <3> QED
      BY <3>1, <3>2
  <2> QED
    BY <1>1, <1>3, <1>4, <1>9, <2>2, <2>3, <2>4, CutStep
<1>11. CASE resyncing /\ before = after
  <2>1. begin' = fed' /\ resyncing' = resyncing /\ dropped' = dropped /\ got' = got
    BY <1>8, <1>11
  <2>2. Ahead' = Ahead
    BY <2>1 DEF Ahead
  <2>3. fed' - Ends[after] > limit
    <3>1. Ends[before] \in Nat /\ fed - Ends[before] > limit
      BY <1>1, <1>5, <1>11, EndsType
    <3> QED
      BY <1>1, <1>3, <1>4, <1>11, <3>1
  <2>4. Told(got', dropped' - Ahead', LinesBefore(fed'))
    BY <1>1, <1>9, <1>11, <2>1, <2>2
  <2> QED
    BY <1>1, <1>3, <1>4, <1>9, <1>11, <2>1, <2>3, <2>4, InvKept
<1>12. CASE resyncing /\ before # after
  <2>1. Ahead = 1
    BY <1>12 DEF Ahead
  <2>2. /\ before + 1 \in 1 .. N /\ before \in Nat /\ before + 2 \in 1 .. N + 1
        /\ (before + 2) - 1 = before + 1 /\ (before + 1) - 1 = before
        /\ after \in (before + 2) - 1 .. N
    BY <1>1, <1>5, <1>7, <1>12
  <2>3. stream[before + 1].size > limit
    <3>1. /\ Ends[before + 1] = Ends[before] + stream[before + 1].size + 1
          /\ stream[before + 1].size \in Nat /\ Ends[before] \in Nat
      BY <1>1, <1>5, <2>2, EndsSteps, EndsType
    <3>2. ~(Ends[before + 1] <= fed)
      BY <1>5, <2>2
    <3>3. fed - Ends[before] > limit
      BY <1>1, <1>12
    <3> QED
      BY <1>1, <1>3, <3>1, <3>2, <3>3
  <2>4. Told(got, (dropped - Ahead) + 1, before + 1)
    BY <1>1, <2>2, <2>3, SkippedIsTold
  <2>5. (dropped - Ahead) + 1 = dropped
    BY <1>1, <2>1
  <2>6. Told(got, dropped, (before + 2) - 1) /\ Cut(before + 2, after, Ends[(before + 2) - 1], fed')
    BY <1>8, <1>12, <2>2, <2>4, <2>5
  <2> QED
    BY <1>1, <1>3, <1>4, <1>9, <2>2, <2>6, CutStep
<1> QED
  BY <1>1, <1>10, <1>11, <1>12

LEMMA FramingStart == FramingInit => FramingInv
<1> SUFFICES ASSUME FramingInit PROVE FramingInv
  OBVIOUS
<1>1. /\ limit \in Limits /\ fed = 0 /\ begin = 0 /\ resyncing = FALSE
      /\ dropped = 0 /\ got = <<>>
  BY DEF FramingInit
<1>2. stream \in Seq(Line) /\ limit \in Nat
  <2>1. PICK n \in 0 .. MaxLines : stream \in [1 .. n -> Line]
    BY DEF FramingInit
  <2>2. n \in Nat
    BY LinesBound
  <2> QED
    BY <1>1, <2>1, <2>2, LimitsAssumption
<1>3. LinesBefore(0) = 0 /\ Ends[0] = 0 /\ Ends[Len(stream)] \in Nat
  <2>1. Len(stream) \in Nat /\ LinesBefore(0) \in 0 .. Len(stream)
        /\ Ends[LinesBefore(0)] <= 0 /\ Ends[0] = 0
    BY <1>2, LinesBeforeIs, EndsSteps
  <2>2. 0 < LinesBefore(0) => Ends[0] < Ends[LinesBefore(0)]
    BY <1>2, <2>1, EndsGrow
  <2>3. Ends[LinesBefore(0)] \in Nat /\ Ends[Len(stream)] \in Nat
    BY <1>2, <2>1, EndsType
  <2> QED
    BY <2>1, <2>2, <2>3
<1>4. Ahead = 0
  BY <1>1 DEF Ahead
<1>5. Told(got, dropped - Ahead, LinesBefore(fed))
  <2>1. ObjectsIn(1, 0) = {} /\ BlanksIn(1, 0) = {} /\ 1 .. 0 = {} /\ 2 .. 0 = {}
    BY DEF ObjectsIn, BlanksIn
  <2>2. got \in Seq(Nat) /\ Len(got) = 0 /\ dropped - Ahead = 0 /\ LinesBefore(fed) = 0
    BY <1>1, <1>3, <1>4
  <2>3. Told(got, 0, 0)
    BY <2>1, <2>2, FS_EmptySet DEF Told
  <2> QED
    BY <2>2, <2>3
<1>6. fed \in 0 .. Ends[Len(stream)] /\ Ends[LinesBefore(fed)] = 0
  BY <1>1, <1>3
<1>7. begin = Ends[LinesBefore(fed)] /\ fed - begin <= limit
  BY <1>1, <1>2, <1>6
<1>8. resyncing = FALSE /\ dropped \in Nat
  BY <1>1
<1> QED
  BY <1>2, <1>5, <1>6, <1>7, <1>8 DEF FramingInv

LEMMA FramingInvariant == FramingSpec => []FramingInv
<1>1. FramingInv /\ [FramingNext]_framingVars => FramingInv'
  <2> SUFFICES ASSUME FramingInv, [FramingNext]_framingVars PROVE FramingInv'
    OBVIOUS
  <2>1. CASE \E n \in 1 .. Ends[Len(stream)] - fed : Feed(n)
    BY <2>1, FeedStep
  <2>2. CASE UNCHANGED framingVars
    <3>1. Ahead' = Ahead
      BY <2>2 DEF framingVars, Ahead
    <3> QED
      BY <2>2, <3>1, InvKept DEF framingVars, FramingInv
  <2> QED
    BY <2>1, <2>2 DEF FramingNext, EndOfStream
<1> QED
  BY <1>1, FramingStart, PTL DEF FramingSpec

\* Between chunks the buffer holds at most the limit, whatever came in, for
\* every stream and every limit.
THEOREM FramingTypeCorrect == FramingSpec => []FramingTypeOK
<1>1. FramingInv => FramingTypeOK
  <2> SUFFICES ASSUME FramingInv PROVE FramingTypeOK
    OBVIOUS
  <2> DEFINE c == LinesBefore(fed)
  <2>1. /\ stream \in Seq(Line) /\ limit \in Nat /\ resyncing \in BOOLEAN /\ dropped \in Nat
        /\ fed \in 0 .. Ends[Len(stream)] /\ Ends[Len(stream)] \in Nat
        /\ Told(got, dropped - Ahead, c)
    BY EndsType DEF FramingInv
  <2>2. fed \in Nat /\ c \in 0 .. Len(stream) /\ Ends[c] \in Nat /\ Ends[c] <= fed
    <3>1. fed \in Nat
      BY <2>1
    <3>2. c \in 0 .. Len(stream) /\ Ends[c] <= fed
      BY <2>1, <3>1, LinesBeforeIs
    <3> QED
      BY <2>1, <3>1, <3>2, EndsType
  <2>3. begin \in 0 .. fed /\ fed - begin <= limit /\ (resyncing => begin = fed)
    BY <2>1, <2>2 DEF FramingInv
  <2>4. ASSUME NEW k \in 1 .. Len(got) PROVE got[k] \in 1 .. Len(stream)
    <3>1. got[k] \in 1 .. c
      BY <2>1 DEF Told, ObjectsIn
    <3> QED
      BY <2>2, <3>1
  <2> QED
    BY <2>1, <2>3, <2>4 DEF FramingTypeOK
<1> QED
  BY <1>1, FramingInvariant, PTL

\* Every frame within the limit is returned, once and in order, by the time
\* its line is complete, however the stream is divided into chunks and
\* whatever is dropped around it; and nothing that was not written is.
THEOREM WithinLimitArrivesHolds == FramingSpec => []WithinLimitArrives
<1>1. FramingInv => WithinLimitArrives
  <2> SUFFICES ASSUME FramingInv PROVE WithinLimitArrives
    OBVIOUS
  <2> DEFINE c == LinesBefore(fed)
  <2>1. /\ stream \in Seq(Line) /\ fed \in Nat
        /\ Told(got, dropped - Ahead, c)
    BY EndsType DEF FramingInv
  <2>2. c \in 0 .. Len(stream) /\ \A i \in 0 .. Len(stream) : Ends[i] <= fed <=> i <= c
    BY <2>1, LinesBeforeIs
  <2>3. ASSUME NEW k \in 1 .. Len(got) PROVE stream[got[k]].object /\ Ends[got[k]] <= fed
    <3>1. got[k] \in 1 .. c /\ stream[got[k]].object
      BY <2>1 DEF Told, ObjectsIn
    <3>2. got[k] \in 0 .. Len(stream) /\ got[k] <= c
      BY <2>2, <3>1
    <3> QED
      BY <2>2, <3>1, <3>2
  <2>4. ASSUME NEW i \in 1 .. c, stream[i].object, stream[i].size <= limit
        PROVE  \E k \in 1 .. Len(got) : got[k] = i
    BY <2>1, <2>4 DEF Told, ObjectsIn
  <2>5. \A k \in 2 .. Len(got) : got[k - 1] < got[k]
    BY <2>1 DEF Told
  <2>6. ASSUME NEW i \in 1 .. LinesBefore(fed)
        PROVE  stream[i].object /\ stream[i].size <= limit => \E k \in 1 .. Len(got) : got[k] = i
    BY <2>4
  <2> HIDE DEF c
  <2> QED
    BY <2>3, <2>5, <2>6 DEF WithinLimitArrives
<1> QED
  BY <1>1, FramingInvariant, PTL

\* Every line is returned, blank, or counted as lost, and none twice; one too
\* long is counted when it is given up, which may be before its end is in.
THEOREM LossIsCountedHolds == FramingSpec => []LossIsCounted
<1>1. FramingInv => LossIsCounted
  <2> SUFFICES ASSUME FramingInv PROVE LossIsCounted
    OBVIOUS
  <2> DEFINE c == LinesBefore(fed)
  <2>1. /\ stream \in Seq(Line) /\ fed \in Nat /\ dropped \in Nat
        /\ Told(got, dropped - Ahead, c)
    BY EndsType DEF FramingInv
  <2>2. c \in Nat
    BY <2>1, LinesBeforeIs
  <2>3. Cardinality(1 .. c) = c
    <3>1. Cardinality(1 .. c) = IF 1 > c THEN 0 ELSE c - 1 + 1
      BY <2>2, FS_Interval
    <3> QED
      BY <2>2, <3>1
  <2> DEFINE blanks == Cardinality(BlanksIn(1, c))
  <2>4. blanks \in Nat /\ Len(got) \in Nat /\ (dropped - Ahead) + Len(got) + blanks = c
    BY <2>1, <2>2, IntervalsAreFinite, FS_CardinalityType DEF Told
  <2>5. Ahead \in {0, 1} /\ Ahead = IF resyncing THEN 1 ELSE 0
    BY DEF Ahead
  <2>6. blanks = Cardinality({i \in 1 .. c : stream[i].size = 0})
    BY DEF BlanksIn
  <2> HIDE DEF c, blanks
  <2>7. dropped + Len(got) + blanks = Cardinality(1 .. c) + Ahead
    <3>1. \A d, a, g, b, n \in Int : (d - a) + g + b = n => d + g + b = n + a
      OBVIOUS
    <3>2. dropped \in Int /\ Ahead \in Int /\ Len(got) \in Int /\ blanks \in Int /\ c \in Int
      BY <2>1, <2>2, <2>4, <2>5
    <3>3. dropped + Len(got) + blanks = c + Ahead
      BY <2>4, <3>1, <3>2
    <3> QED
      BY <2>3, <3>3
  <2> QED
    BY <2>5, <2>6, <2>7 DEF LossIsCounted, c
<1> QED
  BY <1>1, FramingInvariant, PTL

=============================================================================
