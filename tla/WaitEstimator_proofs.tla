------------------------- MODULE WaitEstimator_proofs -------------------------
(***************************************************************************)
(* The bisections of estimation/wait_estimator.py for any number of        *)
(* halvings, any running pods and any nondecreasing curves: they find the  *)
(* first time that passes their test, and the two estimates of a lane      *)
(* agree.                                                                  *)
(*                                                                         *)
(* The code's loops are folds.  Induction over a fold needs no induction   *)
(* theorem with an operator as its parameter: the numbers that satisfy a   *)
(* claim are a set, and the smallest that is not in it (WFMin) cannot      *)
(* exist (UpTo).                                                           *)
(***************************************************************************)
EXTENDS WaitEstimator, WellFoundedInduction, TLAPS

-----------------------------------------------------------------------------
(* Induction over an interval, and folds.                                  *)

(* A set with 0 and with every successor up to n has all numbers up to n.  *)
LEMMA UpTo ==
  ASSUME NEW n \in Nat, NEW T, 0 \in T,
         \A k \in 0..n : k \in T /\ k < n => k + 1 \in T
  PROVE  0..n \subseteq T
<1> DEFINE R == {ss \in Nat \X Nat : ss[1] < ss[2]}
           B == {k \in 0..n : k \notin T}
<1> SUFFICES ASSUME B # {} PROVE FALSE
  OBVIOUS
<1>1. IsWellFoundedOn(R, Nat) /\ B \subseteq Nat
  BY NatLessThanWellFounded DEF OpToRel
<1>2. PICK k \in B : \A i \in B : ~ (<<i, k>> \in R)
  <2> HIDE DEF R, B
  <2> QED BY <1>1, WFMin
<1>3. k \in 1..n
  OBVIOUS
<1>4. k - 1 \in 0..n /\ k - 1 < k /\ k - 1 < n
  BY <1>3
<1>5. k - 1 \notin B
  <2>1. <<k - 1, k>> \in R
    BY <1>3, <1>4
  <2> QED BY <1>2, <2>1
<1>6. k - 1 + 1 \in T
  BY <1>4, <1>5
<1> QED BY <1>3, <1>6

(* The greatest element of a set that has one.                             *)
LEMMA MaxIs ==
  ASSUME NEW s \in SUBSET Int, NEW m \in s, \A i \in s : i <= m
  PROVE  Max(s) = m
<1>1. \A i \in s : m >= i
  OBVIOUS
<1>2. Max(s) \in s /\ \A i \in s : Max(s) >= i
  BY <1>1 DEF Max
<1>3. Max(s) \in Int /\ Max(s) >= m /\ m >= Max(s)
  BY <1>1, <1>2
<1> QED BY <1>3

(* Target is the larger of two numbers.                                    *)
LEMMA MaxOfTwo ==
  ASSUME NEW a \in Int, NEW b \in Int
  PROVE  Max({a, b}) = IF a >= b THEN a ELSE b
<1>1. CASE a >= b
  BY <1>1, MaxIs
<1>2. CASE ~(a >= b)
  BY <1>2, MaxIs
<1> QED BY <1>1, <1>2

(* The first k indices without the last of them.                           *)
LEMMA Initial ==
  ASSUME NEW k \in Nat
  PROVE  /\ k > 0 => Max(1..k) = k /\ (1..k) \ {k} = 1..(k - 1) /\ 1..k # {}
         /\ k = 0 => 1..k = {}
<1>1. k > 0 => Max(1..k) = k
  <2>1. k > 0 => k \in 1..k /\ \A i \in 1..k : i <= k
    OBVIOUS
  <2>2. 1..k \in SUBSET Int
    OBVIOUS
  <2> QED BY <2>1, <2>2, MaxIs
<1> QED BY <1>1

(* h is the fold of g over the sets of numbers up to n, last number first. *)
IsFold(h, n, S, a, g) ==
  /\ h \in [SUBSET (1..n) -> S]
  /\ h[{}] = a
  /\ \A s \in SUBSET (1..n) :
       s # {} => Max(s) \in s /\ h[s] = g[<<Max(s), h[s \ {Max(s)}]>>]

(* A fold over the numbers up to n exists: what it is for the sets below k *)
(* tells what it is for those below k + 1.                                 *)
LEMMA FoldExists ==
  ASSUME NEW n \in Nat, NEW S, NEW a \in S, NEW g \in [(1..n) \X S -> S]
  PROVE  \E h : IsFold(h, n, S, a, g)
<1> DEFINE Tables == [SUBSET (1..n) -> S]
           Right(h, s) == IF s = {} THEN h[s] = a
                          ELSE Max(s) \in s /\ h[s] = g[<<Max(s), h[s \ {Max(s)}]>>]
           T == {k \in 0..n : \E h \in Tables : \A s \in SUBSET (1..k) : Right(h, s)}
<1>1. 0 \in T
  <2> DEFINE h == [s \in SUBSET (1..n) |-> a]
  <2>1. h \in Tables /\ \A s \in SUBSET (1..0) : h[s] = a /\ s = {}
    OBVIOUS
  <2> HIDE DEF h, Tables
  <2>2. \A s \in SUBSET (1..0) : Right(h, s)
    BY <2>1
  <2> HIDE DEF Right
  <2> QED BY <2>1, <2>2
<1>2. ASSUME NEW k \in 0..n, k \in T, k < n
      PROVE  k + 1 \in T
  <2>1. PICK h \in Tables : \A s \in SUBSET (1..k) : Right(h, s)
    BY <1>2
  <2> DEFINE h2 == [s \in SUBSET (1..n) |->
                      IF k + 1 \in s THEN g[<<k + 1, h[s \ {k + 1}]>>] ELSE h[s]]
  <2>2. k + 1 \in 1..n /\ SUBSET (1..k) \subseteq SUBSET (1..n)
        /\ SUBSET (1..(k + 1)) \subseteq SUBSET (1..n)
    BY <1>2
  <2>3. h2 \in Tables
    <3> SUFFICES ASSUME NEW s \in SUBSET (1..n) PROVE h2[s] \in S
      OBVIOUS
    <3>1. s \ {k + 1} \in SUBSET (1..n)
      OBVIOUS
    <3>2. h[s] \in S /\ h[s \ {k + 1}] \in S
      BY <3>1
    <3> QED BY <2>2, <3>2
  <2>4. ASSUME NEW s \in SUBSET (1..(k + 1))
        PROVE  Right(h2, s)
    <3>1. s \in SUBSET (1..n) /\ s \in SUBSET Int
      BY <2>2
    <3>2. CASE k + 1 \in s
      <4>1. \A i \in s : i <= k + 1
        OBVIOUS
      <4>2. Max(s) = k + 1
        BY <3>1, <3>2, <4>1, MaxIs
      <4>3. s \ {k + 1} \in SUBSET (1..n) /\ k + 1 \notin s \ {k + 1}
        BY <3>1
      <4>4. h2[s \ {k + 1}] = h[s \ {k + 1}]
        BY <4>3
      <4>5. h2[s] = g[<<k + 1, h[s \ {k + 1}]>>]
        BY <3>1, <3>2
      <4> HIDE DEF h2
      <4> QED BY <3>2, <4>2, <4>4, <4>5
    <3>3. CASE k + 1 \notin s
      <4>1. s \in SUBSET (1..k)
        BY <3>3
      <4>2. h2[s] = h[s] /\ Right(h, s)
        BY <2>1, <3>1, <3>3, <4>1
      <4>3. h2[s \ {Max(s)}] = h[s \ {Max(s)}]
        <5>1. s \ {Max(s)} \in SUBSET (1..n) /\ k + 1 \notin s \ {Max(s)}
          BY <3>1, <3>3
        <5> QED BY <5>1
      <4> HIDE DEF h2
      <4> QED BY <4>2, <4>3
    <3> QED BY <3>2, <3>3
  <2>5. k + 1 \in 0..n
    BY <2>2
  <2> HIDE DEF h2, Tables, Right
  <2> QED BY <2>3, <2>4, <2>5
<1>3. n \in T
  <2> HIDE DEF T
  <2>1. 0..n \subseteq T
    BY ONLY <1>1, <1>2, n \in Nat, UpTo
  <2> QED BY <2>1
<1>4. PICK h \in Tables : \A s \in SUBSET (1..n) : Right(h, s)
  BY <1>3
<1> QED BY <1>4 DEF IsFold

(* f unfolds like that wherever it has a value in S.                       *)
Unfolds(f, n, S, a, g) ==
  /\ f[{}] = a
  /\ \A s \in SUBSET (1..n) :
       s # {} /\ f[s \ {Max(s)}] \in S => f[s] = g[<<Max(s), f[s \ {Max(s)}]>>]

(* m[k] is what the loop has after k rounds, and last what it returns.     *)
IsTable(m, n, S, a, g, last) ==
  /\ m \in [0..n -> S]
  /\ m[0] = a /\ m[n] = last
  /\ \A k \in 1..n : m[k] = g[<<k, m[k - 1]>>]

(* What a fold is for the first k numbers, for k up to n.                  *)
LEMMA FoldTable ==
  ASSUME NEW n \in Nat, NEW S, NEW a \in S, NEW g \in [(1..n) \X S -> S], NEW f,
         Unfolds(f, n, S, a, g)
  PROVE  \E m : IsTable(m, n, S, a, g, f[1..n])
<1> DEFINE m == [k \in 0..n |-> f[1..k]]
           T == {k \in 0..n : f[1..k] \in S}
<1>1. f[1..0] = a
  BY Initial DEF Unfolds
<1>2. ASSUME NEW k \in 1..n, f[1..(k - 1)] \in S
      PROVE  f[1..k] = g[<<k, f[1..(k - 1)]>>]
  <2>1. 1..k \in SUBSET (1..n) /\ k \in Nat /\ k > 0
    OBVIOUS
  <2>2. Max(1..k) = k /\ (1..k) \ {Max(1..k)} = 1..(k - 1) /\ 1..k # {}
    BY <2>1, Initial
  <2>3. f[(1..k) \ {Max(1..k)}] \in S => f[1..k] = g[<<Max(1..k), f[(1..k) \ {Max(1..k)}]>>]
    BY <2>1, <2>2 DEF Unfolds
  <2> QED BY ONLY <1>2, <2>2, <2>3
<1>3. T = 0..n
  <2>1. 0 \in T
    BY <1>1
  <2>2. \A k \in 0..n : k \in T /\ k < n => k + 1 \in T
    <3> SUFFICES ASSUME NEW k \in 0..n, k \in T, k < n PROVE k + 1 \in T
      OBVIOUS
    <3>1. k + 1 \in 1..n /\ k + 1 - 1 = k /\ k + 1 \in 0..n
      OBVIOUS
    <3>2. f[1..(k + 1)] = g[<<k + 1, f[1..k]>>] /\ f[1..k] \in S
      BY <1>2, <3>1
    <3> QED BY <3>1, <3>2
  <2>3. T \subseteq 0..n
    OBVIOUS
  <2> HIDE DEF T
  <2>4. 0..n \subseteq T
    BY ONLY <2>1, <2>2, n \in Nat, UpTo
  <2> QED BY <2>3, <2>4
<1>4. m \in [0..n -> S]
  BY <1>3
<1>5. m[0] = a /\ m[n] = f[1..n]
  BY <1>1
<1>6. ASSUME NEW k \in 1..n PROVE m[k] = g[<<k, m[k - 1]>>]
  <2>1. k - 1 \in 0..n /\ k \in 0..n
    OBVIOUS
  <2>2. f[1..(k - 1)] \in S
    BY <1>3, <2>1
  <2> QED BY <1>2, <2>1, <2>2
<1> HIDE DEF m
<1> QED BY <1>4, <1>5, <1>6 DEF IsTable

-----------------------------------------------------------------------------
(* The code's loops, step by step.                                         *)

(* What a pod adds to _expected_slots and to the product of the survivors. *)
LEMMA FinishType ==
  ASSUME NEW pod \in RunningPod, NEW t \in 0..TMax
  PROVE  /\ FinishBy(pod, t) \in 0..Q /\ pod.units \in Nat
         /\ FinishBy(pod, t) * pod.units \in Nat
         /\ Q \in Nat /\ Q > 0 /\ Q - FinishBy(pod, t) \in Nat
<1>1. /\ pod.finish \in Curves /\ pod.units \in Units
      /\ Q \in Nat /\ Q > 0 /\ Units \subseteq Nat
      /\ \A c \in Curves : c \in [0..TMax -> 0..Q]
  BY EstimatorAssumption DEF RunningPod
<1>2. pod.finish[t] \in 0..Q
  BY <1>1
<1>3. FinishBy(pod, t) \in 0..Q
  BY <1>1, <1>2 DEF FinishBy
<1>4. FinishBy(pod, t) \in Nat /\ Q - FinishBy(pod, t) \in Nat /\ pod.units \in Nat
  <2> DEFINE f == FinishBy(pod, t)
  <2>1. f \in 0..Q /\ Q \in Nat
    BY <1>1, <1>3
  <2> HIDE DEF f
  <2>2. f \in Nat /\ Q - f \in Nat
    BY <2>1
  <2> QED BY <1>1, <2>2 DEF f
<1>5. FinishBy(pod, t) * pod.units \in Nat
  <2> DEFINE f == FinishBy(pod, t)
  <2>1. f \in Nat
    BY <1>4
  <2> HIDE DEF f
  <2>2. f * pod.units \in Nat
    BY <1>4, <2>1
  <2> QED BY <2>2 DEF f
<1> QED BY <1>1, <1>3, <1>4, <1>5

(* _expected_slots: the mean, pod by pod.                                  *)
LEMMA MeanTable ==
  ASSUME NEW n \in Nat, NEW run \in [1..n -> RunningPod], NEW t \in 0..TMax
  PROVE  \E m \in [0..n -> Nat] :
           /\ m[0] = 0 /\ m[n] = MeanSlots(run, t)
           /\ \A k \in 1..n : m[k] = m[k - 1] + FinishBy(run[k], t) * run[k].units
<1> DEFINE adds(k) == FinishBy(run[k], t) * run[k].units
           g == [q \in (1..n) \X Nat |-> q[2] + adds(q[1])]
           Fold(h) == h = [s \in SUBSET (1..n) |->
                             IF s = {} THEN 0 ELSE h[s \ {Max(s)}] + adds(Max(s))]
           it == CHOOSE h : Fold(h)
<1>1. \A k \in 1..n : adds(k) \in Nat
  BY FinishType
<1>2. DOMAIN run = 1..n /\ 0 \in Nat
  OBVIOUS
<1>3. MeanSlots(run, t) = it[1..n]
  BY <1>2 DEF MeanSlots, FoldLeft, MapThenFoldSet
<1> HIDE DEF adds
<1>4. g \in [(1..n) \X Nat -> Nat]
  BY <1>1
<1>5. PICK h : IsFold(h, n, Nat, 0, g)
  <2> HIDE DEF g
  <2> QED BY ONLY <1>2, <1>4, n \in Nat, FoldExists
<1>6. Fold(h)
  <2>1. ASSUME NEW s \in SUBSET (1..n), s # {}
        PROVE  h[s] = h[s \ {Max(s)}] + adds(Max(s))
    <3>1. Max(s) \in 1..n /\ h[s \ {Max(s)}] \in Nat
      BY <1>5, <2>1 DEF IsFold
    <3> QED BY <1>5, <2>1, <3>1 DEF IsFold
  <2> QED BY <1>5, <2>1 DEF IsFold
<1>7. Fold(it)
  <2> HIDE DEF Fold
  <2> QED BY <1>6
<1> HIDE DEF it
<1>8. it[{}] = 0
  BY <1>7
<1>9. Unfolds(it, n, Nat, 0, g)
  <2>1. ASSUME NEW s \in SUBSET (1..n), s # {}, it[s \ {Max(s)}] \in Nat
        PROVE  it[s] = g[<<Max(s), it[s \ {Max(s)}]>>]
    <3>1. Max(s) \in 1..n
      BY <1>5, <2>1 DEF IsFold
    <3> QED BY <1>7, <2>1, <3>1
  <2> QED BY <1>8, <2>1 DEF Unfolds
<1>10. PICK m : IsTable(m, n, Nat, 0, g, it[1..n])
  <2> HIDE DEF g, Fold
  <2> QED BY ONLY <1>2, <1>4, <1>9, n \in Nat, FoldTable
<1>11. ASSUME NEW k \in 1..n PROVE m[k] = m[k - 1] + adds(k)
  <2>1. m[k - 1] \in Nat
    BY <1>10 DEF IsTable
  <2> QED BY <1>10, <2>1 DEF IsTable
<1> QED BY <1>3, <1>10, <1>11 DEF adds, IsTable

(* _prob_soonest_completion: the product, pod by pod.                      *)
LEMMA SurviveTable ==
  ASSUME NEW n \in Nat, NEW run \in [1..n -> RunningPod], NEW t \in 0..TMax
  PROVE  \E m \in [0..n -> Nat] :
           /\ m[0] = 1 /\ m[n] = AllSurvive(run, t)
           /\ \A k \in 1..n : m[k] = m[k - 1] * (Q - FinishBy(run[k], t))
<1> DEFINE keeps(k) == Q - FinishBy(run[k], t)
           g == [q \in (1..n) \X Nat |-> q[2] * keeps(q[1])]
           Fold(h) == h = [s \in SUBSET (1..n) |->
                             IF s = {} THEN 1 ELSE h[s \ {Max(s)}] * keeps(Max(s))]
           it == CHOOSE h : Fold(h)
<1>1. \A k \in 1..n : keeps(k) \in Nat
  BY FinishType
<1>2. DOMAIN run = 1..n /\ 1 \in Nat
  OBVIOUS
<1>3. AllSurvive(run, t) = it[1..n]
  BY <1>2 DEF AllSurvive, FoldLeft, MapThenFoldSet
<1> HIDE DEF keeps
<1>4. g \in [(1..n) \X Nat -> Nat]
  BY <1>1
<1>5. PICK h : IsFold(h, n, Nat, 1, g)
  <2> HIDE DEF g
  <2> QED BY ONLY <1>2, <1>4, n \in Nat, FoldExists
<1>6. Fold(h)
  <2>1. ASSUME NEW s \in SUBSET (1..n), s # {}
        PROVE  h[s] = h[s \ {Max(s)}] * keeps(Max(s))
    <3>1. Max(s) \in 1..n /\ h[s \ {Max(s)}] \in Nat
      BY <1>5, <2>1 DEF IsFold
    <3> QED BY <1>5, <2>1, <3>1 DEF IsFold
  <2> QED BY <1>5, <2>1 DEF IsFold
<1>7. Fold(it)
  <2> HIDE DEF Fold
  <2> QED BY <1>6
<1> HIDE DEF it
<1>8. it[{}] = 1
  BY <1>7
<1>9. Unfolds(it, n, Nat, 1, g)
  <2>1. ASSUME NEW s \in SUBSET (1..n), s # {}, it[s \ {Max(s)}] \in Nat
        PROVE  it[s] = g[<<Max(s), it[s \ {Max(s)}]>>]
    <3>1. Max(s) \in 1..n
      BY <1>5, <2>1 DEF IsFold
    <3> QED BY <1>7, <2>1, <3>1
  <2> QED BY <1>8, <2>1 DEF Unfolds
<1>10. PICK m : IsTable(m, n, Nat, 1, g, it[1..n])
  <2> HIDE DEF g, Fold
  <2> QED BY ONLY <1>2, <1>4, <1>9, n \in Nat, FoldTable
<1>11. ASSUME NEW k \in 1..n PROVE m[k] = m[k - 1] * keeps(k)
  <2>1. m[k - 1] \in Nat
    BY <1>10 DEF IsTable
  <2> QED BY <1>10, <2>1 DEF IsTable
<1> QED BY <1>3, <1>10, <1>11 DEF keeps, IsTable

(* The mean and the product are numbers.                                   *)
LEMMA FoldTypes ==
  ASSUME NEW n \in Nat, NEW run \in [1..n -> RunningPod], NEW t \in 0..TMax
  PROVE  MeanSlots(run, t) \in Nat /\ AllSurvive(run, t) \in Nat
<1>1. n \in 0..n
  OBVIOUS
<1>2. PICK m \in [0..n -> Nat] : m[n] = MeanSlots(run, t)
  BY MeanTable
<1>3. PICK s \in [0..n -> Nat] : s[n] = AllSurvive(run, t)
  BY SurviveTable
<1> QED BY <1>1, <1>2, <1>3

(* The midpoint of an interval is a number.                                *)
LEMMA NarrowedType ==
  ASSUME NEW late \in [0..TMax -> BOOLEAN], NEW ends \in Int \X Int
  PROVE  Narrowed(late, ends[1], ends[2]) \in Int \X Int
<1>1. ends[1] \in Int /\ ends[2] \in Int
  OBVIOUS
<1>2. (ends[1] + ends[2]) \div 2 \in Int
  BY <1>1
<1> QED BY <1>1, <1>2 DEF Narrowed

(* _bisect_wait: the interval, halving by halving.                         *)
LEMMA BisectTable ==
  ASSUME NEW late \in [0..TMax -> BOOLEAN]
  PROVE  \E m \in [0..Iters -> Int \X Int] :
           /\ m[0] = <<0, TMax>>
           /\ \A k \in 1..Iters : m[k] = Narrowed(late, m[k - 1][1], m[k - 1][2])
           /\ Bisect(late) = IF ~late[TMax] THEN 2 * TMax ELSE IF late[0] THEN 0
                             ELSE m[Iters][1] + m[Iters][2]
<1> DEFINE S == Int \X Int
           n == Iters
           a == <<0, TMax>>
           half(ends) == Narrowed(late, ends[1], ends[2])
           g == [q \in (1..n) \X S |-> half(q[2])]
           Fold(h) == h = [s \in SUBSET (1..n) |->
                             IF s = {} THEN a ELSE half(h[s \ {Max(s)}])]
           it == CHOOSE h : Fold(h)
<1>1. \A ends \in S : half(ends) \in S
  BY NarrowedType
<1>2. n \in Nat /\ a \in S
  BY EstimatorAssumption DEF TMax
<1>3. Bisect(late) = IF ~late[TMax] THEN 2 * TMax ELSE IF late[0] THEN 0
                     ELSE it[1..n][1] + it[1..n][2]
  <2> HIDE DEF TMax
  <2>1. DOMAIN [i \in 1..Iters |-> i] = 1..n
    OBVIOUS
  <2> QED BY <2>1 DEF Bisect, FoldLeft, MapThenFoldSet
<1> HIDE DEF half, n, S
<1>4. g \in [(1..n) \X S -> S]
  BY <1>1
<1> HIDE DEF a
<1>5. PICK h : IsFold(h, n, S, a, g)
  <2> HIDE DEF g
  <2> QED BY ONLY <1>2, <1>4, FoldExists
<1>6. Fold(h)
  <2>1. ASSUME NEW s \in SUBSET (1..n), s # {}
        PROVE  h[s] = half(h[s \ {Max(s)}])
    <3>1. Max(s) \in 1..n /\ h[s \ {Max(s)}] \in S
      BY <1>5, <2>1 DEF IsFold
    <3> QED BY <1>5, <2>1, <3>1 DEF IsFold
  <2> QED BY <1>5, <2>1 DEF IsFold
<1>7. Fold(it)
  <2> HIDE DEF Fold
  <2> QED BY <1>6
<1> HIDE DEF it
<1>8. Unfolds(it, n, S, a, g)
  <2>1. ASSUME NEW s \in SUBSET (1..n), s # {}, it[s \ {Max(s)}] \in S
        PROVE  it[s] = g[<<Max(s), it[s \ {Max(s)}]>>]
    <3>1. Max(s) \in 1..n
      BY <1>5, <2>1 DEF IsFold
    <3> QED BY <1>7, <2>1, <3>1
  <2>2. it[{}] = a
    BY <1>7
  <2> QED BY <2>1, <2>2 DEF Unfolds
<1>9. PICK m : IsTable(m, n, S, a, g, it[1..n])
  <2> HIDE DEF g, Fold
  <2> QED BY ONLY <1>2, <1>4, <1>8, FoldTable
<1>10. ASSUME NEW k \in 1..n PROVE m[k] = half(m[k - 1])
  <2>1. m[k - 1] \in S
    BY <1>2, <1>9 DEF IsTable
  <2> QED BY <1>9, <2>1 DEF IsTable
<1> QED BY <1>3, <1>9, <1>10 DEF half, IsTable, S, n, a

-----------------------------------------------------------------------------
(* What the bisection finds.                                               *)

(* The grid has a first and a last time.                                   *)
LEMMA Powers ==
  /\ Iters \in Nat /\ TMax \in Nat /\ TMax = 2 ^ Iters /\ 2 ^ 0 = 1
  /\ \A i \in 0..Iters : 2 ^ i \in Nat /\ 2 ^ (i + 1) = 2 * 2 ^ i
BY EstimatorAssumption DEF TMax

(* For any test of a time, passed at the last one and not at the first,    *)
(* the interval keeps such a pair of ends and is a power of two long, so   *)
(* that it ends as one step, and the result is its end                     *)
(* (_bisect_wait).                                                         *)
LEMMA BisectIsFirst ==
  ASSUME NEW late \in [0..TMax -> BOOLEAN]
  PROVE  IsFirst(late, Bisect(late))
<1>1. PICK m \in [0..Iters -> Int \X Int] :
        /\ m[0] = <<0, TMax>>
        /\ \A k \in 1..Iters : m[k] = Narrowed(late, m[k - 1][1], m[k - 1][2])
        /\ Bisect(late) = IF ~late[TMax] THEN 2 * TMax ELSE IF late[0] THEN 0
                          ELSE m[Iters][1] + m[Iters][2]
  BY BisectTable
<1> DEFINE Ends(k) ==
             LET lo == m[k][1]
                 hi == m[k][2]
             IN  /\ lo \in 0..TMax /\ hi \in 0..TMax
                 /\ hi = lo + 2 ^ (Iters - k)
                 /\ ~late[lo] /\ late[hi]
<1>2. CASE ~late[TMax] \/ late[0]
  BY <1>1, <1>2 DEF IsFirst
<1>3. CASE late[TMax] /\ ~late[0]
  <2> DEFINE T == {k \in 0..Iters : Ends(k)}
  <2>1. 0 \in T
    BY <1>1, <1>3, Powers
  <2>2. ASSUME NEW k \in 0..Iters, k \in T, k < Iters
        PROVE  k + 1 \in T
    <3> DEFINE lo == m[k][1]
               hi == m[k][2]
               w == 2 ^ (Iters - (k + 1))
               mid == (lo + hi) \div 2
    <3>1. k + 1 \in 1..Iters /\ k + 1 - 1 = k /\ Iters - (k + 1) \in 0..Iters
          /\ Iters - (k + 1) + 1 = Iters - k
      <4>1. Iters \in Nat /\ k \in 0..Iters /\ k < Iters
        BY <2>2, Powers
      <4> QED BY ONLY <4>1
    <3>2. w \in Nat /\ 2 ^ (Iters - k) = 2 * w
      <4> DEFINE i == Iters - (k + 1)
      <4>1. i \in 0..Iters /\ i + 1 = Iters - k
        BY <3>1
      <4> HIDE DEF i
      <4>2. 2 ^ i \in Nat /\ 2 ^ (i + 1) = 2 * 2 ^ i
        BY <4>1, Powers
      <4> QED BY <4>1, <4>2 DEF i
    <3>3. m[k + 1] = Narrowed(late, lo, hi)
      BY <1>1, <3>1
    <3>4. /\ lo \in 0..TMax /\ hi \in 0..TMax /\ hi = lo + 2 * w
          /\ ~late[lo] /\ late[hi]
      BY <2>2, <3>2
    <3> HIDE DEF w, lo, hi
    <3>5. mid = lo + w /\ mid \in 0..TMax /\ hi = mid + w
      BY <3>2, <3>4, Powers
    <3>6. m[k + 1] = IF late[mid] THEN <<lo, mid>> ELSE <<mid, hi>>
      BY <3>3 DEF Narrowed
    <3> HIDE DEF mid
    <3>7. Ends(k + 1)
      BY <3>4, <3>5, <3>6 DEF w
    <3> QED BY <3>1, <3>7
  <2>3. Iters \in T
    <3> HIDE DEF T
    <3>1. Iters \in Nat
      BY Powers
    <3>2. 0..Iters \subseteq T
      BY ONLY <2>1, <2>2, <3>1, UpTo
    <3> QED BY <3>1, <3>2
  <2> DEFINE lo == m[Iters][1]
             hi == m[Iters][2]
  <2>4. Ends(Iters)
    BY <2>3
  <2>5. Iters - Iters = 0
    BY Powers
  <2>6. lo \in 0..TMax /\ hi \in 0..TMax /\ hi = lo + 1 /\ ~late[lo] /\ late[hi]
    BY <2>4, <2>5, Powers
  <2>7. Bisect(late) = lo + hi
    BY <1>1, <1>3
  <2> HIDE DEF lo, hi
  <2>8. hi \in 1..TMax /\ hi - 1 = lo /\ lo + hi = 2 * hi - 1
    BY <2>6, Powers
  <2> QED BY <2>6, <2>7, <2>8 DEF IsFirst
<1> QED BY <1>2, <1>3

(* A test that stays passed is found no later than one that implies it.    *)
LEMMA BisectOrder ==
  ASSUME NEW late \in [0..TMax -> BOOLEAN], NEW strict \in [0..TMax -> BOOLEAN],
         \A t \in 1..TMax : late[t - 1] => late[t],
         \A t \in 0..TMax : strict[t] => late[t]
  PROVE  Bisect(late) <= Bisect(strict)
<1>1. TMax \in Nat
  BY Powers
<1>2. ASSUME NEW s \in 0..TMax, late[s], NEW t \in 0..TMax, s <= t
      PROVE  late[t]
  <2> DEFINE T == {k \in 0..TMax : k < s \/ late[k]}
  <2>1. 0 \in T
    BY <1>1, <1>2
  <2>2. \A k \in 0..TMax : k \in T /\ k < TMax => k + 1 \in T
    <3> SUFFICES ASSUME NEW k \in 0..TMax, k \in T, k < TMax PROVE k + 1 \in T
      OBVIOUS
    <3>1. k + 1 \in 1..TMax /\ k + 1 - 1 = k /\ k + 1 \in 0..TMax
      BY <1>1
    <3>2. CASE k < s
      <4>1. k + 1 < s \/ k + 1 = s
        BY <3>2
      <4> QED BY <1>2, <3>1, <4>1
    <3>3. CASE ~(k < s)
      BY <3>1, <3>3
    <3> QED BY <3>2, <3>3
  <2>3. t \in T
    <3> HIDE DEF T
    <3>1. 0..TMax \subseteq T
      BY ONLY <1>1, <2>1, <2>2, UpTo
    <3> QED BY <3>1
  <2>4. ~(t < s)
    BY <1>1, <1>2
  <2> QED BY <2>3, <2>4
<1> DEFINE r == Bisect(late)
           q == Bisect(strict)
<1>3. \/ r = 0
      \/ r = 2 * TMax /\ ~late[TMax]
      \/ \E t \in 1..TMax : r = 2 * t - 1 /\ ~late[t - 1]
  BY BisectIsFirst DEF IsFirst
<1>4. \/ q = 0 /\ strict[0]
      \/ q = 2 * TMax
      \/ \E t \in 1..TMax : q = 2 * t - 1 /\ strict[t]
  BY BisectIsFirst DEF IsFirst
<1> HIDE DEF r, q
<1>5. r \in 0..(2 * TMax)
  BY <1>1, <1>3
<1>6. CASE q = 0 /\ strict[0]
  <2>1. \A t \in 0..TMax : late[t]
    BY <1>1, <1>2, <1>6
  <2>2. \A t \in 1..TMax : t - 1 \in 0..TMax
    BY <1>1
  <2>3. TMax \in 0..TMax
    BY <1>1
  <2> QED BY <1>3, <1>6, <2>1, <2>2, <2>3 DEF r, q
<1>7. CASE q = 2 * TMax
  BY <1>1, <1>5, <1>7 DEF r, q
<1>8. CASE \E t \in 1..TMax : q = 2 * t - 1 /\ strict[t]
  <2>1. PICK t \in 1..TMax : q = 2 * t - 1 /\ strict[t]
    BY <1>8
  <2>2. t \in Int /\ t > 0 /\ t <= TMax /\ t \in 0..TMax /\ late[t]
    BY <1>1, <2>1
  <2>3. CASE r = 0
    BY <2>1, <2>2, <2>3 DEF r, q
  <2>4. CASE r = 2 * TMax /\ ~late[TMax]
    <3>1. late[TMax]
      BY <1>1, <1>2, <2>2
    <3> QED BY <2>4, <3>1
  <2>5. CASE \E u \in 1..TMax : r = 2 * u - 1 /\ ~late[u - 1]
    <3>1. PICK u \in 1..TMax : r = 2 * u - 1 /\ ~late[u - 1]
      BY <2>5
    <3>2. u - 1 \in 0..TMax /\ u \in Int
      BY <1>1
    <3>3. ~(t <= u - 1)
      BY <1>2, <2>2, <3>1, <3>2
    <3>4. u <= t
      BY <2>2, <3>2, <3>3
    <3> HIDE DEF r, q
    <3>5. r <= q
      BY <2>1, <2>2, <3>1, <3>2, <3>4
    <3> QED BY <3>5 DEF r, q
  <2> QED BY <1>3, <2>3, <2>4, <2>5
<1> QED BY <1>4, <1>6, <1>7, <1>8

-----------------------------------------------------------------------------
(* The median wait.                                                        *)

(* Freed slots and free ones suffice for the target exactly if they do for *)
(* the pods in front: a target below zero is met at once because a mean is *)
(* never negative.                                                         *)
LEMMA OnAverageMeans ==
  ASSUME NEW n \in Nat, NEW run \in [1..n -> RunningPod], NEW t \in 0..TMax,
         NEW rank \in Nat, NEW required \in Nat, NEW free \in Nat
  PROVE  OnAverage(run, Target(rank, required, free), t)
           <=> MeanSlots(run, t) + Q * free >= Q * rank * required
<1> DEFINE mean == MeanSlots(run, t)
           need == rank * required
           target == Target(rank, required, free)
<1>1. mean \in Nat
  BY FoldTypes
<1>2. need \in Nat /\ Q \in Nat /\ Q > 0
  BY EstimatorAssumption
<1>3. Q * rank * required = Q * need
  <2>1. Q \in Int /\ rank \in Int /\ required \in Int
    BY <1>2
  <2> QED BY <2>1
<1>4. target = IF need - free <= 0 THEN 0 ELSE need - free
  <2> HIDE DEF need
  <2>1. need - free \in Int
    BY <1>2
  <2>2. Max({0, need - free}) = IF 0 >= need - free THEN 0 ELSE need - free
    BY <2>1, MaxOfTwo
  <2>3. target = Max({0, need - free})
    BY DEF Target, need
  <2> HIDE DEF target
  <2> QED BY <2>1, <2>2, <2>3
<1>5. OnAverage(run, target, t) <=> mean - Q * target >= 0
  BY DEF OnAverage, Excess
<1> HIDE DEF mean, need, target
<1>6. Q * free \in Nat /\ Q * need \in Nat /\ Q * (need - free) = Q * need - Q * free
  BY <1>2
<1>7. CASE need - free <= 0
  <2>1. target = 0 /\ Q * target = 0
    BY <1>2, <1>4, <1>7
  <2>2. Q * need <= Q * free
    <3>1. Q * (need - free) <= 0
      BY <1>2, <1>7
    <3> QED BY <1>6, <3>1
  <2>3. mean - Q * target >= 0 /\ mean + Q * free >= Q * need
    BY <1>1, <1>6, <2>1, <2>2
  <2> QED BY <1>3, <1>5, <2>3 DEF mean, target
<1>8. CASE ~(need - free <= 0)
  <2>1. Q * target = Q * need - Q * free
    BY <1>4, <1>6, <1>8
  <2>2. mean - Q * target >= 0 <=> mean + Q * free >= Q * need
    BY <1>1, <1>6, <2>1
  <2> QED BY <1>3, <1>5, <2>2 DEF mean, target
<1> QED BY <1>7, <1>8

(* The lanes that are estimated.                                           *)
LEMMA LaneRuns ==
  ASSUME NEW run \in Lanes
  PROVE  \E n \in 0..MaxRunning : n \in Nat /\ run \in [1..n -> RunningPod]
<1>1. PICK n \in 0..MaxRunning : run \in [1..n -> RunningPod]
  BY DEF Lanes
<1>2. n \in Nat
  BY EstimatorAssumption
<1> QED BY <1>1, <1>2

(* estimate_wait returns what its definition says, for any lane of running *)
(* pods, rank, requirement and free slots.                                 *)
THEOREM MedianIsTheFirstTime == EstimatorSpec => []MedianIsFirst
<1>1. EstimatorInit => MedianIsFirst
  BY DEF EstimatorInit, MedianIsFirst, Waited, NoEstimate
<1>2. MedianIsFirst /\ [EstimatorNext]_estimate => MedianIsFirst'
  <2> SUFFICES ASSUME MedianIsFirst, [EstimatorNext]_estimate PROVE MedianIsFirst'
    OBVIOUS
  <2>1. CASE UNCHANGED estimate
    BY <2>1 DEF MedianIsFirst, Waited
  <2>2. ASSUME NEW run \in Lanes, EstimateSoonest(run)
        PROVE  MedianIsFirst'
    <3>1. estimate'.call = "soonest"
      BY <2>2 DEF EstimateSoonest
    <3> QED BY <3>1 DEF MedianIsFirst, Waited
  <2>3. ASSUME NEW run \in Lanes, NEW rank \in Ranks, NEW required \in Requireds,
               NEW free \in Frees, EstimateWait(run, rank, required, free)
        PROVE  MedianIsFirst'
    <3> DEFINE target == Target(rank, required, free)
               late == [t \in 0..TMax |-> OnAverage(run, target, t)]
               wanted == [t \in 0..TMax |->
                            MeanSlots(run, t) + Q * free >= Q * rank * required]
    <3>1. /\ estimate'.run = run /\ estimate'.rank = rank
          /\ estimate'.required = required /\ estimate'.free = free
          /\ estimate'.median = MedianWait(run, target)
      BY <2>3 DEF EstimateWait
    <3>2. rank \in Nat /\ required \in Nat /\ free \in Nat
      BY EstimatorAssumption
    <3>3. PICK n \in Nat : run \in [1..n -> RunningPod]
      BY LaneRuns
    <3>4. \A t \in 0..TMax : OnAverage(run, target, t)
            <=> MeanSlots(run, t) + Q * free >= Q * rank * required
      BY <3>2, <3>3, OnAverageMeans
    <3>5. \A t \in 0..TMax : OnAverage(run, target, t) \in BOOLEAN
      BY DEF OnAverage
    <3> HIDE DEF target
    <3>6. late = wanted /\ late \in [0..TMax -> BOOLEAN]
      BY <3>4, <3>5
    <3>7. estimate'.median = Bisect(late)
      BY <3>1 DEF MedianWait
    <3> HIDE DEF late, wanted
    <3>8. IsFirst(wanted, estimate'.median)
      BY <3>6, <3>7, BisectIsFirst
    <3> QED BY <3>1, <3>8 DEF MedianIsFirst, wanted
  <2> QED BY <2>1, <2>2, <2>3 DEF EstimatorNext
<1> QED BY <1>1, <1>2, PTL DEF EstimatorSpec

-----------------------------------------------------------------------------
(* The soonest completion.                                                 *)

(* A pod is more likely to have ended later, and surely at its deadline    *)
(* (_finish_prob).                                                         *)
LEMMA FinishGrows ==
  ASSUME NEW pod \in RunningPod, NEW t \in 1..TMax
  PROVE  FinishBy(pod, t - 1) <= FinishBy(pod, t)
<1>1. t \in 0..TMax /\ t - 1 \in 0..TMax /\ TMax \in Nat
  BY Powers
<1>2. /\ pod.finish \in Curves /\ pod.rem \in Nat
      /\ pod.finish[t - 1] <= pod.finish[t]
  BY EstimatorAssumption DEF RunningPod
<1>3. FinishBy(pod, t - 1) \in 0..Q /\ FinishBy(pod, t) \in 0..Q /\ Q \in Nat
  BY <1>1, FinishType
<1>4. CASE t >= pod.rem
  <2>1. FinishBy(pod, t) = Q
    BY <1>4 DEF FinishBy
  <2> QED BY <1>3, <2>1
<1>5. CASE ~(t >= pod.rem)
  <2>1. ~(t - 1 >= pod.rem)
    BY <1>1, <1>2, <1>5
  <2> QED BY <1>2, <1>5, <2>1 DEF FinishBy
<1> QED BY <1>4, <1>5

(* Less and less likely do all survive.                                    *)
LEMMA SurviveFalls ==
  ASSUME NEW n \in Nat, NEW run \in [1..n -> RunningPod], NEW t \in 1..TMax
  PROVE  AllSurvive(run, t) <= AllSurvive(run, t - 1)
<1>1. t \in 0..TMax /\ t - 1 \in 0..TMax
  BY Powers
<1>2. PICK p \in [0..n -> Nat] :
        /\ p[0] = 1 /\ p[n] = AllSurvive(run, t)
        /\ \A k \in 1..n : p[k] = p[k - 1] * (Q - FinishBy(run[k], t))
  BY <1>1, SurviveTable
<1>3. PICK q \in [0..n -> Nat] :
        /\ q[0] = 1 /\ q[n] = AllSurvive(run, t - 1)
        /\ \A k \in 1..n : q[k] = q[k - 1] * (Q - FinishBy(run[k], t - 1))
  BY <1>1, SurviveTable
<1> DEFINE T == {k \in 0..n : p[k] <= q[k]}
<1>4. 0 \in T
  BY <1>2, <1>3
<1>5. ASSUME NEW k \in 0..n, k \in T, k < n
      PROVE  k + 1 \in T
  <2> DEFINE f == FinishBy(run[k + 1], t)
             e == FinishBy(run[k + 1], t - 1)
             a == p[k]
             b == q[k]
  <2>1. k + 1 \in 1..n /\ k + 1 - 1 = k /\ k + 1 \in 0..n
    BY <1>5
  <2>2. /\ f \in 0..Q /\ e \in 0..Q /\ Q \in Nat /\ e <= f
        /\ a \in Nat /\ b \in Nat /\ a <= b
    <3>1. run[k + 1] \in RunningPod
      BY <2>1
    <3> QED BY <1>1, <1>5, <3>1, FinishType, FinishGrows
  <2>3. p[k + 1] = a * (Q - f) /\ q[k + 1] = b * (Q - e)
    BY <1>2, <1>3, <2>1
  <2> HIDE DEF f, e, a, b
  <2>4. a * (Q - f) <= b * (Q - e)
    <3> DEFINE c == Q - f
               d == Q - e
    <3>1. c \in Nat /\ d \in Nat /\ c <= d
      BY <2>2
    <3> HIDE DEF c, d
    <3>2. a * c <= b * c /\ b * c <= b * d
      BY <2>2, <3>1
    <3>3. a * c \in Int /\ b * c \in Int /\ b * d \in Int
      BY <2>2, <3>1
    <3> QED BY <3>2, <3>3 DEF c, d
  <2> QED BY <2>1, <2>3, <2>4
<1>6. n \in T
  <2> HIDE DEF T
  <2>1. 0..n \subseteq T
    BY ONLY <1>4, <1>5, n \in Nat, UpTo
  <2> QED BY <2>1
<1> QED BY <1>2, <1>3, <1>6

(* One pod more: 1 / (1 + the mean) bounds the product from above.         *)
LEMMA ProductStep ==
  ASSUME NEW q \in Nat, NEW s \in Nat, NEW m \in Nat, NEW f \in 0..q, NEW all \in Nat,
         s * (q + m) <= q * all
  PROVE  s * (q - f) * (q + (m + f)) <= q * (q * all)
<1>1. f \in Nat /\ q - f \in Nat
  OBVIOUS
<1>2. (q - f) * (q + (m + f)) = q * (q + m) - (f * m + f * f)
  BY <1>1
<1>3. f * m \in Nat /\ f * f \in Nat /\ q * (q + m) \in Nat
  BY <1>1
<1> DEFINE a == (q - f) * (q + (m + f))
           b == q * (q + m)
<1>4. a \in Int /\ b \in Int /\ a <= b
  BY <1>2, <1>3
<1>5. s * (q - f) * (q + (m + f)) = s * a
  <2> DEFINE c == q - f
             d == q + (m + f)
  <2>1. c \in Int /\ d \in Int
    BY <1>1
  <2> HIDE DEF c, d
  <2>2. s * c * d = s * (c * d)
    BY <2>1
  <2> QED BY <2>2 DEF c, d
<1>6. s * b = q * (s * (q + m))
  OBVIOUS
<1>7. q * (s * (q + m)) <= q * (q * all)
  <2> DEFINE c == s * (q + m)
             d == q * all
  <2>1. c \in Int /\ d \in Int /\ c <= d
    <3>1. q + m \in Int
      OBVIOUS
    <3> QED BY <3>1
  <2> HIDE DEF c, d
  <2>2. q * c <= q * d
    BY <2>1
  <2> QED BY <2>2 DEF c, d
<1> HIDE DEF a, b
<1>8. s * a <= s * b /\ s * a \in Int /\ s * b \in Int
  BY <1>4
<1>9. q * (q * all) \in Int
  <2>1. q * all \in Int
    OBVIOUS
  <2> QED BY <2>1
<1> QED BY <1>5, <1>6, <1>7, <1>8, <1>9

(* Numbers of probabilities over Q, n factors each.                        *)
LEMMA QPowers ==
  /\ Q \in Nat /\ Q > 0 /\ Q ^ 0 = 1
  /\ \A n \in 0..MaxRunning : Q ^ n \in Nat /\ Q ^ (n + 1) = Q * Q ^ n
BY EstimatorAssumption

(* When one slot is expected among pods of one unit, one has ended with    *)
(* probability one half.                                                   *)
LEMMA SlotMeansEnded ==
  ASSUME NEW n \in 0..MaxRunning, NEW run \in [1..n -> RunningPod], NEW t \in 0..TMax,
         \A k \in 1..n : run[k].units = 1, OnAverage(run, 1, t)
  PROVE  2 * AllSurvive(run, t) <= Q ^ n
<1>1. n \in Nat /\ n \in 0..n /\ \A k \in 0..n : k \in 0..MaxRunning
  BY EstimatorAssumption
<1>2. PICK m \in [0..n -> Nat] :
        /\ m[0] = 0 /\ m[n] = MeanSlots(run, t)
        /\ \A k \in 1..n : m[k] = m[k - 1] + FinishBy(run[k], t) * run[k].units
  BY <1>1, MeanTable
<1>3. PICK s \in [0..n -> Nat] :
        /\ s[0] = 1 /\ s[n] = AllSurvive(run, t)
        /\ \A k \in 1..n : s[k] = s[k - 1] * (Q - FinishBy(run[k], t))
  BY <1>1, SurviveTable
<1> DEFINE T == {k \in 0..n : s[k] * (Q + m[k]) <= Q * Q ^ k}
<1>4. 0 \in T
  <2>1. s[0] = 1 /\ m[0] = 0 /\ Q \in Nat /\ Q ^ 0 = 1
    BY <1>2, <1>3, QPowers
  <2>2. 1 * (Q + 0) <= Q * 1
    BY <2>1
  <2>3. s[0] * (Q + m[0]) <= Q * Q ^ 0
    BY ONLY <2>1, <2>2
  <2> QED BY <1>1, <2>3
<1>5. ASSUME NEW k \in 0..n, k \in T, k < n
      PROVE  k + 1 \in T
  <2> DEFINE f == FinishBy(run[k + 1], t)
             a == s[k]
             b == m[k]
             all == Q ^ k
  <2>1. k + 1 \in 1..n /\ k + 1 - 1 = k /\ k + 1 \in 0..n
    BY <1>1, <1>5
  <2>2. f \in 0..Q /\ run[k + 1].units = 1
    <3>1. run[k + 1] \in RunningPod
      BY <2>1
    <3> QED BY <2>1, <3>1, FinishType
  <2>3. a \in Nat /\ b \in Nat /\ a * (Q + b) <= Q * all
    BY <1>5
  <2>4. all \in Nat /\ Q ^ (k + 1) = Q * all
    BY <1>1, QPowers
  <2>5. s[k + 1] = a * (Q - f) /\ m[k + 1] = b + f * 1
    <3> DEFINE j == k + 1
    <3>1. j \in 1..n
      BY <2>1
    <3> HIDE DEF j
    <3>2. s[j] = s[j - 1] * (Q - FinishBy(run[j], t))
      BY <1>3, <3>1
    <3>3. m[j] = m[j - 1] + FinishBy(run[j], t) * run[j].units
      BY <1>2, <3>1
    <3> QED BY ONLY <2>1, <2>2, <3>2, <3>3 DEF j
  <2> HIDE DEF f, a, b, all
  <2>6. b + f * 1 = b + f /\ Q \in Nat
    BY <2>2, QPowers
  <2>7. a * (Q - f) * (Q + (b + f)) <= Q * (Q * all)
    BY ONLY <2>2, <2>3, <2>4, <2>6, ProductStep
  <2>8. s[k + 1] * (Q + m[k + 1]) <= Q * Q ^ (k + 1)
    BY ONLY <2>4, <2>5, <2>6, <2>7
  <2> QED BY <2>1, <2>8
<1>6. n \in T
  <2> HIDE DEF T
  <2>1. 0..n \subseteq T
    BY ONLY <1>1, <1>4, <1>5, UpTo
  <2> QED BY <1>1, <2>1
<1> DEFINE a == s[n]
           b == m[n]
           all == Q ^ n
<1>7. /\ a \in Nat /\ b \in Nat /\ all \in Nat /\ Q \in Nat /\ Q > 0
      /\ a * (Q + b) <= Q * all
  BY <1>1, <1>6, QPowers
<1>8. b >= Q
  <2>1. b - Q * 1 >= 0
    BY <1>2 DEF OnAverage, Excess
  <2> HIDE DEF b
  <2> QED BY <1>7, <2>1
<1> HIDE DEF a, b, all
<1>9. 2 * a <= all
  <2>1. a * (2 * Q) <= a * (Q + b)
    <3> DEFINE c == 2 * Q
               d == Q + b
    <3>1. c \in Int /\ d \in Int /\ c <= d
      BY <1>7, <1>8
    <3> HIDE DEF c, d
    <3>2. a * c <= a * d
      BY <1>7, <3>1
    <3> QED BY <3>2 DEF c, d
  <2>2. a * (2 * Q) = Q * (2 * a)
    BY <1>7
  <2> DEFINE c == 2 * a
  <2>3. c \in Int /\ Q * c <= Q * all
    <3>1. a * (Q + b) \in Int /\ Q * (2 * a) \in Int /\ Q * all \in Int
      BY <1>7
    <3> QED BY <1>7, <2>1, <2>2, <3>1
  <2> HIDE DEF c
  <2>4. c <= all
    BY <1>7, <2>3
  <2> QED BY <2>4 DEF c
<1> QED BY <1>3, <1>9 DEF a, all

(* The tests of the soonest completion: once passed they stay passed, and  *)
(* a higher percentage is passed later.                                    *)
LEMMA EndedTests ==
  ASSUME NEW n \in 0..MaxRunning, NEW run \in [1..n -> RunningPod],
         NEW p \in Nat, NEW q \in Nat, p <= q
  PROVE  /\ \A t \in 1..TMax : SomeEnded(run, p, t - 1) => SomeEnded(run, p, t)
         /\ \A t \in 0..TMax : SomeEnded(run, q, t) => SomeEnded(run, p, t)
<1> DEFINE all == Q ^ n
<1>1. n \in Nat /\ Len(run) = n /\ all \in Nat
  <2>1. n \in Nat /\ all \in Nat
    <3>1. MaxRunning \in Nat
      BY EstimatorAssumption
    <3> QED BY <3>1, QPowers
  <2>2. Len(run) = n
    BY <2>1
  <2> QED BY <2>1, <2>2
<1>2. ASSUME NEW t \in 0..TMax
      PROVE  AllSurvive(run, t) \in Nat
  BY <1>1, FoldTypes
<1> DEFINE reached(c, s) == 100 * (all - s) >= c * all
<1>3. \A c, t : SomeEnded(run, c, t) <=> reached(c, AllSurvive(run, t))
  BY <1>1 DEF SomeEnded
<1>4. ASSUME NEW t \in 1..TMax, SomeEnded(run, p, t - 1)
      PROVE  SomeEnded(run, p, t)
  <2> DEFINE a == AllSurvive(run, t)
             b == AllSurvive(run, t - 1)
  <2>1. t \in 0..TMax /\ t - 1 \in 0..TMax
    BY Powers
  <2>2. a \in Nat /\ b \in Nat /\ a <= b /\ reached(p, b)
    BY <1>1, <1>2, <1>3, <1>4, <2>1, SurviveFalls
  <2>3. p * all \in Int
    BY <1>1
  <2> HIDE DEF a, b, all
  <2>4. reached(p, a)
    BY <1>1, <2>2, <2>3
  <2> QED BY <1>3, <2>4 DEF a
<1>5. ASSUME NEW t \in 0..TMax, SomeEnded(run, q, t)
      PROVE  SomeEnded(run, p, t)
  <2> DEFINE a == AllSurvive(run, t)
  <2>1. a \in Nat /\ reached(q, a)
    BY <1>2, <1>3, <1>5
  <2> HIDE DEF a, all
  <2>2. p * all <= q * all /\ p * all \in Int /\ q * all \in Int
    BY <1>1
  <2>3. reached(p, a)
    BY <1>1, <2>1, <2>2
  <2> QED BY <1>3, <2>3 DEF a
<1> QED BY <1>4, <1>5

(* The percentiles of the soonest completion are in order.                 *)
LEMMA SoonestOrder ==
  ASSUME NEW n \in 0..MaxRunning, NEW run \in [1..n -> RunningPod],
         NEW p \in Nat, NEW q \in Nat, p <= q
  PROVE  SoonestAt(run, p) <= SoonestAt(run, q)
<1> DEFINE late == [t \in 0..TMax |-> SomeEnded(run, p, t)]
           strict == [t \in 0..TMax |-> SomeEnded(run, q, t)]
<1>1. /\ \A t \in 1..TMax : SomeEnded(run, p, t - 1) => SomeEnded(run, p, t)
      /\ \A t \in 0..TMax : SomeEnded(run, q, t) => SomeEnded(run, p, t)
  BY EndedTests
<1>2. \A c, t : SomeEnded(run, c, t) \in BOOLEAN
  BY DEF SomeEnded
<1>3. \A t \in 1..TMax : t \in 0..TMax /\ t - 1 \in 0..TMax
  BY Powers
<1>4. late \in [0..TMax -> BOOLEAN] /\ strict \in [0..TMax -> BOOLEAN]
  BY <1>2
<1>5. /\ \A t \in 1..TMax : late[t - 1] => late[t]
      /\ \A t \in 0..TMax : strict[t] => late[t]
  BY <1>1, <1>3
<1> HIDE DEF late, strict
<1>6. Bisect(late) <= Bisect(strict)
  BY <1>4, <1>5, BisectOrder
<1> QED BY <1>6 DEF SoonestAt, late, strict

(* The end of some pod is estimated no later than the first expected slot. *)
LEMMA SoonestFirst ==
  ASSUME NEW n \in 0..MaxRunning, NEW run \in [1..n -> RunningPod],
         \A k \in 1..n : run[k].units = 1
  PROVE  SoonestAt(run, 50) <= MedianWait(run, 1)
<1> DEFINE late == [t \in 0..TMax |-> SomeEnded(run, 50, t)]
           strict == [t \in 0..TMax |-> OnAverage(run, 1, t)]
<1>1. \A t \in 1..TMax : SomeEnded(run, 50, t - 1) => SomeEnded(run, 50, t)
  BY EndedTests
<1>2. /\ \A c, t : SomeEnded(run, c, t) \in BOOLEAN
      /\ \A t : OnAverage(run, 1, t) \in BOOLEAN
  BY DEF SomeEnded, OnAverage
<1>3. \A t \in 1..TMax : t \in 0..TMax /\ t - 1 \in 0..TMax
  BY Powers
<1>4. ASSUME NEW t \in 0..TMax, OnAverage(run, 1, t)
      PROVE  SomeEnded(run, 50, t)
  <2> DEFINE all == Q ^ n
             a == AllSurvive(run, t)
  <2>1. n \in Nat /\ n \in 0..n /\ Len(run) = n /\ all \in Nat
    <3>1. n \in Nat /\ all \in Nat
      <4>1. MaxRunning \in Nat
        BY EstimatorAssumption
      <4> QED BY <4>1, QPowers
    <3>2. Len(run) = n
      BY <3>1
    <3> QED BY <3>1, <3>2
  <2>2. a \in Nat
    BY <2>1, FoldTypes
  <2>3. 2 * a <= all
    BY <1>4, SlotMeansEnded
  <2> HIDE DEF a, all
  <2>4. 100 * (all - a) >= 50 * all
    BY <2>1, <2>2, <2>3
  <2> QED BY <2>1, <2>4 DEF SomeEnded, a, all
<1>5. late \in [0..TMax -> BOOLEAN] /\ strict \in [0..TMax -> BOOLEAN]
  BY <1>2
<1>6. /\ \A t \in 1..TMax : late[t - 1] => late[t]
      /\ \A t \in 0..TMax : strict[t] => late[t]
  BY <1>1, <1>3, <1>4
<1> HIDE DEF late, strict
<1>7. Bisect(late) <= Bisect(strict)
  BY <1>5, <1>6, BisectOrder
<1> QED BY <1>7 DEF SoonestAt, MedianWait, late, strict

(* The two estimates that the dashboard shows of one lane agree, for any   *)
(* lane of running pods, and the percentiles of the soonest completion are *)
(* in order (estimate_wait, estimate_soonest_completion).                  *)
THEOREM EstimatesAgree == EstimatorSpec => []SoonestBeforeFirstSlot
<1>1. EstimatorInit => SoonestBeforeFirstSlot
  BY DEF EstimatorInit, SoonestBeforeFirstSlot, NoEstimate
<1>2. SoonestBeforeFirstSlot /\ [EstimatorNext]_estimate => SoonestBeforeFirstSlot'
  <2> SUFFICES ASSUME SoonestBeforeFirstSlot, [EstimatorNext]_estimate
               PROVE  SoonestBeforeFirstSlot'
    OBVIOUS
  <2>1. CASE UNCHANGED estimate
    BY <2>1 DEF SoonestBeforeFirstSlot
  <2>2. ASSUME NEW run \in Lanes, EstimateSoonest(run)
        PROVE  SoonestBeforeFirstSlot'
    <3>1. /\ estimate'.run = run /\ estimate'.median = SoonestAt(run, 50)
          /\ estimate'.p20 = SoonestAt(run, 20) /\ estimate'.p80 = SoonestAt(run, 80)
      BY <2>2 DEF EstimateSoonest
    <3>2. PICK n \in 0..MaxRunning : run \in [1..n -> RunningPod]
      BY LaneRuns
    <3>3. SoonestAt(run, 20) <= SoonestAt(run, 50) /\ SoonestAt(run, 50) <= SoonestAt(run, 80)
      BY <3>2, SoonestOrder
    <3>4. DOMAIN run = 1..n
      BY <3>2
    <3>5. (\A i \in DOMAIN run : run[i].units = 1) => SoonestAt(run, 50) <= MedianWait(run, 1)
      BY <3>2, <3>4, SoonestFirst
    <3> QED BY <3>1, <3>3, <3>5 DEF SoonestBeforeFirstSlot
  <2>3. ASSUME NEW run \in Lanes, NEW rank \in Ranks, NEW required \in Requireds,
               NEW free \in Frees, EstimateWait(run, rank, required, free)
        PROVE  SoonestBeforeFirstSlot'
    <3>1. estimate'.call = "wait"
      BY <2>3 DEF EstimateWait
    <3> QED BY <3>1 DEF SoonestBeforeFirstSlot
  <2> QED BY <2>1, <2>2, <2>3 DEF EstimatorNext
<1> QED BY <1>1, <1>2, PTL DEF EstimatorSpec
===============================================================================
