---------------------------- MODULE WaitEstimator ----------------------------
(***************************************************************************)
(* The estimates of estimation/wait_estimator.py: when enough of a lane's  *)
(* running pods will have ended for the pod of a rank (estimate_wait), and *)
(* when the first of them will (estimate_soonest_completion).              *)
(*                                                                         *)
(* Time is 0..TMax, a grid as fine as the last step of the bisection.  The *)
(* truncated normal is any nondecreasing curve: a running pod is [finish,  *)
(* rem, units], where finish[t] / Q is the probability that it ends within *)
(* t and rem what is left to its deadline.  Results are in half steps,     *)
(* because the code returns the middle of the last interval.               *)
(***************************************************************************)
EXTENDS Integers, Sequences, FiniteSetsExt, SequencesExt

CONSTANTS
  Iters,      \* _BISECT_ITERS
  Q,          \* probabilities are multiples of 1 / Q
  Curves,     \* what _finish_prob may be as a function of t
  Rems, Units, Ranks, Frees, Requireds,  \* bounds: the arguments tried
  MaxRunning  \* bound: the running pods of the lane

TMax == 2 ^ Iters

ASSUME EstimatorAssumption ==
  /\ Iters \in Nat /\ Q \in Nat \ {0} /\ MaxRunning \in Nat
  /\ Rems \subseteq Nat /\ Units \subseteq Nat
  /\ Ranks \subseteq Nat /\ Frees \subseteq Nat /\ Requireds \subseteq Nat
  /\ \A c \in Curves : /\ c \in [0..TMax -> 0..Q]
                       /\ \A t \in 1..TMax : c[t - 1] <= c[t]
  \* for the provers, which know nothing of ^
  /\ 2 ^ 0 = 1 /\ \A i \in 0..Iters : 2 ^ i \in Nat /\ 2 ^ (i + 1) = 2 * 2 ^ i
  /\ Q ^ 0 = 1 /\ \A n \in 0..MaxRunning : Q ^ n \in Nat /\ Q ^ (n + 1) = Q * Q ^ n

VARIABLE estimate   \* the last call: its arguments and its result

RunningPod == [finish : Curves, rem : Rems, units : Units]
NoEstimate == [call |-> "none"]

-----------------------------------------------------------------------------
(* _expected_slots: mean (times Q) and variance (times Q * Q) of the slots *)
(* that are free after t.                                                  *)

FinishBy(pod, t) == IF t >= pod.rem THEN Q ELSE pod.finish[t]

MeanSlots(run, t) ==
  FoldLeft(LAMBDA sum, pod : sum + FinishBy(pod, t) * pod.units, 0, run)

VarSlots(run, t) ==
  FoldLeft(LAMBDA sum, pod :
    sum + FinishBy(pod, t) * (Q - FinishBy(pod, t)) * pod.units * pod.units, 0, run)

(* mean + z * std >= target, without the root: 0.8416 is 526 / 625.        *)
Excess(run, target, t) == MeanSlots(run, t) - Q * target
Deviation(run, t) == 526 * 526 * VarSlots(run, t)
Squared(e) == 625 * 625 * e * e

OnAverage(run, target, t) == Excess(run, target, t) >= 0
MinusDeviation(run, target, t) ==   \* z_adjust = _Z_P20 = -0.8416
  /\ Excess(run, target, t) >= 0
  /\ Squared(Excess(run, target, t)) >= Deviation(run, t)
PlusDeviation(run, target, t) ==    \* z_adjust = _Z_P80 = 0.8416
  \/ Excess(run, target, t) >= 0
  \/ Squared(Excess(run, target, t)) <= Deviation(run, t)

-----------------------------------------------------------------------------
(* _bisect_wait, and the same loop in estimate_soonest_completion, for any *)
(* test late[t] of a time.                                                 *)

(* Mutant of Narrowed: keeps the wrong half.                               *)
NarrowedWrongly(late, lo, hi) ==
  LET mid == (lo + hi) \div 2 IN IF late[mid] THEN <<mid, hi>> ELSE <<lo, mid>>

Narrowed(late, lo, hi) ==
  LET mid == (lo + hi) \div 2 IN IF late[mid] THEN <<lo, mid>> ELSE <<mid, hi>>

Bisect(late) ==
  LET step(ends, i) == Narrowed(late, ends[1], ends[2])
      last == FoldLeft(step, <<0, TMax>>, [i \in 1..Iters |-> i])
  IN  IF ~late[TMax] THEN 2 * TMax
      ELSE IF late[0] THEN 0
      ELSE last[1] + last[2]

Target(rank, required, free) == Max({0, rank * required - free})

MedianWait(run, target) == Bisect([t \in 0..TMax |-> OnAverage(run, target, t)])

(* estimate_wait; p20 and p80 are bisected with their deviation and then   *)
(* clamped by the median.                                                  *)
EstimateWait(run, rank, required, free) ==
  LET target == Target(rank, required, free)
      median == MedianWait(run, target)
  IN  estimate' = [call |-> "wait", run |-> run, rank |-> rank, required |-> required,
                   free |-> free, median |-> median,
                   p20 |-> Min({median, Bisect([t \in 0..TMax |-> MinusDeviation(run, target, t)])}),
                   p80 |-> Max({median, Bisect([t \in 0..TMax |-> PlusDeviation(run, target, t)])})]

(* _prob_soonest_completion >= percent / 100: one minus the product of the *)
(* probabilities to survive t.                                             *)
AllSurvive(run, t) == FoldLeft(LAMBDA prod, pod : prod * (Q - FinishBy(pod, t)), 1, run)

(* Mutant of SomeEnded: the deadline of a pod is not looked at.            *)
SomeEndedUndated(run, percent, t) ==
  LET all == Q ^ Len(run)
      survive == FoldLeft(LAMBDA prod, pod : prod * (Q - pod.finish[t]), 1, run)
  IN  100 * (all - survive) >= percent * all

SomeEnded(run, percent, t) ==
  LET all == Q ^ Len(run) IN 100 * (all - AllSurvive(run, t)) >= percent * all

SoonestAt(run, percent) == Bisect([t \in 0..TMax |-> SomeEnded(run, percent, t)])

EstimateSoonest(run) ==
  /\ run # <<>>
  /\ estimate' = [call |-> "soonest", run |-> run, median |-> SoonestAt(run, 50),
                  p20 |-> SoonestAt(run, 20), p80 |-> SoonestAt(run, 80)]

Lanes == UNION {[1..n -> RunningPod] : n \in 0..MaxRunning}

EstimatorInit == estimate = NoEstimate

(* One call from the start: the functions keep nothing between two calls.  *)
EstimatorNext ==
  /\ estimate = NoEstimate
  /\ \E run \in Lanes :
       \/ \E rank \in Ranks, required \in Requireds, free \in Frees :
            EstimateWait(run, rank, required, free)
       \/ EstimateSoonest(run)

EstimatorSpec == EstimatorInit /\ [][EstimatorNext]_estimate

-----------------------------------------------------------------------------
(* Properties.                                                             *)

Waited == estimate.call = "wait"
WaitTarget == Target(estimate.rank, estimate.required, estimate.free)

(* A result is first for a test if the test holds from there on and not a  *)
(* step before, 0 and TMax standing for "at once" and "not before TMax".   *)
IsFirst(late, result) ==
  \/ result = 0 /\ late[0]
  \/ result = 2 * TMax /\ ~late[TMax]
  \/ \E t \in 1..TMax : result = 2 * t - 1 /\ ~late[t - 1] /\ late[t]

(* The median wait is when the slots that are free and those expected to   *)
(* be freed first suffice for the pod and the ones in front of it, each    *)
(* taken to need as much: by definition and not by bisection               *)
(* (estimate_wait, _bisect_wait).                                          *)
MedianIsFirst ==
  Waited =>
    IsFirst([t \in 0..TMax |-> MeanSlots(estimate.run, t) + Q * estimate.free
                                 >= Q * estimate.rank * estimate.required],
            estimate.median)

(* The two estimates of one lane agree: among pods of one unit some pod    *)
(* has probably ended by the time that one slot is expected (the dashboard *)
(* shows both), and the three percentiles of the first end are in order.   *)
SoonestBeforeFirstSlot ==
  estimate.call = "soonest" =>
    /\ estimate.p20 <= estimate.median /\ estimate.median <= estimate.p80
    /\ (\A i \in DOMAIN estimate.run : estimate.run[i].units = 1) =>
         estimate.median <= MedianWait(estimate.run, 1)

(* wait_estimator.py:103 of the repository: "p20 is optimistic (things      *)
(* clear faster)".  If things that clear one deviation faster than         *)
(* expected free the slots a step earlier than the median says, P20 has to *)
(* be earlier.                                                             *)
OptimisticIsEarlier ==
  Waited /\ (\E t \in 0..TMax : 2 * t + 1 < estimate.median
                             /\ PlusDeviation(estimate.run, WaitTarget, t))
  => estimate.p20 < estimate.median
=============================================================================
