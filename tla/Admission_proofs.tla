-------------------------- MODULE Admission_proofs --------------------------
(***************************************************************************)
(* Proofs about Admission, for every number of pods and lanes, with lost   *)
(* replies, exceptions and any number of repeated events.                  *)
(***************************************************************************)
EXTENDS Admission, FiniteSetTheorems, TLAPS

-----------------------------------------------------------------------------
(* Units of sets of pods.                                                  *)

(* A set of pods asks for finitely many GPUs, and none asks for none       *)
(* (the sums over the controller's maps in _run_cycle).                    *)
LEMMA UnitsType ==
  ASSUME NEW S \in SUBSET Pod
  PROVE  IsFiniteSet(GPUs(S)) /\ UnitsOf(S) \in Nat
<1>1. IsFiniteSet(S)
  BY AdmissionAssumption, FS_Subset
<1>2. ASSUME NEW p \in S PROVE IsFiniteSet({p} \X (1..Units[p]))
  <2>1. Units[p] \in Nat
    BY AdmissionAssumption
  <2>2. IsFiniteSet(1..Units[p])
    <3>1. 1 \in Int /\ Units[p] \in Int
      BY <2>1
    <3> QED BY ONLY <3>1, FS_Interval
  <2>3. IsFiniteSet({p})
    BY ONLY FS_Singleton
  <2> QED BY ONLY <2>2, <2>3, FS_Product
<1> DEFINE T == {{p} \X (1..Units[p]) : p \in S}
           f == [p \in S |-> {p} \X (1..Units[p])]
<1>3. IsFiniteSet(T)
  <2>1. f \in Surjection(S, T)
    BY DEF Surjection
  <2> HIDE DEF T, f
  <2> QED BY ONLY <1>1, <2>1, FS_Surjection
<1>4. IsFiniteSet(GPUs(S))
  BY <1>2, <1>3, FS_UNION DEF GPUs
<1> QED BY <1>4, FS_CardinalityType DEF UnitsOf

LEMMA UnitsOfOne ==
  ASSUME NEW p \in Pod
  PROVE  Cardinality({p} \X (1..Units[p])) = Units[p]
<1>1. Units[p] \in Nat
  BY AdmissionAssumption
<1>2. IsFiniteSet(1..Units[p]) /\ Cardinality(1..Units[p]) = Units[p]
  <2>1. 1 \in Int /\ Units[p] \in Int /\ ~(1 > Units[p])
    BY AdmissionAssumption
  <2>2. /\ IsFiniteSet(1..Units[p])
        /\ Cardinality(1..Units[p]) = Units[p] - 1 + 1
    BY ONLY <2>1, FS_Interval
  <2> QED BY <1>1, <2>2
<1>3. IsFiniteSet({p}) /\ Cardinality({p}) = 1
  BY ONLY FS_Singleton
<1>4. Cardinality({p} \X (1..Units[p])) = Cardinality({p}) * Cardinality(1..Units[p])
  BY ONLY <1>2, <1>3, FS_Product
<1>5. 1 * Units[p] = Units[p]
  BY <1>1
<1> QED BY <1>2, <1>3, <1>4, <1>5

(* Adding a pod adds its units (admitted_units[lane] = admitted + units).  *)
LEMMA UnitsAdd ==
  ASSUME NEW S \in SUBSET Pod, NEW p \in Pod, p \notin S
  PROVE  UnitsOf(S \cup {p}) = UnitsOf(S) + Units[p]
<1> DEFINE T == {p} \X (1..Units[p])
<1>1. GPUs(S \cup {p}) = GPUs(S) \cup T
  BY DEF GPUs
<1>2. GPUs(S) \cap T = {}
  BY DEF GPUs
<1>3. IsFiniteSet(GPUs(S)) /\ Cardinality(GPUs(S)) \in Nat
  BY UnitsType DEF UnitsOf
<1>4. GPUs({p}) = T
  BY DEF GPUs
<1>5. IsFiniteSet(T) /\ Cardinality(T) = Units[p]
  BY <1>4, UnitsType, UnitsOfOne
<1>6. Units[p] \in Nat
  BY AdmissionAssumption
<1>7. Cardinality(GPUs(S) \cap T) = 0
  BY <1>2, FS_EmptySet
<1>8. Cardinality(GPUs(S) \cup T) = Cardinality(GPUs(S)) + Cardinality(T) - Cardinality(GPUs(S) \cap T)
  BY <1>3, <1>5, FS_Union
<1> HIDE DEF T
<1>9. UnitsOf(S \cup {p}) = Cardinality(GPUs(S)) + Units[p] - 0
  BY <1>1, <1>5, <1>7, <1>8 DEF UnitsOf
<1> QED BY <1>3, <1>6, <1>9 DEF UnitsOf

LEMMA UnitsNone == UnitsOf({}) = 0
<1>1. GPUs({}) = {}
  BY DEF GPUs
<1> QED BY <1>1, FS_EmptySet DEF UnitsOf

-----------------------------------------------------------------------------
(* Type correctness.                                                       *)

USE DEF cluster, maps, watch, cycle, fates

LEMMA StreamType ==
  ASSUME NEW s \in Seq(Status), NEW e \in Status
  PROVE  /\ Append(s, e) \in Seq(Status)
         /\ s # <<>> => Head(s) \in Status /\ Tail(s) \in Seq(Status)
OBVIOUS

LEMMA AttemptsType == MaxAttempts \in Nat \ {0} /\ 0 \in 0..MaxAttempts - 1
BY AdmissionAssumption

LEMMA ClusterType ==
  ASSUME TypeOK, NEW p \in Pod, ClusterStep(p)
  PROVE  TypeOK'
<1>1. ASSUME NEW s \in Status, SetStatus(p, s)
      PROVE  api' \in [Pod -> Status] /\ stream' \in [Pod -> Seq(Status)]
  <2>1. stream[p] \in Seq(Status)
    BY DEF TypeOK
  <2> QED BY <1>1, <2>1, StreamType DEF TypeOK, SetStatus
<1>2. \E s \in Status : SetStatus(p, s)
  BY DEF ClusterStep, Create, Touch, Bind, Run, Finish, Delete, Status, TypeOK
<1> QED BY <1>1, <1>2 DEF TypeOK, ClusterStep

LEMMA WatchType ==
  ASSUME TypeOK, WatchNext
  PROVE  TypeOK'
<1> USE DEF TypeOK, WatchGoto, WatchStep
<1>1. ASSUME NEW p \in Pod, TakeEvent(p) PROVE TypeOK'
  <2>1. stream[p] \in Seq(Status)
    OBVIOUS
  <2> QED BY <1>1, <2>1, StreamType DEF TakeEvent
<1>2. CASE EnqueueCheck \/ EnqueueSubmit
  <2>1. CASE EnqueueCheck
    BY <2>1 DEF EnqueueCheck
  <2>2. CASE EnqueueSubmit
    <3>1. wpod \in Pod /\ queue[wpod] + 1 \in Nat
      BY <2>2 DEF EnqueueSubmit
    <3>2. pending' \subseteq Pod /\ queue' \in [Pod -> Nat]
      BY <2>2, <3>1 DEF EnqueueSubmit
    <3> QED BY <2>2, <3>1, <3>2 DEF EnqueueSubmit
  <2> QED BY <1>2, <2>1, <2>2
<1>3. CASE DequeuePending \/ DequeueAdmitted \/ DequeueReserved
  <2>1. CASE DequeuePending
    BY <2>1 DEF DequeuePending
  <2>2. CASE DequeueAdmitted
    BY <2>2 DEF DequeueAdmitted
  <2>3. CASE DequeueReserved
    BY <2>3 DEF DequeueReserved
  <2> QED BY <1>3, <2>1, <2>2, <2>3
<1>4. CASE DequeueAttempts
  <2>1. attempts' \in [Pod -> 0..MaxAttempts - 1] /\ wpod \in Pod
    BY <1>4, AttemptsType DEF DequeueAttempts
  <2> QED BY <1>4, <2>1 DEF DequeueAttempts
<1>5. CASE DequeueJob
  <2>1. wpod \in Pod /\ queue[wpod] \in Nat
    BY <1>5 DEF DequeueJob
  <2>2. queue' \in [Pod -> Nat]
    BY <1>5, <2>1 DEF DequeueJob
  <2>3. wpc' \in {"toRunningRelease", "goneRunning", "toPendingCheck"}
    BY <1>5 DEF DequeueJob
  <2> QED BY <1>5, <2>1, <2>2, <2>3 DEF DequeueJob
<1>6. CASE ToPendingCheck \/ ToPendingAdd \/ ToPendingRelease
  <2>1. CASE ToPendingCheck
    BY <2>1 DEF ToPendingCheck
  <2>2. CASE ToPendingAdd
    BY <2>2 DEF ToPendingAdd
  <2>3. CASE ToPendingRelease
    BY <2>3 DEF ToPendingRelease
  <2> QED BY <1>6, <2>1, <2>2, <2>3
<1>7. CASE ToRunningRelease \/ ToRunningRemove \/ ToRunningAdd
  <2>1. CASE ToRunningRelease
    BY <2>1 DEF ToRunningRelease
  <2>2. CASE ToRunningRemove
    BY <2>2 DEF ToRunningRemove
  <2>3. CASE ToRunningAdd
    BY <2>3 DEF ToRunningAdd
  <2> QED BY <1>7, <2>1, <2>2, <2>3
<1>8. CASE GoneRunning \/ GonePending \/ GoneReserved
  <2>1. CASE GoneRunning
    BY <2>1 DEF GoneRunning
  <2>2. CASE GonePending
    BY <2>2 DEF GonePending
  <2>3. CASE GoneReserved
    BY <2>3 DEF GoneReserved
  <2> QED BY <1>8, <2>1, <2>2, <2>3
<1> QED
  BY <1>1, <1>2, <1>3, <1>4, <1>5, <1>6, <1>7, <1>8 DEF WatchNext, WatchHandler

LEMMA CycleType ==
  ASSUME TypeOK, CycleNext
  PROVE  TypeOK'
<1> USE DEF TypeOK, CycleGoto, CycleStep
<1>1. ASSUME NEW S, S \subseteq Pod, NEW l \in Lane PROVE UnitsOf(InLane(S, l)) \in Nat
  <2>1. InLane(S, l) \in SUBSET Pod
    BY <1>1 DEF InLane
  <2> QED BY <2>1, UnitsType
<1>2. CASE ReadRunning \/ ReadPending \/ ReadAdmitted
  <2>1. \A l \in Lane : /\ UnitsOf(InLane(running, l)) \in Nat
                        /\ UnitsOf(InLane(kpending, l)) \in Nat
                        /\ UnitsOf(InLane(reserved, l)) \in Nat
    BY <1>1
  <2>2. taken' \in [Lane -> Int]
    BY <1>2, <2>1 DEF ReadRunning, ReadPending, ReadAdmitted
  <2>3. CASE ReadRunning
    BY <2>2, <2>3 DEF ReadRunning
  <2>4. CASE ReadPending
    BY <2>2, <2>4 DEF ReadPending
  <2>5. CASE ReadAdmitted
    BY <2>2, <2>5 DEF ReadAdmitted
  <2> QED BY <1>2, <2>3, <2>4, <2>5
<1>3. CASE Dispatch
  <2>1. PICK D \in Rule!Selections({p \in Pod : queue[p] > 0}) :
           /\ batch' = D
           /\ queue' = [p \in Pod |-> queue[p] - (IF p \in D THEN 1 ELSE 0)]
    BY <1>3 DEF Dispatch
  <2>2. D \subseteq {p \in Pod : queue[p] > 0}
    BY DEF Rule!Selections
  <2>3. queue' \in [Pod -> Nat]
    BY <2>1, <2>2
  <2> QED BY <1>3, <2>1, <2>2, <2>3 DEF Dispatch
<1>4. CASE CycleDone
  BY <1>4 DEF CycleDone, EndCycle
<1>5. CASE RequeueCheck \/ Requeue
  <2>1. CASE RequeueCheck
    BY <2>1 DEF RequeueCheck
  <2>2. CASE Requeue
    BY <2>2 DEF Requeue, Resubmit
  <2> QED BY <1>5, <2>1, <2>2
<1>6. CASE Reserve \/ Unreserve
  <2>1. cur \in Pod /\ Units[cur] \in Int /\ LaneOf[cur] \in Lane
    BY <1>6, AdmissionAssumption DEF Reserve, Unreserve
  <2>2. taken' \in [Lane -> Int]
    BY <1>6, <2>1 DEF Reserve, Unreserve
  <2> QED BY <1>6, <2>1, <2>2 DEF Reserve, Unreserve
<1>16. CASE PopPending
  BY <1>16 DEF PopPending
<1>7. ASSUME NEW p \in Pod, TakeJob(p) PROVE TypeOK'
  BY <1>7 DEF TakeJob
<1>8. CASE PatchSucceeds \/ PatchReplyLost
  <2>1. /\ cur \in Pod
        /\ stream[cur] \in Seq(Status)
        /\ "unbound" \in Status
        /\ ApplyPatch(cur)
    BY <1>8 DEF PatchSucceeds, PatchReplyLost, Status
  <2>2. Append(stream[cur], "unbound") \in Seq(Status)
    BY <2>1, StreamType
  <2>3. api' \in [Pod -> Status] /\ stream' \in [Pod -> Seq(Status)]
    BY <2>1, <2>2 DEF ApplyPatch, SetStatus
  <2> QED BY <1>8, <2>1, <2>3 DEF PatchSucceeds, PatchReplyLost
<1>9. CASE PatchFails \/ PatchNotFound
  BY <1>9 DEF PatchFails, PatchNotFound
<1>10. CASE PatchRaises
  BY <1>10 DEF PatchRaises, EndCycle
<1>11. CASE MarkAdmitted \/ FailPending
  <2>1. CASE MarkAdmitted
    BY <2>1 DEF MarkAdmitted
  <2>2. CASE FailPending
    BY <2>2 DEF FailPending
  <2> QED BY <1>11, <2>1, <2>2
<1>17. CASE FailReserved
  BY <1>17 DEF FailReserved
<1>18. CASE FailSubmit
  BY <1>18 DEF FailSubmit, Resubmit
<1>12. CASE MarkAttempts \/ FailGone \/ FailCount \/ GiveUp
  <2>1. cur \in Pod /\ attempts[cur] \in 0..MaxAttempts - 1
    BY <1>12 DEF MarkAttempts, FailGone, FailCount, GiveUp
  <2>2. attempts' \in [Pod -> 0..MaxAttempts - 1]
    <3>1. CASE FailCount
      <4>1. attempts[cur] + 1 \in 0..MaxAttempts - 1
        BY <2>1, <3>1, AttemptsType DEF FailCount
      <4> QED BY <3>1, <4>1 DEF FailCount
    <3>2. CASE MarkAttempts \/ FailGone \/ GiveUp
      BY <3>2, AttemptsType DEF MarkAttempts, FailGone, GiveUp, ForgetAttempts
    <3> QED BY <1>12, <3>1, <3>2
  <2>3. CASE MarkAttempts
    BY <2>1, <2>2, <2>3 DEF MarkAttempts, ForgetAttempts
  <2>4. CASE FailGone
    BY <2>1, <2>2, <2>4 DEF FailGone, ForgetAttempts
  <2>5. CASE FailCount
    BY <2>1, <2>2, <2>5 DEF FailCount
  <2>6. CASE GiveUp
    BY <2>1, <2>2, <2>6 DEF GiveUp, ForgetAttempts
  <2> QED BY <1>12, <2>3, <2>4, <2>5, <2>6
<1>13. CASE GiveUpJobs \/ GiveUpPending
  <2>1. CASE GiveUpJobs
    <3>1. cur \in Pod /\ queue[cur] \in Nat
      BY <2>1 DEF GiveUpJobs
    <3>2. queue' \in [Pod -> Nat]
      BY <2>1, <3>1 DEF GiveUpJobs
    <3>3. cpc' \in {"giveUpJobs", "giveUpPending"}
      BY <2>1 DEF GiveUpJobs
    <3> QED BY <2>1, <3>1, <3>2, <3>3 DEF GiveUpJobs
  <2>2. CASE GiveUpPending
    BY <2>2 DEF GiveUpPending
  <2> QED BY <1>13, <2>1, <2>2
<1>14. CASE SweepAdmitted \/ SweepReserved
  <2>1. CASE SweepAdmitted
    BY <2>1 DEF SweepAdmitted
  <2>2. CASE SweepReserved
    BY <2>2 DEF SweepReserved
  <2> QED BY <1>14, <2>1, <2>2
<1>15. ASSUME NEW p \in Pod, SweepStale(p) PROVE TypeOK'
  BY <1>15 DEF SweepStale
<1>19. CASE SweepBegin
  BY <1>19 DEF SweepBegin
<1>20. CASE SweepEnd \/ SweepRaises
  <2>1. CASE SweepEnd
    BY <2>1 DEF SweepEnd
  <2>2. CASE SweepRaises
    BY <2>2 DEF SweepRaises, EndCycle
  <2> QED BY <1>20, <2>1, <2>2
<1>21. ASSUME NEW p \in Pod, SweepKeep(p) PROVE TypeOK'
  BY <1>21 DEF SweepKeep
<1> QED
  BY <1>2, <1>3, <1>4, <1>5, <1>6, <1>7, <1>8, <1>9, <1>10, <1>11, <1>12, <1>13,
     <1>14, <1>15, <1>16, <1>17, <1>18, <1>19, <1>20, <1>21
  DEF CycleNext, RunCycle, AdmitPod, Sweep

LEMMA TypeStep ==
  ASSUME TypeOK, [Next]_vars
  PROVE  TypeOK'
<1>1. CASE WatchNext
  BY <1>1, WatchType
<1>2. CASE CycleNext
  BY <1>2, CycleType
<1>3. ASSUME NEW p \in Pod, ClusterStep(p) PROVE TypeOK'
  BY <1>3, ClusterType
<1>4. ASSUME NEW p \in Pod, RetryTimePasses(p) PROVE TypeOK'
  BY <1>4 DEF RetryTimePasses, TypeOK
<1>5. CASE UNCHANGED vars
  BY <1>5 DEF vars, TypeOK
<1> QED BY <1>1, <1>2, <1>3, <1>4, <1>5 DEF Next

LEMMA InitType ==
  ASSUME Init
  PROVE  TypeOK
<1>1. /\ api \in [Pod -> Status]
      /\ stream \in [Pod -> Seq(Status)]
      /\ queue \in [Pod -> Nat]
      /\ attempts \in [Pod -> 0..MaxAttempts - 1]
  BY AttemptsType DEF Init, Status
<1>2. taken \in [Lane -> Int] /\ base \in [Lane -> Int]
  BY DEF Init
<1> QED BY <1>1, <1>2 DEF Init, TypeOK, Status, WatchStep, CycleStep

(* Every variable keeps its type; in particular no copy of a job is taken  *)
(* from an empty queue and no attempt counter passes _MAX_ADMIT_ATTEMPTS.  *)
THEOREM TypeCorrect == Spec => []TypeOK
<1>1. Init => TypeOK
  BY InitType
<1>2. TypeOK /\ [Next]_vars => TypeOK'
  BY TypeStep
<1> QED BY <1>1, <1>2, PTL DEF Spec
-----------------------------------------------------------------------------
(* The fate of a pod: the inductive invariant behind NoPodLostSilently,    *)
(* ReservationDiesWithPod and PatchedWithReservation.                      *)

Events(s) == {s[i] : i \in DOMAIN s}

Watching(p) == wpc # "idle" /\ wpod = p

CycleHas(p, steps) == cur = p /\ cpc \in steps

(* Nothing knows a pod that was never created.                             *)
AbsentUnknown(p) ==
  api[p] = "absent" =>
    /\ Events(stream[p]) = {}
    /\ ~Watching(p)
    /\ p \notin pending \cup admitted \cup reserved \cup batch \cup stale
    /\ queue[p] = 0
    /\ cur # p

(* While the gate is there, the watch has heard of nothing else.           *)
GatedHeard(p) ==
  api[p] = "gated" =>
    /\ Events(stream[p]) \subseteq {"gated"}
    /\ Watching(p) => wpc \in {"enqueueCheck", "enqueueSubmit"}
    /\ p \notin admitted
    /\ ~CycleHas(p, {"mark", "sweepAdmitted", "sweepReserved", "failNotFound", "failGone"})

(* A gated pod is pending, or on its way there or out of it.               *)
GatedKnown(p) ==
  api[p] = "gated" =>
    \/ Events(stream[p]) # {}
    \/ Watching(p)
    \/ p \in pending
    \/ CycleHas(p, {"patch", "failReserved", "failCount", "failPending"})
    \/ p \in gaveUp \cup dropped

(* A gated pod that is pending has a job, or is about to get it back.      *)
PendingHasJob(p) ==
  api[p] = "gated" /\ p \in pending =>
    \/ queue[p] > 0
    \/ p \in batch
    \/ CycleHas(p, {"requeueCheck", "requeue", "reserve", "pop", "failSubmit"})
    \/ p \in gaveUp \cup dropped

(* The units of a deleted pod are still to be released.                    *)
DeletedReleases(p) ==
  api[p] = "deleted" /\ p \in reserved =>
    \/ CycleHas(p, {"pop", "unreserve", "patch", "failReserved", "failNotFound"})
    \/ "deleted" \in Events(stream[p])
    \/ /\ Watching(p) /\ wev = "deleted"
       /\ wpc \in {"dequeuePending", "dequeueAdmitted", "dequeueReserved",
                   "dequeueAttempts", "dequeueJob",
                   "goneRunning", "gonePending", "goneReserved"}
    \/ p \in dropped

(* Backoff, and the reservation the patch relies on.                       *)
BackoffCounted(p) ==
  /\ p \in backoff => attempts[p] > 0
  /\ CycleHas(p, {"reserve", "pop", "patch"}) => p \notin backoff
  /\ CycleHas(p, {"pop", "patch"}) /\ api[p] = "gated" => p \in reserved

(* Only a pod given up loses its jobs.                                     *)
GiveUpRecorded(p) == CycleHas(p, {"giveUpJobs", "giveUpPending"}) => p \in gaveUp

BeforeLoop ==
  {"idle", "sweep", "sweepAdmitted", "sweepReserved", "run", "readPending", "readAdmitted"}

BatchDuringLoop ==
  cpc \in BeforeLoop \cup {"dispatch"} => batch = {}

PodInv(p) ==
  /\ AbsentUnknown(p)
  /\ GatedHeard(p)
  /\ GatedKnown(p)
  /\ PendingHasJob(p)
  /\ DeletedReleases(p)
  /\ BackoffCounted(p)
  /\ GiveUpRecorded(p)

FateInv ==
  /\ TypeOK
  /\ BatchDuringLoop
  /\ \A p \in Pod : PodInv(p)

(* What the cycle charged to the lanes: the inductive invariant behind     *)
(* CycleWithinFree.                                                        *)
ChargeInv ==
  /\ TypeOK
  /\ cpc \in BeforeLoop \cup {"dispatch"} => granted = {}
  /\ cpc \notin BeforeLoop =>
       \A l \in Lane : taken[l] = base[l] + UnitsOf(InLane(granted, l))
  /\ \A l \in Lane : InLane(granted, l) # {} => taken[l] <= Capacity[l]
  /\ granted \cap batch = {}
  /\ cpc = "reserve" => /\ cur \notin granted \cup batch
                        /\ taken[LaneOf[cur]] + Units[cur] <= Capacity[LaneOf[cur]]
  /\ cpc \in {"pop", "unreserve"} => cur \in granted

-----------------------------------------------------------------------------
(* CycleWithinFree.                                                        *)

(* Only the cycle thread touches the cycle's variables.                    *)
LEMMA OthersKeepCycle ==
  ASSUME [Next]_vars, ~CycleNext
  PROVE  UNCHANGED cycle
<1>1. ASSUME WatchNext PROVE UNCHANGED cycle
  BY <1>1 DEF WatchNext, WatchHandler, TakeEvent, EnqueueCheck, EnqueueSubmit,
     DequeuePending, DequeueAdmitted, DequeueReserved, DequeueAttempts, DequeueJob,
     ToPendingCheck, ToPendingAdd, ToPendingRelease, ToRunningRelease,
     ToRunningRemove, ToRunningAdd, GoneRunning, GonePending, GoneReserved
<1>2. ASSUME NEW p \in Pod, ClusterStep(p) \/ RetryTimePasses(p) PROVE UNCHANGED cycle
  BY <1>2 DEF ClusterStep, RetryTimePasses
<1> QED BY <1>1, <1>2 DEF Next, vars

LEMMA ChargeStep ==
  ASSUME ChargeInv, [Next]_vars
  PROVE  ChargeInv'
<1> USE DEF BeforeLoop, CycleGoto
<1>1. TypeOK'
  BY TypeStep DEF ChargeInv
<1>2. CASE UNCHANGED cycle
  BY <1>1, <1>2 DEF ChargeInv, InLane
<1>3. CASE ReadRunning
  BY <1>1, <1>3 DEF ChargeInv, ReadRunning, InLane
<1>4. CASE ReadPending
  BY <1>1, <1>4 DEF ChargeInv, ReadPending, InLane
<1>5. CASE ReadAdmitted
  <2>1. granted = {} /\ granted' = {} /\ cpc' = "dispatch" /\ batch' = batch
    BY <1>5 DEF ChargeInv, ReadAdmitted
  <2>2. taken' \in [Lane -> Int] /\ base' = taken'
    BY <1>1, <1>5 DEF ReadAdmitted, TypeOK
  <2>3. \A l \in Lane : InLane(granted', l) = {}
    BY <2>1 DEF InLane
  <2>4. \A l \in Lane : taken'[l] = base'[l] + UnitsOf(InLane(granted', l))
    <3> TAKE l \in Lane
    <3>1. taken'[l] \in Int /\ base'[l] = taken'[l]
      BY <2>2
    <3>2. UnitsOf(InLane(granted', l)) = 0
      BY <2>3, UnitsNone
    <3> QED BY <3>1, <3>2
  <2>5. granted' \cap batch' = {} /\ cpc' \notin {"reserve", "pop", "unreserve"}
    BY <2>1
  <2> QED BY <1>1, <2>1, <2>3, <2>4, <2>5 DEF ChargeInv
<1>6. CASE Dispatch
  <2>1. UNCHANGED <<granted, taken, base, cur>> /\ cpc' = "next" /\ granted = {}
    BY <1>6 DEF ChargeInv, Dispatch
  <2>2. \A l \in Lane : taken'[l] = base'[l] + UnitsOf(InLane(granted', l))
    BY <1>6, <2>1 DEF ChargeInv, Dispatch
  <2>3. \A l \in Lane : InLane(granted', l) = {}
    BY <2>1 DEF InLane
  <2> QED BY <1>1, <2>1, <2>2, <2>3 DEF ChargeInv
<1>7. ASSUME NEW p \in Pod, TakeJob(p) PROVE ChargeInv'
  <2>1. UNCHANGED <<granted, taken, base>> /\ cpc = "next" /\ cur' = p
    BY <1>7 DEF TakeJob
  <2>2. p \notin granted /\ batch' = batch \ {p} /\ cpc' \in {"reserve", "requeueCheck"}
    BY <1>7 DEF TakeJob, ChargeInv
  <2>3. cpc' = "reserve" => taken[LaneOf[p]] + Units[p] <= Capacity[LaneOf[p]]
    <3>1. /\ taken[LaneOf[p]] \in Int /\ Units[p] \in Int
          /\ Capacity[LaneOf[p]] \in Int
      BY AdmissionAssumption DEF ChargeInv, TypeOK
    <3> QED BY <1>7, <3>1 DEF TakeJob, MayTry, Free
  <2> QED BY <1>1, <2>1, <2>2, <2>3 DEF ChargeInv, InLane
<1>8. CASE Reserve
  <2> DEFINE l == LaneOf[cur]
  <2>1. /\ cur \in Pod /\ l \in Lane /\ Units[cur] \in Int /\ granted \subseteq Pod
        /\ taken \in [Lane -> Int] /\ base \in [Lane -> Int]
    BY <1>8, AdmissionAssumption DEF Reserve, ChargeInv, TypeOK
  <2>2. /\ cur' = cur /\ base' = base /\ batch' = batch /\ cpc' = "pop"
        /\ granted' = granted \cup {cur}
        /\ taken' = [taken EXCEPT ![l] = taken[l] + Units[cur]]
    BY <1>8 DEF Reserve
  <2>3. cur \notin granted \cup batch /\ taken[l] + Units[cur] <= Capacity[l]
    BY <1>8 DEF Reserve, ChargeInv
  <2>4. InLane(granted', l) = InLane(granted, l) \cup {cur}
    BY <2>1, <2>2 DEF InLane
  <2>5. UnitsOf(InLane(granted', l)) = UnitsOf(InLane(granted, l)) + Units[cur]
    <3>1. InLane(granted, l) \in SUBSET Pod /\ cur \notin InLane(granted, l)
      BY <2>1, <2>3 DEF InLane
    <3> QED BY <2>1, <2>4, <3>1, UnitsAdd
  <2>6. \A k \in Lane \ {l} : InLane(granted', k) = InLane(granted, k) /\ taken'[k] = taken[k]
    BY <2>1, <2>2 DEF InLane
  <2>7. \A k \in Lane : taken[k] = base[k] + UnitsOf(InLane(granted, k))
    BY <1>8 DEF Reserve, ChargeInv
  <2>8. UnitsOf(InLane(granted, l)) \in Int
    <3>1. InLane(granted, l) \in SUBSET Pod
      BY <2>1 DEF InLane
    <3> QED BY <3>1, UnitsType
  <2>9. taken'[l] = taken[l] + Units[cur]
    BY <2>1, <2>2
  <2> HIDE DEF l
  <2>10. \A k \in Lane : taken'[k] = base'[k] + UnitsOf(InLane(granted', k))
    <3> TAKE k \in Lane
    <3>1. CASE k = l
      <4>1. taken[l] = base[l] + UnitsOf(InLane(granted, l)) /\ base[l] \in Int
        BY <2>1, <2>7
      <4> QED BY <2>1, <2>2, <2>5, <2>8, <2>9, <3>1, <4>1
    <3>2. CASE k # l
      BY <2>2, <2>6, <2>7, <3>2
    <3> QED BY <3>1, <3>2
  <2>11. \A k \in Lane : InLane(granted', k) # {} => taken'[k] <= Capacity[k]
    BY <2>1, <2>3, <2>6, <2>9 DEF ChargeInv
  <2> QED BY <1>1, <2>2, <2>3, <2>10, <2>11 DEF ChargeInv
<1>9. CASE Unreserve
  <2> DEFINE l == LaneOf[cur]
             S == InLane(granted', l)
  <2>1. /\ cur \in Pod /\ l \in Lane /\ Units[cur] \in Nat /\ granted \subseteq Pod
        /\ taken \in [Lane -> Int] /\ base \in [Lane -> Int] /\ Capacity[l] \in Int
    <3>1. cur \in Pod /\ TypeOK
      BY <1>9 DEF Unreserve, ChargeInv, TypeOK
    <3>2. l \in Lane /\ Units[cur] \in Nat /\ Capacity[l] \in Int
      BY <3>1, AdmissionAssumption
    <3> QED BY <3>1, <3>2 DEF TypeOK
  <2>2. /\ cur' = cur /\ base' = base /\ batch' = batch /\ cpc' = "next"
        /\ granted' = granted \ {cur}
        /\ taken' = [taken EXCEPT ![l] = taken[l] - Units[cur]]
    BY <1>9 DEF Unreserve
  <2>3. cur \in granted
    BY <1>9 DEF Unreserve, ChargeInv
  <2>4. InLane(granted, l) = S \cup {cur} /\ cur \notin S /\ S \in SUBSET Pod
    BY <2>1, <2>2, <2>3 DEF InLane
  <2> HIDE DEF S
  <2>5. UnitsOf(InLane(granted, l)) = UnitsOf(S) + Units[cur] /\ UnitsOf(S) \in Int
    BY <2>1, <2>4, UnitsAdd, UnitsType
  <2>6. \A k \in Lane \ {l} : InLane(granted', k) = InLane(granted, k) /\ taken'[k] = taken[k]
    BY <2>1, <2>2 DEF InLane
  <2>7. \A k \in Lane : taken[k] = base[k] + UnitsOf(InLane(granted, k))
    BY <1>9 DEF Unreserve, ChargeInv
  <2>8. taken'[l] = taken[l] - Units[cur] /\ taken[l] \in Int /\ base[l] \in Int
    BY <2>1, <2>2
  <2>9. taken[l] <= Capacity[l]
    BY <2>1, <2>4 DEF ChargeInv
  <2>10. taken'[l] = base'[l] + UnitsOf(InLane(granted', l)) /\ taken'[l] <= Capacity[l]
    <3>1. taken[l] = base[l] + UnitsOf(InLane(granted, l))
      BY <2>1, <2>7
    <3>2. base' = base /\ InLane(granted', l) = S
      BY <2>2 DEF S
    <3> HIDE DEF l
    <3> QED BY <2>1, <2>5, <2>8, <2>9, <3>1, <3>2
  <2> HIDE DEF l
  <2>11. \A k \in Lane : taken'[k] = base'[k] + UnitsOf(InLane(granted', k))
    BY <2>2, <2>6, <2>7, <2>10
  <2>12. \A k \in Lane : InLane(granted', k) # {} => taken'[k] <= Capacity[k]
    BY <2>6, <2>10 DEF ChargeInv
  <2> QED BY <1>1, <2>2, <2>11, <2>12 DEF ChargeInv
<1>10. CASE cpc' = "idle" /\ EndCycle
  BY <1>1, <1>10 DEF ChargeInv, EndCycle, InLane
<1>11. CASE UNCHANGED <<cur, batch, stale, taken, base, granted>> /\ cpc \notin BeforeLoop
            /\ cpc' \notin BeforeLoop \cup {"dispatch", "reserve"}
            /\ (cpc' = "unreserve" => cpc = "pop") /\ cpc' # "pop" /\ cpc # "dispatch"
  BY <1>1, <1>11 DEF ChargeInv, InLane
<1>12. CASE UNCHANGED <<batch, taken, base, granted>> /\ {cpc, cpc'} \subseteq BeforeLoop
  BY <1>1, <1>12 DEF ChargeInv, InLane
<1>13. CASE Sweep
  BY <1>10, <1>12, <1>13 DEF Sweep, SweepBegin, SweepKeep, SweepStale, SweepAdmitted,
     SweepReserved, SweepRaises, SweepEnd, EndCycle
<1>14. CASE RequeueCheck \/ Requeue \/ PopPending
  BY <1>11, <1>14 DEF RequeueCheck, Requeue, Resubmit, PopPending
<1>15. CASE AdmitPod
  BY <1>10, <1>11, <1>15 DEF AdmitPod, PatchSucceeds, PatchFails, PatchNotFound,
     PatchReplyLost, PatchRaises, MarkAdmitted, MarkAttempts, FailReserved, FailGone,
     FailCount, FailPending, FailSubmit, Resubmit, GiveUp, GiveUpJobs, GiveUpPending,
     EndCycle
<1>16. CASE CycleDone
  BY <1>10, <1>16 DEF CycleDone, EndCycle
<1> QED
  BY <1>2, <1>3, <1>4, <1>5, <1>6, <1>7, <1>8, <1>9, <1>12, <1>13, <1>14, <1>15,
     <1>16, OthersKeepCycle DEF CycleNext, RunCycle

(* No cycle reserves more than its own reads left free in a lane, however  *)
(* many jobs it admits, whatever the API server answers and whatever the   *)
(* watch does meanwhile (the running total of _run_cycle).                 *)
THEOREM CycleStaysWithinFree == Spec => []CycleWithinFree
<1>1. Init => ChargeInv
  <2> SUFFICES ASSUME Init PROVE ChargeInv
    OBVIOUS
  <2>1. TypeOK
    BY InitType
  <2>2. granted = {} /\ batch = {} /\ cpc = "idle"
    BY DEF Init
  <2>3. \A l \in Lane : InLane(granted, l) = {}
    BY <2>2 DEF InLane
  <2> QED BY <2>1, <2>2, <2>3 DEF ChargeInv, BeforeLoop
<1>2. ChargeInv /\ [Next]_vars => ChargeInv'
  BY ChargeStep
<1>3. ChargeInv => CycleWithinFree
  <2> SUFFICES ASSUME ChargeInv, NEW l \in Lane, InLane(granted, l) # {}
               PROVE  base[l] + UnitsOf(InLane(granted, l)) <= Capacity[l]
    BY DEF CycleWithinFree
  <2>1. cpc \notin BeforeLoop
    BY DEF ChargeInv, InLane
  <2> QED BY <2>1 DEF ChargeInv
<1> QED BY <1>1, <1>2, <1>3, PTL DEF Spec
-----------------------------------------------------------------------------
(* NoPodLostSilently, ReservationDiesWithPod, PatchedWithReservation.      *)

LEMMA EventsEmpty == Events(<<>>) = {}
BY DEF Events

LEMMA EventsAppend ==
  ASSUME NEW s \in Seq(Status), NEW e \in Status
  PROVE  Events(Append(s, e)) = Events(s) \cup {e}
<1>1. DOMAIN Append(s, e) = 1..Len(s) + 1 /\ DOMAIN s = 1..Len(s) /\ Len(s) \in Nat
  OBVIOUS
<1>2. Append(s, e)[Len(s) + 1] = e /\ \A i \in 1..Len(s) : Append(s, e)[i] = s[i]
  OBVIOUS
<1>3. 1..Len(s) + 1 = (1..Len(s)) \cup {Len(s) + 1}
  BY <1>1
<1> QED BY <1>1, <1>2, <1>3 DEF Events

LEMMA EventsTail ==
  ASSUME NEW s \in Seq(Status), s # <<>>
  PROVE  Events(s) = {Head(s)} \cup Events(Tail(s))
<1>1. /\ DOMAIN s = 1..Len(s) /\ Len(s) \in Nat /\ Len(s) # 0
      /\ DOMAIN Tail(s) = 1..Len(s) - 1
      /\ \A i \in 1..Len(s) - 1 : Tail(s)[i] = s[i + 1]
      /\ Head(s) = s[1]
  OBVIOUS
<1>2. ASSUME NEW e \in Events(s) PROVE e \in {Head(s)} \cup Events(Tail(s))
  <2>1. PICK i \in 1..Len(s) : e = s[i]
    BY <1>1 DEF Events
  <2>2. CASE i = 1
    BY <1>1, <2>1, <2>2
  <2>3. CASE i # 1
    <3>1. i - 1 \in 1..Len(s) - 1 /\ (i - 1) + 1 = i
      BY <1>1, <2>1, <2>3
    <3> QED BY <1>1, <2>1, <3>1 DEF Events
  <2> QED BY <2>2, <2>3
<1>3. ASSUME NEW e \in Events(Tail(s)) PROVE e \in Events(s)
  <2>1. PICK i \in 1..Len(s) - 1 : e = s[i + 1]
    BY <1>1 DEF Events
  <2>2. i + 1 \in 1..Len(s)
    BY <1>1, <2>1
  <2> QED BY <1>1, <2>1, <2>2 DEF Events
<1>4. Head(s) \in Events(s)
  BY <1>1 DEF Events
<1> QED BY <1>2, <1>3, <1>4

LEMMA WatchFate ==
  ASSUME FateInv, WatchNext, NEW p \in Pod
  PROVE  PodInv(p)'
<1> USE DEF PodInv, AbsentUnknown, GatedHeard, GatedKnown, PendingHasJob, DeletedReleases,
            BackoffCounted, GiveUpRecorded, CycleHas, Watching, WatchGoto
<1>0. TypeOK /\ PodInv(p)
  BY DEF FateInv
<1>1. ASSUME NEW o \in Pod, TakeEvent(o) PROVE PodInv(p)'
  <2>1. /\ stream[o] \in Seq(Status) /\ stream[o] # <<>>
        /\ wpc = "idle" /\ wpod' = o /\ wev' = Head(stream[o])
        /\ wpc' = IF wev' = "gated" THEN "enqueueCheck" ELSE "dequeuePending"
        /\ UNCHANGED <<api, maps, was_pending, was_admitted, cycle, fates>>
    BY <1>0, <1>1 DEF TakeEvent, TypeOK
  <2>2. stream'[p] = IF p = o THEN Tail(stream[o]) ELSE stream[p]
    BY <1>0, <1>1 DEF TakeEvent, TypeOK
  <2>3. Events(stream[o]) = {Head(stream[o])} \cup Events(Tail(stream[o]))
    BY <2>1, EventsTail
  <2>4. CASE p = o
    BY <1>0, <2>1, <2>2, <2>3, <2>4
  <2>5. CASE p # o
    BY <1>0, <2>1, <2>2, <2>5
  <2> QED BY <2>4, <2>5
<1>2. CASE EnqueueCheck
  BY <1>0, <1>2 DEF EnqueueCheck
<1>3. CASE EnqueueSubmit
  BY <1>0, <1>3 DEF EnqueueSubmit, TypeOK
<1>4. CASE DequeuePending
  BY <1>0, <1>4 DEF DequeuePending
<1>5. CASE DequeueAdmitted
  BY <1>0, <1>5 DEF DequeueAdmitted
<1>6. CASE DequeueReserved
  BY <1>0, <1>6 DEF DequeueReserved
<1>7. CASE DequeueAttempts
  BY <1>0, <1>7 DEF DequeueAttempts, TypeOK
<1>8. CASE DequeueJob
  BY <1>0, <1>8 DEF DequeueJob, TypeOK
<1>9. CASE ToPendingCheck
  BY <1>0, <1>9 DEF ToPendingCheck
<1>10. CASE ToPendingAdd
  BY <1>0, <1>10 DEF ToPendingAdd
<1>11. CASE ToPendingRelease
  BY <1>0, <1>11 DEF ToPendingRelease
<1>12. CASE ToRunningRelease
  BY <1>0, <1>12 DEF ToRunningRelease
<1>13. CASE ToRunningRemove
  BY <1>0, <1>13 DEF ToRunningRemove
<1>14. CASE ToRunningAdd
  BY <1>0, <1>14 DEF ToRunningAdd
<1>15. CASE GoneRunning
  BY <1>0, <1>15 DEF GoneRunning
<1>16. CASE GonePending
  BY <1>0, <1>16 DEF GonePending
<1>17. CASE GoneReserved
  BY <1>0, <1>17 DEF GoneReserved
<1> QED
  BY <1>1, <1>2, <1>3, <1>4, <1>5, <1>6, <1>7, <1>8, <1>9, <1>10, <1>11, <1>12, <1>13, <1>14, <1>15, <1>16, <1>17
  DEF WatchNext, WatchHandler

LEMMA ClusterFate ==
  ASSUME FateInv, NEW o \in Pod, ClusterStep(o), NEW p \in Pod
  PROVE  PodInv(p)'
<1> USE DEF PodInv, AbsentUnknown, GatedHeard, GatedKnown, PendingHasJob, DeletedReleases,
            BackoffCounted, GiveUpRecorded, CycleHas, Watching
<1>0. TypeOK /\ PodInv(p) /\ UNCHANGED <<maps, watch, cycle, fates>>
  BY DEF FateInv, ClusterStep
<1>1. ASSUME NEW s \in Status, SetStatus(o, s)
      PROVE  /\ api'[o] = s /\ Events(stream'[o]) = Events(stream[o]) \cup {s}
             /\ p # o => api'[p] = api[p] /\ stream'[p] = stream[p]
  <2>1. stream[o] \in Seq(Status) /\ stream'[o] = Append(stream[o], s)
    BY <1>0, <1>1 DEF SetStatus, TypeOK
  <2> QED BY <1>0, <1>1, <2>1, EventsAppend DEF SetStatus, TypeOK
<1>2. PICK s \in Status : SetStatus(o, s)
  BY <1>0 DEF ClusterStep, Create, Touch, Bind, Run, Finish, Delete, Status, TypeOK
<1>3. CASE p # o
  BY <1>0, <1>1, <1>2, <1>3
<1>4. ASSUME p = o, Create(o) PROVE PodInv(p)'
  <2>1. api[o] = "absent" /\ \E t \in {"gated", "unbound"} : SetStatus(o, t)
    BY <1>4 DEF Create
  <2> QED BY <1>0, <1>1, <1>4, <2>1 DEF Status
<1>5. ASSUME p = o, Touch(o) PROVE PodInv(p)'
  <2>1. api[o] \in {"gated", "unbound", "bound"} /\ SetStatus(o, api[o])
    BY <1>5 DEF Touch
  <2> QED BY <1>0, <1>1, <1>5, <2>1 DEF Status
<1>6. ASSUME p = o, Bind(o) \/ Run(o) \/ Finish(o) \/ Delete(o) PROVE PodInv(p)'
  <2>1. api[o] # "absent" /\ \E t \in {"bound", "running", "finished", "deleted"} : SetStatus(o, t)
    BY <1>6 DEF Bind, Run, Finish, Delete
  <2> QED BY <1>0, <1>1, <1>6, <2>1 DEF Status
<1> QED BY <1>3, <1>4, <1>5, <1>6 DEF ClusterStep

LEMMA NoPodIsNone == NoPod \notin Pod
BY AdmissionAssumption

LEMMA CycleFate ==
  ASSUME FateInv, CycleNext, NEW p \in Pod
  PROVE  PodInv(p)'
<1> USE DEF PodInv, AbsentUnknown, GatedHeard, GatedKnown, PendingHasJob, DeletedReleases,
            BackoffCounted, GiveUpRecorded, CycleHas, Watching, CycleGoto
<1>0. TypeOK /\ PodInv(p) /\ BatchDuringLoop
  BY DEF FateInv
<1> DEFINE Applied == cpc = "patch" /\ Exists(cur) /\ ApplyPatch(cur)
<1>30. ASSUME Applied, cur = p
       PROVE  /\ api[p] \notin {"absent", "deleted"}
              /\ api'[p] \notin {"absent", "gated", "deleted"}
  BY <1>0, <1>30 DEF ApplyPatch, Exists, SetStatus, TypeOK
<1>31. ASSUME Applied, cur # p PROVE api'[p] = api[p] /\ stream'[p] = stream[p]
  BY <1>0, <1>31 DEF ApplyPatch, SetStatus, TypeOK
<1>1. CASE ReadRunning
  BY <1>0, <1>1 DEF ReadRunning
<1>2. CASE ReadPending
  BY <1>0, <1>2 DEF ReadPending
<1>3. CASE ReadAdmitted
  BY <1>0, <1>3 DEF ReadAdmitted
<1>4. CASE Dispatch
  <2>1. PICK D \in SUBSET Pod :
           /\ batch' = D
           /\ queue'[p] = queue[p] - (IF p \in D THEN 1 ELSE 0)
           /\ p \in D => queue[p] > 0
    BY <1>4 DEF Dispatch, Rule!Selections
  <2>2. queue[p] \in Nat /\ (p \notin D => queue'[p] = queue[p])
    BY <1>0, <2>1 DEF TypeOK
  <2>3. /\ UNCHANGED <<cluster, pending, admitted, reserved, attempts, backoff, watch, cur,
                       stale, fates>>
        /\ cpc = "dispatch" /\ cpc' = "next"
    BY <1>4 DEF Dispatch
  <2>4. batch = {}
    BY <1>0, <2>3 DEF BatchDuringLoop, BeforeLoop
  <2>5. CASE p \in D
    BY <1>0, <2>1, <2>2, <2>3, <2>5
  <2>6. CASE p \notin D
    BY <1>0, <2>1, <2>2, <2>3, <2>4, <2>6
  <2> QED BY <2>5, <2>6
<1>5. CASE CycleDone
  BY <1>0, <1>5, NoPodIsNone DEF CycleDone, EndCycle
<1>6. CASE RequeueCheck
  BY <1>0, <1>6 DEF RequeueCheck
<1>7. CASE Requeue
  BY <1>0, <1>7 DEF Requeue, Resubmit, TypeOK
<1>8. CASE Reserve
  BY <1>0, <1>8 DEF Reserve
<1>9. CASE PopPending
  BY <1>0, <1>9 DEF PopPending
<1>10. CASE Unreserve
  BY <1>0, <1>10 DEF Unreserve
<1>11. CASE PatchSucceeds
  <2>1. Applied /\ cpc' = "mark"
    BY <1>11 DEF PatchSucceeds
  <2> QED BY <1>0, <1>30, <1>31, <1>11, <2>1 DEF PatchSucceeds
<1>12. CASE PatchFails
  BY <1>0, <1>12 DEF PatchFails
<1>13. CASE PatchNotFound
  BY <1>0, <1>13 DEF PatchNotFound, Exists, TypeOK
<1>14. CASE PatchReplyLost
  <2>1. Applied /\ cpc' = "failReserved"
    BY <1>14 DEF PatchReplyLost
  <2> QED BY <1>0, <1>30, <1>31, <1>14, <2>1 DEF PatchReplyLost
<1>15. CASE PatchRaises
  BY <1>0, <1>15, NoPodIsNone DEF PatchRaises, EndCycle
<1>16. CASE MarkAdmitted
  BY <1>0, <1>16 DEF MarkAdmitted
<1>17. CASE MarkAttempts
  BY <1>0, <1>17 DEF MarkAttempts, ForgetAttempts, TypeOK
<1>18. CASE FailReserved
  BY <1>0, <1>18 DEF FailReserved
<1>19. CASE FailGone
  BY <1>0, <1>19 DEF FailGone, ForgetAttempts, TypeOK
<1>20. CASE FailCount
  BY <1>0, <1>20 DEF FailCount, TypeOK
<1>21. CASE FailPending
  BY <1>0, <1>21 DEF FailPending
<1>22. CASE FailSubmit
  BY <1>0, <1>22 DEF FailSubmit, Resubmit, TypeOK
<1>23. CASE GiveUp
  BY <1>0, <1>23 DEF GiveUp, ForgetAttempts, TypeOK
<1>24. CASE GiveUpJobs
  BY <1>0, <1>24 DEF GiveUpJobs, TypeOK
<1>25. CASE GiveUpPending
  BY <1>0, <1>25 DEF GiveUpPending
<1>26. CASE SweepAdmitted
  BY <1>0, <1>26 DEF SweepAdmitted
<1>27. CASE SweepReserved
  BY <1>0, <1>27, NoPodIsNone DEF SweepReserved
<1>28. ASSUME NEW o \in Pod, TakeJob(o) PROVE PodInv(p)'
  BY <1>0, <1>28 DEF TakeJob, MayTry
<1>29. ASSUME NEW o \in Pod, SweepStale(o) PROVE PodInv(p)'
  BY <1>0, <1>29 DEF SweepStale, PendingPhase
<1>32. CASE SweepBegin
  BY <1>0, <1>32 DEF SweepBegin
<1>33. CASE SweepEnd \/ SweepRaises
  <2>1. CASE SweepEnd
    BY <1>0, <2>1 DEF SweepEnd
  <2>2. CASE SweepRaises
    <3>1. batch = {}
      BY <1>0, <2>2 DEF SweepRaises, BatchDuringLoop, BeforeLoop
    <3> QED BY <1>0, <2>2, <3>1, NoPodIsNone DEF SweepRaises, EndCycle
  <2> QED BY <1>33, <2>1, <2>2
<1>34. ASSUME NEW o \in Pod, SweepKeep(o) PROVE PodInv(p)'
  BY <1>0, <1>34 DEF SweepKeep
<1> QED
  BY <1>1, <1>2, <1>3, <1>4, <1>5, <1>6, <1>7, <1>8, <1>9, <1>10, <1>11, <1>12,
     <1>13, <1>14, <1>15, <1>16, <1>17, <1>18, <1>19, <1>20, <1>21, <1>22, <1>23,
     <1>24, <1>25, <1>26, <1>27, <1>28, <1>29, <1>32, <1>33, <1>34
  DEF CycleNext, RunCycle, AdmitPod, Sweep

LEMMA FateStep ==
  ASSUME FateInv, [Next]_vars
  PROVE  FateInv'
<1>1. TypeOK'
  BY TypeStep DEF FateInv
<1>2. BatchDuringLoop'
  <2>1. CASE UNCHANGED cycle
    BY <2>1 DEF FateInv, BatchDuringLoop
  <2>2. CASE CycleNext
    <3> USE DEF FateInv, BatchDuringLoop, BeforeLoop, CycleGoto
    <3>1. CASE Sweep
      BY <3>1 DEF Sweep, SweepBegin, SweepKeep, SweepStale, SweepAdmitted, SweepReserved,
         SweepRaises, SweepEnd, EndCycle
    <3>2. CASE AdmitPod
      BY <3>2 DEF AdmitPod, PatchSucceeds, PatchFails, PatchNotFound, PatchReplyLost,
         PatchRaises, MarkAdmitted, MarkAttempts, FailReserved, FailGone, FailCount,
         FailPending, FailSubmit, Resubmit, GiveUp, GiveUpJobs, GiveUpPending, EndCycle
    <3>3. CASE ReadRunning \/ ReadPending \/ ReadAdmitted \/ Dispatch \/ CycleDone
      BY <3>3 DEF ReadRunning, ReadPending, ReadAdmitted, Dispatch, CycleDone, EndCycle
    <3>4. CASE RequeueCheck \/ Requeue \/ Reserve \/ PopPending \/ Unreserve
      BY <3>4 DEF RequeueCheck, Requeue, Resubmit, Reserve, PopPending, Unreserve
    <3>5. ASSUME NEW p \in Pod, TakeJob(p) PROVE BatchDuringLoop'
      BY <3>5 DEF TakeJob
    <3> QED BY <2>2, <3>1, <3>2, <3>3, <3>4, <3>5 DEF CycleNext, RunCycle
  <2> QED BY <2>1, <2>2, OthersKeepCycle
<1>3. ASSUME NEW p \in Pod PROVE PodInv(p)'
  <2>1. CASE WatchNext
    BY <2>1, WatchFate
  <2>2. CASE CycleNext
    BY <2>2, CycleFate
  <2>3. ASSUME NEW o \in Pod, ClusterStep(o) PROVE PodInv(p)'
    BY <2>3, ClusterFate
  <2> USE DEF PodInv, AbsentUnknown, GatedHeard, GatedKnown, PendingHasJob,
              DeletedReleases, BackoffCounted, GiveUpRecorded, CycleHas, Watching
  <2>4. ASSUME NEW o \in Pod, RetryTimePasses(o) PROVE PodInv(p)'
    BY <2>4 DEF FateInv, RetryTimePasses
  <2>5. CASE UNCHANGED vars
    BY <2>5 DEF FateInv, vars
  <2> QED BY <2>1, <2>2, <2>3, <2>4, <2>5 DEF Next
<1> QED BY <1>1, <1>2, <1>3 DEF FateInv

LEMMA FateInit ==
  ASSUME Init
  PROVE  FateInv
<1>1. TypeOK /\ BatchDuringLoop
  BY InitType DEF Init, BatchDuringLoop, BeforeLoop
<1>2. ASSUME NEW p \in Pod PROVE PodInv(p)
  <2>1. /\ api[p] = "absent" /\ Events(stream[p]) = {} /\ queue[p] = 0
        /\ wpc = "idle" /\ cpc = "idle" /\ cur # p
    BY EventsEmpty, NoPodIsNone DEF Init
  <2> QED BY <2>1 DEF Init, PodInv, AbsentUnknown, GatedHeard, GatedKnown, PendingHasJob,
        DeletedReleases, BackoffCounted, GiveUpRecorded, CycleHas, Watching
<1> QED BY <1>1, <1>2 DEF FateInv

LEMMA FateInvariant == Spec => []FateInv
<1>1. Init => FateInv
  BY FateInit
<1>2. FateInv /\ [Next]_vars => FateInv'
  BY FateStep
<1> QED BY <1>1, <1>2, PTL DEF Spec

(* A gated pod whose events have been handled is pending with a job in the *)
(* scheduler, in the cycle's hands, given up, or was held by a cycle that  *)
(* an exception ended: no order of events, retries and failed patches      *)
(* loses it (_enqueue, _run_cycle, _handle_admit_failure).                 *)
THEOREM NoPodLost == Spec => []NoPodLostSilently
<1>1. FateInv => NoPodLostSilently
  <2> SUFFICES ASSUME FateInv, NEW p \in Pod, api[p] = "gated", Settled(p)
               PROVE  \/ p \in pending /\ queue[p] > 0
                      \/ Held(p) \/ p \in gaveUp \/ p \in dropped
    BY DEF NoPodLostSilently
  <2>1. Events(stream[p]) = {} /\ ~Watching(p)
    BY EventsEmpty DEF Settled, Watching
  <2> QED BY <2>1 DEF FateInv, PodInv, GatedKnown, PendingHasJob, CycleHas, Held
<1> QED BY <1>1, FateInvariant, PTL

(* No reservation outlives its pod, whatever the patch's reply said and    *)
(* however often the pod was dispatched (the releases of _run_cycle,       *)
(* _admit_pod and _handle_pod_event).                                      *)
THEOREM ReservationReleased == Spec => []ReservationDiesWithPod
<1>1. FateInv => ReservationDiesWithPod
  <2> SUFFICES ASSUME FateInv, NEW p \in Pod, api[p] = "deleted", Settled(p), ~Held(p),
                      p \notin dropped
               PROVE  p \notin reserved
    BY DEF ReservationDiesWithPod
  <2>1. Events(stream[p]) = {} /\ ~Watching(p)
    BY EventsEmpty DEF Settled, Watching
  <2> QED BY <2>1 DEF FateInv, PodInv, DeletedReleases, CycleHas, Held
<1> QED BY <1>1, FateInvariant, PTL

(* The gate is removed only while the pod's units are reserved and its     *)
(* retry time has passed (_run_cycle, _dequeue, _sweep_stale_admitted).    *)
THEOREM PatchReserved == Spec => []PatchedWithReservation
<1>1. FateInv => PatchedWithReservation
  <2> SUFFICES ASSUME FateInv, cpc = "patch", api[cur] = "gated"
               PROVE  cur \in reserved /\ cur \notin backoff
    BY DEF PatchedWithReservation
  <2>1. cur \in Pod
    BY DEF FateInv, TypeOK
  <2> QED BY <2>1 DEF FateInv, PodInv, BackoffCounted, CycleHas
<1> QED BY <1>1, FateInvariant, PTL

-----------------------------------------------------------------------------
(* OverCommitsOnlyUnread.                                                  *)

(* The pod that is being patched is one of those the cycle charged.        *)
PatchCharged == cpc = "patch" => cur \in granted

LEMMA PatchChargedStep ==
  ASSUME ChargeInv, PatchCharged, [Next]_vars
  PROVE  PatchCharged'
<1> USE DEF CycleGoto
<1>1. CASE UNCHANGED cycle
  BY <1>1 DEF PatchCharged
<1>2. CASE PopPending
  BY <1>2 DEF PopPending, PatchCharged, ChargeInv
<1>3. CASE CycleNext /\ ~PopPending
  <2>1. cpc' # "patch"
    BY <1>3 DEF CycleNext, RunCycle, AdmitPod, Sweep, ReadRunning, ReadPending, ReadAdmitted,
       Dispatch, CycleDone, RequeueCheck, Requeue, Resubmit, Reserve, Unreserve, TakeJob,
       PatchSucceeds, PatchFails, PatchNotFound, PatchReplyLost, PatchRaises, MarkAdmitted,
       MarkAttempts, FailReserved, FailGone, FailCount, FailPending, FailSubmit, GiveUp,
       GiveUpJobs, GiveUpPending, SweepBegin, SweepKeep, SweepStale, SweepAdmitted,
       SweepReserved, SweepRaises, SweepEnd, EndCycle
  <2> QED BY <2>1 DEF PatchCharged
<1> QED BY <1>1, <1>2, <1>3, OthersKeepCycle

(* Only a patch lets a gated pod onto its lane.                            *)
LEMMA OnlyPatchesAdmit ==
  ASSUME TypeOK, [Next]_vars, NEW p \in Pod \ Bypass,
         api[p] \notin Occupying, api'[p] \in Occupying
  PROVE  /\ cpc = "patch" /\ cur = p /\ api' = [api EXCEPT ![p] = "unbound"]
         /\ UNCHANGED <<base, granted, taken>>
<1> USE DEF Occupying
<1>1. api' # api /\ api \in [Pod -> Status]
  BY DEF TypeOK
<1>2. ASSUME NEW o \in Pod, ClusterStep(o) PROVE FALSE
  <2>1. \A s : SetStatus(o, s) => api'[o] = s /\ \A r \in Pod \ {o} : api'[r] = api[r]
    BY <1>1 DEF SetStatus
  <2>2. o = p
    <3>1. \E s : SetStatus(o, s)
      BY <1>2 DEF ClusterStep, Create, Touch, Bind, Run, Finish, Delete
    <3> QED BY <2>1, <3>1
  <2>3. CASE Create(o)
    BY <2>1, <2>2, <2>3 DEF Create
  <2>4. CASE Touch(o)
    BY <2>1, <2>2, <2>4 DEF Touch
  <2>5. CASE Bind(o) \/ Run(o) \/ Finish(o) \/ Delete(o)
    BY <2>1, <2>2, <2>5 DEF Bind, Run, Finish, Delete
  <2> QED BY <1>2, <2>3, <2>4, <2>5 DEF ClusterStep
<1>3. CASE PatchSucceeds \/ PatchReplyLost
  <2>1. cpc = "patch" /\ ApplyPatch(cur) /\ UNCHANGED <<base, granted, taken>>
    BY <1>3 DEF PatchSucceeds, PatchReplyLost, CycleGoto
  <2>2. api' = [api EXCEPT ![cur] = "unbound"]
    BY <1>1, <2>1 DEF ApplyPatch, SetStatus
  <2>3. cur = p
    BY <1>1, <2>2
  <2> QED BY <2>1, <2>2, <2>3
<1>4. CASE WatchNext
  BY <1>1, <1>4 DEF WatchNext, WatchHandler, TakeEvent, EnqueueCheck, EnqueueSubmit,
     DequeuePending, DequeueAdmitted, DequeueReserved, DequeueAttempts, DequeueJob,
     ToPendingCheck, ToPendingAdd, ToPendingRelease, ToRunningRelease,
     ToRunningRemove, ToRunningAdd, GoneRunning, GonePending, GoneReserved
<1>5. CASE RunCycle \/ Sweep
  BY <1>1, <1>5 DEF RunCycle, Sweep, ReadRunning, ReadPending, ReadAdmitted,
     Dispatch, CycleDone, RequeueCheck, Requeue, Resubmit, Reserve, PopPending, Unreserve,
     TakeJob, SweepBegin, SweepKeep, SweepStale, SweepAdmitted, SweepReserved,
     SweepRaises, SweepEnd
<1>6. CASE AdmitPod
  BY <1>1, <1>3, <1>6 DEF AdmitPod, PatchFails, PatchNotFound, PatchRaises, MarkAdmitted,
     MarkAttempts, FailReserved, FailGone, FailCount, FailPending, FailSubmit, Resubmit,
     GiveUp, GiveUpJobs, GiveUpPending
<1>7. ASSUME NEW o \in Pod, RetryTimePasses(o) PROVE FALSE
  BY <1>1, <1>7 DEF RetryTimePasses
<1>8. CASE UNCHANGED vars
  BY <1>1, <1>8 DEF vars
<1> QED BY <1>2, <1>4, <1>5, <1>6, <1>7, <1>8 DEF Next, CycleNext

(* A union has no more units than its parts.                               *)
LEMMA UnitsOfUnion ==
  ASSUME NEW S \in SUBSET Pod, NEW T \in SUBSET Pod
  PROVE  UnitsOf(S \cup T) <= UnitsOf(S) + UnitsOf(T)
<1>1. GPUs(S \cup T) = GPUs(S) \cup GPUs(T)
  BY DEF GPUs
<1>2. /\ IsFiniteSet(GPUs(S)) /\ IsFiniteSet(GPUs(T))
      /\ UnitsOf(S) \in Nat /\ UnitsOf(T) \in Nat
  BY UnitsType
<1>3. /\ IsFiniteSet(GPUs(S) \cap GPUs(T))
      /\ Cardinality(GPUs(S) \cup GPUs(T))
           = Cardinality(GPUs(S)) + Cardinality(GPUs(T)) - Cardinality(GPUs(S) \cap GPUs(T))
  BY <1>2, FS_Union, FS_Intersection
<1>4. Cardinality(GPUs(S) \cap GPUs(T)) \in Nat
  BY <1>3, FS_CardinalityType
<1>5. UnitsOf(S \cup T) = Cardinality(GPUs(S) \cup GPUs(T))
  BY <1>1 DEF UnitsOf
<1>6. /\ UnitsOf(S) = Cardinality(GPUs(S)) /\ UnitsOf(T) = Cardinality(GPUs(T))
      /\ Cardinality(GPUs(S)) \in Nat /\ Cardinality(GPUs(T)) \in Nat
  BY <1>2 DEF UnitsOf
<1> QED BY ONLY <1>3, <1>4, <1>5, <1>6

LEMMA UnitsOfSubset ==
  ASSUME NEW T \in SUBSET Pod, NEW S \in SUBSET T
  PROVE  UnitsOf(S) <= UnitsOf(T)
<1>1. GPUs(S) \subseteq GPUs(T)
  BY DEF GPUs
<1>2. IsFiniteSet(GPUs(T))
  BY UnitsType
<1> QED BY <1>1, <1>2, FS_Subset DEF UnitsOf

(* An admission over-commits a lane only if the reads of its cycle missed  *)
(* units that pods hold which the cycle did not admit itself: the running  *)
(* total of _run_cycle covers all that it admits, for any pods, units,     *)
(* capacities and K, and with replies that are lost.                       *)
THEOREM OverCommitsExplained == Spec => OverCommitsOnlyUnread
<1>1. Init => ChargeInv /\ PatchCharged
  <2> SUFFICES ASSUME Init PROVE ChargeInv /\ PatchCharged
    OBVIOUS
  <2>1. TypeOK
    BY InitType
  <2>2. granted = {} /\ batch = {} /\ cpc = "idle"
    BY DEF Init
  <2>3. \A l \in Lane : InLane(granted, l) = {}
    BY <2>2 DEF InLane
  <2> QED BY <2>1, <2>2, <2>3 DEF ChargeInv, BeforeLoop, PatchCharged
<1>2. ChargeInv /\ PatchCharged /\ [Next]_vars => ChargeInv' /\ PatchCharged'
  BY ChargeStep, PatchChargedStep
<1> DEFINE Accounted == \A p \in Pod \ Bypass :
             api[p] \notin Occupying /\ api'[p] \in Occupying =>
               LET l == LaneOf[p] IN
               \/ UnitsOf(Occupants(l)') <= Capacity[l]
               \/ base[l] < UnitsOf(Occupants(l) \ granted)
<1>3. ChargeInv /\ PatchCharged /\ [Next]_vars => Accounted
  <2> SUFFICES ASSUME ChargeInv, PatchCharged, [Next]_vars, NEW p \in Pod \ Bypass,
                      api[p] \notin Occupying, api'[p] \in Occupying,
                      ~(base[LaneOf[p]] < UnitsOf(Occupants(LaneOf[p]) \ granted))
               PROVE  UnitsOf(Occupants(LaneOf[p])') <= Capacity[LaneOf[p]]
    OBVIOUS
  <2> DEFINE l == LaneOf[p]
             G == InLane(granted, l)
             O == Occupants(l) \ granted
             N == Occupants(l)'
  <2>1. /\ l \in Lane /\ Capacity[l] \in Int /\ base[l] \in Int /\ TypeOK
    <3>1. TypeOK
      BY DEF ChargeInv
    <3>2. base \in [Lane -> Int]
      BY <3>1 DEF TypeOK
    <3>3. l \in Lane
      BY AdmissionAssumption
    <3>4. Capacity[l] \in Int
      BY <3>3, AdmissionAssumption
    <3> QED BY <3>1, <3>2, <3>3, <3>4
  <2>2. cpc = "patch" /\ cur = p /\ api' = [api EXCEPT ![p] = "unbound"]
    BY <2>1, OnlyPatchesAdmit
  <2>3. p \in G
    BY <2>2 DEF PatchCharged, InLane
  <2>4. taken[l] = base[l] + UnitsOf(G) /\ taken[l] <= Capacity[l]
    BY <2>1, <2>2, <2>3 DEF ChargeInv, BeforeLoop
  <2>5. N \subseteq O \cup G /\ O \subseteq Pod /\ G \subseteq Pod
    <3>1. N = {r \in Pod : api'[r] \in Occupying /\ LaneOf[r] = l}
      BY DEF Occupants, InLane
    <3>2. \A r \in Pod : api'[r] \in Occupying => r = p \/ api[r] \in Occupying
      BY <2>1, <2>2 DEF TypeOK
    <3>3. G \subseteq Pod /\ O \subseteq Pod
      BY <2>1 DEF TypeOK, InLane, Occupants
    <3> QED BY <2>3, <3>1, <3>2, <3>3 DEF Occupants, InLane
  <2> HIDE DEF l, G, O, N
  <2>6. UnitsOf(N) <= UnitsOf(O \cup G) /\ UnitsOf(O \cup G) <= UnitsOf(O) + UnitsOf(G)
    <3>1. O \cup G \in SUBSET Pod
      BY <2>5
    <3> QED BY <2>5, <3>1, UnitsOfSubset, UnitsOfUnion
  <2>7. UnitsOf(N) \in Nat /\ UnitsOf(O) \in Nat /\ UnitsOf(G) \in Nat /\ UnitsOf(O \cup G) \in Nat
    <3>1. N \in SUBSET Pod /\ O \cup G \in SUBSET Pod
      BY <2>5
    <3> QED BY <2>5, <3>1, UnitsType
  <2>8. UnitsOf(O) <= base[l]
    BY <2>1, <2>7 DEF O, l
  <2>9. UnitsOf(N) <= Capacity[l]
    BY <2>1, <2>4, <2>6, <2>7, <2>8
  <2> QED BY <2>9 DEF N, l
<1> QED BY <1>1, <1>2, <1>3, PTL DEF Spec, OverCommitsOnlyUnread

-----------------------------------------------------------------------------
(* ImplementsJobPool.                                                      *)

(* A job is taken off the batch before it is decided on.                   *)
DecidedOnce == cpc \in Deciding => cur \notin batch

LEMMA DecidedOnceStep ==
  ASSUME DecidedOnce, [Next]_vars
  PROVE  DecidedOnce'
<1> USE DEF DecidedOnce, Deciding, CycleGoto
<1>1. CASE UNCHANGED cycle
  BY <1>1 DEF cycle
<1>2. ASSUME NEW p \in Pod, TakeJob(p) PROVE DecidedOnce'
  BY <1>2 DEF TakeJob
<1>3. CASE RunCycle /\ ~(\E p \in Pod : TakeJob(p))
  BY <1>3 DEF RunCycle, ReadRunning, ReadPending, ReadAdmitted, Dispatch, CycleDone,
     RequeueCheck, Requeue, Resubmit, Reserve, PopPending, Unreserve, EndCycle
<1>4. CASE AdmitPod
  BY <1>4 DEF AdmitPod, PatchSucceeds, PatchFails, PatchNotFound, PatchReplyLost,
     PatchRaises, MarkAdmitted, MarkAttempts, FailReserved, FailGone, FailCount,
     FailPending, FailSubmit, Resubmit, GiveUp, GiveUpJobs, GiveUpPending, EndCycle
<1>5. CASE Sweep
  BY <1>5 DEF Sweep, SweepBegin, SweepKeep, SweepStale, SweepAdmitted, SweepReserved,
     SweepRaises, SweepEnd, EndCycle
<1> QED BY <1>1, <1>2, <1>3, <1>4, <1>5, OthersKeepCycle DEF CycleNext

(* JobPool and the cycle choose by the same rule.                          *)
LEMMA SameRule ==
  ASSUME NEW S
  PROVE  Pool!Selections(S) = Rule!Selections(S)
<1>1. \A D, l : Pool!InLane(D, l) = Rule!InLane(D, l)
  BY DEF Rule!InLane, Pool!InLane
<1>2. \A D, l : Pool!GroupsIn(D, l) = Rule!GroupsIn(D, l)
  BY <1>1 DEF Rule!GroupsIn, Pool!GroupsIn
<1>3. \A A : Pool!Cardinality(A) = Rule!Cardinality(A)
  BY DEF Rule!Cardinality, Pool!Cardinality
<1>4. \A D : Pool!IsSelection(D, S) <=> Rule!IsSelection(D, S)
  BY <1>1, <1>2, <1>3 DEF Rule!IsSelection, Pool!IsSelection
<1> QED BY <1>4 DEF Rule!Selections, Pool!Selections

PoolStep == [Pool!Next]_(Pool!vars)

LEMMA PoolStutters ==
  ASSUME UNCHANGED <<queue, Handed>>
  PROVE  PoolStep
BY DEF PoolStep, Pool!vars

(* The watch submits at most one job (_enqueue) and removes at most one    *)
(* (_dequeue).                                                             *)
LEMMA WatchUsesPool ==
  ASSUME TypeOK, WatchNext
  PROVE  PoolStep
<1>1. UNCHANGED cycle
  BY DEF WatchNext, WatchHandler, TakeEvent, EnqueueCheck, EnqueueSubmit,
     DequeuePending, DequeueAdmitted, DequeueReserved, DequeueAttempts, DequeueJob,
     ToPendingCheck, ToPendingAdd, ToPendingRelease, ToRunningRelease,
     ToRunningRemove, ToRunningAdd, GoneRunning, GonePending, GoneReserved
<1>2. UNCHANGED Handed
  BY <1>1 DEF Handed, cycle
<1>3. CASE EnqueueSubmit
  <2>1. wpod \in Pod
    BY <1>3 DEF EnqueueSubmit, TypeOK
  <2>2. CASE wpod \in pending
    <3>1. UNCHANGED queue
      BY <1>3, <2>2 DEF EnqueueSubmit
    <3> QED BY <1>2, <3>1, PoolStutters
  <2>3. CASE wpod \notin pending
    <3>1. Pool!Submit(wpod)
      BY <1>2, <1>3, <2>3 DEF EnqueueSubmit, Pool!Submit
    <3> QED BY <2>1, <3>1 DEF PoolStep, Pool!Next
  <2> QED BY <2>2, <2>3
<1>4. CASE DequeueJob
  <2>1. wpod \in Pod
    BY <1>4 DEF DequeueJob, TypeOK
  <2>2. CASE was_pending /\ queue[wpod] > 0
    <3>1. Pool!Remove(wpod)
      BY <1>2, <1>4, <2>2 DEF DequeueJob, Pool!Remove
    <3> QED BY <2>1, <3>1 DEF PoolStep, Pool!Next
  <2>3. CASE ~(was_pending /\ queue[wpod] > 0)
    <3>1. UNCHANGED queue
      BY <1>4, <2>3 DEF DequeueJob
    <3> QED BY <1>2, <3>1, PoolStutters
  <2> QED BY <2>2, <2>3
<1>5. CASE WatchNext /\ ~EnqueueSubmit /\ ~DequeueJob
  <2>1. UNCHANGED queue
    BY <1>5 DEF WatchNext, WatchHandler, TakeEvent, EnqueueCheck, maps,
       DequeuePending, DequeueAdmitted, DequeueReserved, DequeueAttempts,
       ToPendingCheck, ToPendingAdd, ToPendingRelease, ToRunningRelease,
       ToRunningRemove, ToRunningAdd, GoneRunning, GonePending, GoneReserved
  <2> QED BY <1>2, <2>1, PoolStutters
<1> QED BY <1>3, <1>4, <1>5

(* The cycle takes its jobs from the pool only when it has answered those  *)
(* of the cycle before; with an empty pool it takes none.                  *)
LEMMA DispatchUsesPool ==
  ASSUME TypeOK, BatchDuringLoop, Dispatch
  PROVE  PoolStep
<1>1. Handed = {} /\ Handed' = batch'
  BY DEF Dispatch, Handed, Deciding, BatchDuringLoop
<1>2. Pool!Queued = {p \in Pod : queue[p] > 0}
  BY DEF Pool!Queued
<1>3. PICK D \in Rule!Selections({p \in Pod : queue[p] > 0}) :
        /\ batch' = D
        /\ queue' = [p \in Pod |-> queue[p] - (IF p \in D THEN 1 ELSE 0)]
  BY DEF Dispatch
<1>4. D \in Pool!Selections(Pool!Queued)
  BY <1>2, <1>3, SameRule
<1>5. CASE Pool!Queued # {}
  <2>1. Handed' = D
    BY <1>1, <1>3
  <2>2. Pool!Dispatch
    BY <1>1, <1>3, <1>4, <1>5, <2>1 DEF Pool!Dispatch
  <2> QED BY <2>2 DEF PoolStep, Pool!Next
<1>6. CASE Pool!Queued = {}
  <2>1. D = {}
    BY <1>4, <1>6 DEF Pool!Selections
  <2>2. queue \in [Pod -> Nat]
    BY DEF TypeOK
  <2>3. queue' = queue
    BY <1>3, <2>1, <2>2
  <2> QED BY <1>1, <1>3, <2>1, <2>3, PoolStutters
<1> QED BY <1>5, <1>6

(* Each job taken off the batch is answered once: admitted, dropped or     *)
(* submitted again.                                                        *)
LEMMA AnswersUsePool ==
  ASSUME TypeOK, BatchDuringLoop, DecidedOnce, CycleNext, ~Dispatch
  PROVE  PoolStep
<1> USE DEF Deciding, CycleGoto
<1>1. ASSUME cpc \in Deciding, cpc' \notin Deciding, batch' = batch, cur' = cur
      PROVE  cur \in Pod /\ cur \in Handed /\ Handed' = Handed \ {cur}
  BY <1>1 DEF DecidedOnce, Handed, TypeOK
<1>2. CASE \/ RequeueCheck /\ cur \notin pending
           \/ PopPending /\ cur \notin pending
           \/ PatchSucceeds \/ PatchNotFound \/ GiveUp
  <2>1. cpc \in Deciding /\ cpc' \notin Deciding /\ batch' = batch /\ cur' = cur /\ queue' = queue
    BY <1>2 DEF RequeueCheck, PopPending, PatchSucceeds, PatchNotFound, GiveUp, maps
  <2>2. Pool!Accept(cur) /\ cur \in Pod
    BY <1>1, <2>1 DEF Pool!Accept
  <2> QED BY <2>2 DEF PoolStep, Pool!Next
<1>3. CASE Requeue \/ FailSubmit
  <2>1. /\ cpc \in Deciding /\ cpc' \notin Deciding /\ batch' = batch /\ cur' = cur
        /\ queue' = [queue EXCEPT ![cur] = @ + 1]
    BY <1>3 DEF Requeue, FailSubmit, Resubmit
  <2>2. Pool!PutBack(cur) /\ cur \in Pod
    BY <1>1, <2>1 DEF Pool!PutBack
  <2> QED BY <2>2 DEF PoolStep, Pool!Next
<1>4. CASE PatchRaises
  <2>1. Pool!Abandon
    BY <1>4 DEF PatchRaises, EndCycle, Handed, Pool!Abandon, maps
  <2> QED BY <2>1 DEF PoolStep, Pool!Next
<1>5. CASE GiveUpJobs
  <2>1. Handed' = Handed /\ cur \in Pod
    BY <1>5 DEF GiveUpJobs, Handed, TypeOK
  <2>2. CASE queue[cur] > 0
    <3>1. Pool!Remove(cur)
      BY <1>5, <2>1, <2>2 DEF GiveUpJobs, Pool!Remove
    <3> QED BY <2>1, <3>1 DEF PoolStep, Pool!Next
  <2>3. CASE ~(queue[cur] > 0)
    <3>1. UNCHANGED queue
      BY <1>5, <2>3 DEF GiveUpJobs
    <3> QED BY <2>1, <3>1, PoolStutters
  <2> QED BY <2>2, <2>3
<1>6. ASSUME NEW p \in Pod, TakeJob(p) PROVE PoolStep
  <2>1. Handed' = Handed /\ UNCHANGED queue
    BY <1>6 DEF TakeJob, Handed, maps
  <2> QED BY <2>1, PoolStutters
<1>7. CASE \/ RequeueCheck /\ cur \in pending
           \/ PopPending /\ cur \in pending
           \/ PatchFails \/ PatchReplyLost \/ FailReserved \/ FailCount \/ FailPending
           \/ Reserve \/ Unreserve \/ MarkAdmitted \/ MarkAttempts \/ FailGone \/ GiveUpPending
  <2>1. Handed' = Handed /\ UNCHANGED queue
    BY <1>7 DEF RequeueCheck, PopPending, PatchFails, PatchReplyLost, FailReserved, FailCount,
       FailPending, Reserve, Unreserve, MarkAdmitted, MarkAttempts, FailGone, GiveUpPending,
       Handed, maps
  <2> QED BY <2>1, PoolStutters
<1>8. CASE ReadRunning \/ ReadPending \/ ReadAdmitted \/ CycleDone \/ Sweep
  <2>0. SweepRaises => batch' = batch /\ cpc \notin Deciding /\ cpc' \notin Deciding
                      /\ UNCHANGED queue
    BY DEF SweepRaises, EndCycle, maps, BatchDuringLoop, BeforeLoop
  <2>1. batch' = batch /\ cpc \notin Deciding /\ cpc' \notin Deciding /\ UNCHANGED queue
    BY <1>8, <2>0 DEF ReadRunning, ReadPending, ReadAdmitted, CycleDone, EndCycle, Sweep,
       SweepBegin, SweepKeep, SweepStale, SweepAdmitted, SweepReserved, SweepEnd, maps
  <2>2. Handed' = Handed
    BY <2>1 DEF Handed
  <2> QED BY <2>1, <2>2, PoolStutters
<1> QED BY <1>2, <1>3, <1>4, <1>5, <1>6, <1>7, <1>8 DEF CycleNext, RunCycle, AdmitPod

(* The two threads treat the scheduler as a bag of jobs: for any pods, any *)
(* interleaving of watch and cycle and any replies, a job a cycle was      *)
(* handed is answered once unless an exception ends that cycle, and no     *)
(* cycle is handed jobs before the last one's are answered.                *)
THEOREM AdmissionUsesAJobPool == Spec => ImplementsJobPool
<1>1. Init => Pool!Init /\ DecidedOnce
  BY DEF Init, Pool!Init, Handed, DecidedOnce, Deciding
<1>2. FateInv /\ DecidedOnce /\ [Next]_vars => DecidedOnce' /\ PoolStep
  <2> SUFFICES ASSUME FateInv, DecidedOnce, [Next]_vars PROVE DecidedOnce' /\ PoolStep
    OBVIOUS
  <2>1. TypeOK /\ BatchDuringLoop
    BY DEF FateInv
  <2>2. CASE WatchNext \/ CycleNext
    BY <2>1, <2>2, WatchUsesPool, DispatchUsesPool, AnswersUsePool, DecidedOnceStep
  <2>3. CASE ~WatchNext /\ ~CycleNext
    <3>1. UNCHANGED cycle
      BY <2>3, OthersKeepCycle
    <3>2. UNCHANGED queue
      BY <2>3 DEF Next, ClusterStep, RetryTimePasses, maps, vars
    <3>3. UNCHANGED Handed
      BY <3>1 DEF Handed, cycle
    <3> QED BY <3>2, <3>3, PoolStutters, DecidedOnceStep
  <2> QED BY <2>2, <2>3
<1> QED BY <1>1, <1>2, FateInvariant, PTL DEF Spec, Pool!Spec, PoolStep, ImplementsJobPool

=============================================================================
