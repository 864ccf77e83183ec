---------------------------- MODULE DispatchRule ----------------------------
(***************************************************************************)
(* What one call of Scheduler.cycle promises its caller, with the scoring  *)
(* left out (core/scheduler.py): in every lane it hands out at most one    *)
(* job per scheduling group, and as many groups as dispatch_k allows.      *)
(* JobPool is the state machine built on this rule, Scheduler refines it,  *)
(* and Admission uses the rule in place of the scheduler.                  *)
(***************************************************************************)
EXTENDS Integers, FiniteSets

CONSTANTS
  JobId,        \* pod UIDs: a job's job_id is its pod's uid
  Lane,         \* the GPU classes discovered at start-up
  LaneOf,       \* [JobId -> Lane], the job's gpu-class label
  GroupOf,      \* [JobId -> a scheduling group], the job's course label
  DispatchK     \* SchedulerConfig.dispatch_k, checked > 0 in __post_init__

ASSUME DispatchKAssumption == DispatchK \in Nat \ {0}

(* The members of S in lane l, and the groups that S touches there.        *)
InLane(S, l) == {j \in S : LaneOf[j] = l}
GroupsIn(S, l) == {GroupOf[j] : j \in InLane(S, l)}

(* candidates[: dispatch_k]: a group is passed over only when K others of  *)
(* its lane are taken.                                                     *)
IsSelection(D, queued) ==
  \A l \in Lane :
    /\ Cardinality(InLane(D, l)) = Cardinality(GroupsIn(D, l))
    /\ Cardinality(InLane(D, l)) =
         LET active == Cardinality(GroupsIn(queued, l))
         IN  IF active < DispatchK THEN active ELSE DispatchK

Selections(queued) == {D \in SUBSET queued : IsSelection(D, queued)}
=============================================================================
