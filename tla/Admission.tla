------------------------------ MODULE Admission ------------------------------
(***************************************************************************)
(* Admission of pods in k8s/controller.py: the pod-watch thread, the cycle *)
(* thread and the API server, one action per lock section or API call.     *)
(*                                                                         *)
(* A pod of a GPU lane is created with the scheduling gate (or without it, *)
(* bypassing the controller).  The watch thread learns of it and queues    *)
(* it; the cycle thread sums what the lane's pods hold, reserves units for *)
(* a job that fits, and patches the gate away; the watch thread then moves *)
(* the pod from _admitted_resources to _kubernetes_pending and on to       *)
(* _kubernetes_running.  Each of those maps has a lock of its own, so any  *)
(* two steps of different threads may interleave.                          *)
(*                                                                         *)
(* The scheduler appears as the bag of JobPool, and what the two threads   *)
(* do to it implements that module.  Pods keep their labels,               *)
(* and every pod's lane is known; node events are not part of this module. *)
(* GPU requests are whole numbers: the units of a set of pods are counted  *)
(* as the GPUs they ask for, <<pod, i>>.                                   *)
(***************************************************************************)
EXTENDS Integers, FiniteSets, Sequences

CONSTANTS
  Pod, Lane,
  NoPod,           \* the value of a thread's pod variable before it has one
  LaneOf,          \* [Pod -> Lane], the gpu-class label
  GroupOf,         \* [Pod -> scheduling group]
  DispatchK,
  Units,           \* [Pod -> Nat \ {0}], requested GPUs
  Capacity,        \* [Lane -> Nat], node_tracker.lane_capacity()
  MaxAttempts,     \* _MAX_ADMIT_ATTEMPTS
  Bypass,          \* the pods that are created without the gate
  Deletable,       \* bound: the pods that may be deleted
  MaxStream,       \* bound: a pod is touched only below this many undelivered events
  LostReply,       \* can a patch be applied and its reply be an error?
  NetworkError     \* can a call fail with something else than an ApiException?

ASSUME AdmissionAssumption ==
  /\ IsFiniteSet(Pod)
  /\ NoPod \notin Pod
  /\ LaneOf \in [Pod -> Lane]
  /\ Units \in [Pod -> Nat \ {0}]
  /\ Capacity \in [Lane -> Nat]
  /\ DispatchK \in Nat \ {0}
  /\ MaxAttempts \in Nat \ {0}
  /\ Bypass \subseteq Pod
  /\ Deletable \subseteq Pod
  /\ LostReply \in BOOLEAN
  /\ NetworkError \in BOOLEAN

Rule == INSTANCE DispatchRule WITH JobId <- Pod

VARIABLES
  \* the cluster
  api,             \* [Pod -> Status], what the API server stores
  stream,          \* [Pod -> Seq(Status)], its events the watch has not read
  \* the controller's maps, by pod
  pending,         \* keys of _pending
  queue,           \* [Pod -> Nat], copies of its job in the scheduler
  admitted,        \* _admitted
  reserved,        \* keys of _admitted_resources and _admitted_with_timestamp
  attempts,        \* _admit_attempts, 0 where there is no entry
  backoff,         \* the pods whose next_retry lies in the future
  kpending,        \* keys of _kubernetes_pending
  running,         \* keys of _kubernetes_running
  \* the pod-watch thread
  wpc, wpod, wev, was_pending, was_admitted,
  \* the cycle thread
  cpc, cur, batch,
  stale,           \* the reservations a sweep found too old
  taken,           \* [Lane -> Int], running + k8s-pending + admitted units
  \* history, for the properties
  base,            \* taken as the three reads left it
  granted,         \* the pods this cycle reserved units for
  gaveUp,          \* the pods given up after MaxAttempts failures
  dropped          \* the pods held by a cycle that an exception ended

cluster == <<api, stream>>
maps == <<pending, queue, admitted, reserved, attempts, backoff, kpending, running>>
watch == <<wpc, wpod, wev, was_pending, was_admitted>>
cycle == <<cpc, cur, batch, stale, taken, base, granted>>
fates == <<gaveUp, dropped>>
vars == <<cluster, maps, watch, cycle, fates>>

(* unbound: the gate is gone, no startTime yet; bound: Pending on a node,  *)
(* startTime set by the kubelet.                                           *)
Status == {"absent", "gated", "unbound", "bound", "running", "finished", "deleted"}
PendingPhase == {"gated", "unbound", "bound"}
Occupying == {"unbound", "bound", "running"}

WatchStep ==
  {"idle", "enqueueCheck", "enqueueSubmit",
   "dequeuePending", "dequeueAdmitted", "dequeueReserved", "dequeueAttempts",
   "dequeueJob", "toPendingCheck", "toPendingAdd", "toPendingRelease",
   "toRunningRelease", "toRunningRemove", "toRunningAdd",
   "goneRunning", "gonePending", "goneReserved"}

CycleStep ==
  {"idle", "sweep", "sweepAdmitted", "sweepReserved", "run",
   "readPending", "readAdmitted", "dispatch", "next", "requeueCheck", "requeue", "reserve", "pop", "unreserve",
   "patch", "mark", "markAttempts", "failReserved", "failNotFound", "failGone", "failCount",
   "failPending", "failSubmit", "giveUpJobs", "giveUpPending"}

TypeOK ==
  /\ api \in [Pod -> Status]
  /\ stream \in [Pod -> Seq(Status)]
  /\ pending \subseteq Pod
  /\ queue \in [Pod -> Nat]
  /\ admitted \subseteq Pod
  /\ reserved \subseteq Pod
  /\ attempts \in [Pod -> 0..MaxAttempts - 1]
  /\ backoff \subseteq Pod
  /\ kpending \subseteq Pod
  /\ running \subseteq Pod
  /\ wpc \in WatchStep
  /\ wpod \in Pod \cup {NoPod}
  /\ wpc # "idle" => wpod \in Pod
  /\ wev \in Status
  /\ was_pending \in BOOLEAN
  /\ was_admitted \in BOOLEAN
  /\ cpc \in CycleStep
  /\ cur \in Pod \cup {NoPod}
  /\ cpc \notin {"idle", "sweep", "run", "readPending", "readAdmitted", "dispatch", "next"}
       => cur \in Pod
  /\ batch \subseteq Pod
  /\ stale \subseteq Pod
  /\ taken \in [Lane -> Int]
  /\ base \in [Lane -> Int]
  /\ granted \subseteq Pod
  /\ gaveUp \subseteq Pod
  /\ dropped \subseteq Pod

InLane(S, l) == {p \in S : LaneOf[p] = l}

(* sum(rp.resource_units ...): the GPUs that the pods of S request.        *)
GPUs(S) == UNION {{p} \X (1..Units[p]) : p \in S}
UnitsOf(S) == Cardinality(GPUs(S))

Init ==
  /\ api = [p \in Pod |-> "absent"]
  /\ stream = [p \in Pod |-> <<>>]
  /\ pending = {}
  /\ queue = [p \in Pod |-> 0]
  /\ admitted = {}
  /\ reserved = {}
  /\ attempts = [p \in Pod |-> 0]
  /\ backoff = {}
  /\ kpending = {}
  /\ running = {}
  /\ wpc = "idle" /\ wpod = NoPod /\ wev = "absent"
  /\ was_pending = FALSE /\ was_admitted = FALSE
  /\ cpc = "idle" /\ cur = NoPod /\ batch = {} /\ stale = {}
  /\ taken = [l \in Lane |-> 0]
  /\ base = [l \in Lane |-> 0]
  /\ granted = {}
  /\ gaveUp = {}
  /\ dropped = {}

-----------------------------------------------------------------------------
(* The cluster.  Every change of a pod is an event for the watch.          *)

SetStatus(p, s) ==
  /\ api' = [api EXCEPT ![p] = s]
  /\ stream' = [stream EXCEPT ![p] = Append(@, s)]

Create(p) ==
  /\ api[p] = "absent"
  /\ SetStatus(p, IF p \in Bypass THEN "unbound" ELSE "gated")

(* A change of metadata or conditions: a MODIFIED event, the same status.  *)
Touch(p) ==
  /\ api[p] \in {"gated", "unbound", "bound"}
  /\ Len(stream[p]) < MaxStream
  /\ SetStatus(p, api[p])

(* kube-scheduler binds a pod only to GPUs that are free.                  *)
OnNodes == {p \in Pod : api[p] \in {"bound", "running"}}

Bind(p) ==
  /\ api[p] = "unbound"
  /\ UnitsOf(InLane(OnNodes \cup {p}, LaneOf[p])) <= Capacity[LaneOf[p]]
  /\ SetStatus(p, "bound")

Run(p) == api[p] = "bound" /\ SetStatus(p, "running")
Finish(p) == api[p] \in {"bound", "running"} /\ SetStatus(p, "finished")

Delete(p) ==
  /\ p \in Deletable
  /\ api[p] \notin {"absent", "deleted"}
  /\ SetStatus(p, "deleted")

ClusterStep(p) ==
  /\ Create(p) \/ Touch(p) \/ Bind(p) \/ Run(p) \/ Finish(p) \/ Delete(p)
  /\ UNCHANGED <<maps, watch, cycle, fates>>

-----------------------------------------------------------------------------
(* The pod-watch thread: _handle_pod_event, one event at a time.           *)

WatchGoto(s) == wpc' = s /\ UNCHANGED <<wpod, wev, was_pending, was_admitted>>

TakeEvent(p) ==
  /\ wpc = "idle"
  /\ stream[p] # <<>>
  /\ stream' = [stream EXCEPT ![p] = Tail(@)]
  /\ wpod' = p
  /\ wev' = Head(stream[p])
  /\ wpc' = IF wev' = "gated" THEN "enqueueCheck" ELSE "dequeuePending"
  /\ UNCHANGED <<api, maps, was_pending, was_admitted, cycle, fates>>

(* _enqueue: ignored if admitted; under _pending_lock, ignored if pending. *)
EnqueueCheck ==
  /\ wpc = "enqueueCheck"
  /\ WatchGoto(IF wpod \in admitted THEN "idle" ELSE "enqueueSubmit")
  /\ UNCHANGED <<cluster, maps, cycle, fates>>

EnqueueSubmit ==
  /\ wpc = "enqueueSubmit"
  /\ IF wpod \in pending
       THEN UNCHANGED <<pending, queue>>
       ELSE /\ pending' = pending \cup {wpod}
            /\ queue' = [queue EXCEPT ![wpod] = @ + 1]
  /\ WatchGoto("idle")
  /\ UNCHANGED <<cluster, admitted, reserved, attempts, backoff, kpending, running,
                 cycle, fates>>

(* _dequeue.                                                               *)
DequeuePending ==
  /\ wpc = "dequeuePending"
  /\ was_pending' = (wpod \in pending)
  /\ pending' = pending \ {wpod}
  /\ wpc' = "dequeueAdmitted"
  /\ UNCHANGED <<cluster, queue, admitted, reserved, attempts, backoff, kpending,
                 running, wpod, wev, was_admitted, cycle, fates>>

DequeueAdmitted ==
  /\ wpc = "dequeueAdmitted"
  /\ was_admitted' = (wpod \in admitted)
  /\ admitted' = admitted \ {wpod}
  /\ wpc' = "dequeueReserved"
  /\ UNCHANGED <<cluster, pending, queue, reserved, attempts, backoff, kpending,
                 running, wpod, wev, was_pending, cycle, fates>>

DequeueReserved ==
  /\ wpc = "dequeueReserved"
  /\ reserved' = IF was_admitted THEN reserved ELSE reserved \ {wpod}
  /\ WatchGoto("dequeueAttempts")
  /\ UNCHANGED <<cluster, pending, queue, admitted, attempts, backoff, kpending,
                 running, cycle, fates>>

DequeueAttempts ==
  /\ wpc = "dequeueAttempts"
  /\ attempts' = [attempts EXCEPT ![wpod] = 0]
  /\ backoff' = backoff \ {wpod}
  /\ WatchGoto("dequeueJob")
  /\ UNCHANGED <<cluster, pending, queue, admitted, reserved, kpending, running,
                 cycle, fates>>

DequeueJob ==
  /\ wpc = "dequeueJob"
  /\ queue' = IF was_pending /\ queue[wpod] > 0
                THEN [queue EXCEPT ![wpod] = @ - 1] ELSE queue
  /\ WatchGoto(IF wev = "running" THEN "toRunningRelease"
               ELSE IF wev \in {"finished", "deleted"} THEN "goneRunning"
               ELSE "toPendingCheck")
  /\ UNCHANGED <<cluster, pending, admitted, reserved, attempts, backoff, kpending,
                 running, cycle, fates>>

(* _transition_to_kubernetes_pending: without a startTime the entry is     *)
(* built from the reservation, if there still is one.                      *)
ToPendingCheck ==
  /\ wpc = "toPendingCheck"
  /\ WatchGoto(IF wev = "bound" \/ wpod \in reserved THEN "toPendingAdd" ELSE "idle")
  /\ UNCHANGED <<cluster, maps, cycle, fates>>

ToPendingAdd ==
  /\ wpc = "toPendingAdd"
  /\ kpending' = kpending \cup {wpod}
  /\ WatchGoto("toPendingRelease")
  /\ UNCHANGED <<cluster, pending, queue, admitted, reserved, attempts, backoff,
                 running, cycle, fates>>

ToPendingRelease ==
  /\ wpc = "toPendingRelease"
  /\ reserved' = reserved \ {wpod}
  /\ WatchGoto("idle")
  /\ UNCHANGED <<cluster, pending, queue, admitted, attempts, backoff, kpending,
                 running, cycle, fates>>

(* _transition_to_running.                                                 *)
ToRunningRelease ==
  /\ wpc = "toRunningRelease"
  /\ reserved' = reserved \ {wpod}
  /\ WatchGoto("toRunningRemove")
  /\ UNCHANGED <<cluster, pending, queue, admitted, attempts, backoff, kpending,
                 running, cycle, fates>>

ToRunningRemove ==
  /\ wpc = "toRunningRemove"
  /\ kpending' = kpending \ {wpod}
  /\ WatchGoto("toRunningAdd")
  /\ UNCHANGED <<cluster, pending, queue, admitted, reserved, attempts, backoff,
                 running, cycle, fates>>

ToRunningAdd ==
  /\ wpc = "toRunningAdd"
  /\ running' = running \cup {wpod}
  /\ WatchGoto("idle")
  /\ UNCHANGED <<cluster, pending, queue, admitted, reserved, attempts, backoff,
                 kpending, cycle, fates>>

(* Succeeded, Failed and DELETED take the pod out of the three maps.       *)
GoneRunning ==
  /\ wpc = "goneRunning"
  /\ running' = running \ {wpod}
  /\ WatchGoto("gonePending")
  /\ UNCHANGED <<cluster, pending, queue, admitted, reserved, attempts, backoff,
                 kpending, cycle, fates>>

GonePendingKept ==  \* mutant: a pod that ends before it runs stays counted
  /\ wpc = "gonePending"
  /\ WatchGoto("goneReserved")
  /\ UNCHANGED <<cluster, maps, cycle, fates>>

GonePending ==
  /\ wpc = "gonePending"
  /\ kpending' = kpending \ {wpod}
  /\ WatchGoto("goneReserved")
  /\ UNCHANGED <<cluster, pending, queue, admitted, reserved, attempts, backoff,
                 running, cycle, fates>>

GoneReserved ==
  /\ wpc = "goneReserved"
  /\ reserved' = reserved \ {wpod}
  /\ WatchGoto("idle")
  /\ UNCHANGED <<cluster, pending, queue, admitted, attempts, backoff, kpending,
                 running, cycle, fates>>

WatchHandler ==
  \/ EnqueueCheck \/ EnqueueSubmit
  \/ DequeuePending \/ DequeueAdmitted \/ DequeueReserved \/ DequeueAttempts
  \/ DequeueJob
  \/ ToPendingCheck \/ ToPendingAdd \/ ToPendingRelease
  \/ ToRunningRelease \/ ToRunningRemove \/ ToRunningAdd
  \/ GoneRunning \/ GonePending \/ GoneReserved

WatchNext == WatchHandler \/ \E p \in Pod : TakeEvent(p)

-----------------------------------------------------------------------------
(* The cycle thread: the sweep of stale reservations, then _run_cycle.     *)

CycleGoto(s) ==
  cpc' = s /\ UNCHANGED <<cur, batch, stale, taken, base, granted>>

(* The locals of _run_cycle end with it.                                   *)
EndCycle ==
  /\ cpc' = "idle"
  /\ cur' = NoPod
  /\ batch' = {}
  /\ stale' = {}
  /\ taken' = [l \in Lane |-> 0]
  /\ base' = [l \in Lane |-> 0]
  /\ granted' = {}

(* _sweep_stale_admitted: the reservations older than the TTL, whatever    *)
(* that is to the watch, are listed; one by one they go if the pod is past *)
(* Pending or does not exist by then.                                      *)
SweepBegin ==
  /\ cpc = "idle"
  /\ stale' \in SUBSET reserved \ {{}}
  /\ cpc' = "sweep"
  /\ UNCHANGED <<cluster, maps, watch, cur, batch, taken, base, granted, fates>>

SweepKeep(p) ==
  /\ cpc = "sweep"
  /\ p \in stale
  /\ api[p] \in PendingPhase
  /\ stale' = stale \ {p}
  /\ UNCHANGED <<cluster, maps, watch, cpc, cur, batch, taken, base, granted, fates>>

SweepStale(p) ==
  /\ cpc = "sweep"
  /\ p \in stale
  /\ api[p] \notin PendingPhase
  /\ stale' = stale \ {p}
  /\ cur' = p
  /\ cpc' = "sweepAdmitted"
  /\ UNCHANGED <<cluster, maps, watch, batch, taken, base, granted, fates>>

SweepAdmitted ==
  /\ cpc = "sweepAdmitted"
  /\ admitted' = admitted \ {cur}
  /\ CycleGoto("sweepReserved")
  /\ UNCHANGED <<cluster, pending, queue, reserved, attempts, backoff, kpending,
                 running, watch, fates>>

SweepReserved ==
  /\ cpc = "sweepReserved"
  /\ reserved' = reserved \ {cur}
  /\ cur' = NoPod
  /\ cpc' = "sweep"
  /\ UNCHANGED <<cluster, pending, queue, admitted, attempts, backoff, kpending,
                 running, watch, batch, stale, taken, base, granted, fates>>

(* As in PatchRaises: the sweep ends, and this round runs no cycle.         *)
SweepRaises ==
  /\ cpc = "sweep"
  /\ stale # {}
  /\ NetworkError
  /\ EndCycle
  /\ UNCHANGED <<cluster, maps, watch, fates>>

SweepEnd ==
  /\ cpc = "sweep"
  /\ stale = {}
  /\ CycleGoto("run")
  /\ UNCHANGED <<cluster, maps, watch, fates>>

(* A retry time passes.  A cycle compares it with the time it began, so it *)
(* passes for a cycle only before that cycle.                              *)
RetryTimePasses(p) ==
  /\ cpc = "idle"
  /\ p \in backoff
  /\ backoff' = backoff \ {p}
  /\ UNCHANGED <<cluster, pending, queue, admitted, reserved, attempts, kpending,
                 running, watch, cycle, fates>>

(* The three reads, each under its own lock.  A cycle without any capacity *)
(* ends at once.                                                           *)
ReadRunning ==
  /\ cpc \in {"idle", "run"}
  /\ \E l \in Lane : Capacity[l] > 0
  /\ taken' = [l \in Lane |-> UnitsOf(InLane(running, l))]
  /\ cpc' = "readPending"
  /\ UNCHANGED <<cluster, maps, watch, cur, batch, stale, base, granted, fates>>

ReadPending ==
  /\ cpc = "readPending"
  /\ taken' = [l \in Lane |-> taken[l] + UnitsOf(InLane(kpending, l))]
  /\ cpc' = "readAdmitted"
  /\ UNCHANGED <<cluster, maps, watch, cur, batch, stale, base, granted, fates>>

ReadAdmitted ==
  /\ cpc = "readAdmitted"
  /\ taken' = [l \in Lane |-> taken[l] + UnitsOf(InLane(reserved, l))]
  /\ base' = taken'
  /\ cpc' = "dispatch"
  /\ UNCHANGED <<cluster, maps, watch, cur, batch, stale, granted, fates>>

DispatchKept ==  \* mutant: the jobs stay in the queues
  /\ cpc = "dispatch"
  /\ batch' \in Rule!Selections({p \in Pod : queue[p] > 0})
  /\ cpc' = "next"
  /\ UNCHANGED <<cluster, maps, watch, cur, stale, taken, base, granted, fates>>

Dispatch ==
  /\ cpc = "dispatch"
  /\ \E D \in Rule!Selections({p \in Pod : queue[p] > 0}) :
       /\ batch' = D
       /\ queue' = [p \in Pod |-> queue[p] - (IF p \in D THEN 1 ELSE 0)]
  /\ cpc' = "next"
  /\ UNCHANGED <<cluster, pending, admitted, reserved, attempts, backoff, kpending,
                 running, watch, cur, stale, taken, base, granted, fates>>

Free(l) == Capacity[l] - taken[l]

MayTryAlways(p) ==  \* mutant: no backoff
  Free(LaneOf[p]) >= Units[p]

MayTryAsRead(p) ==  \* mutant: what the cycle reserved itself is not counted
  /\ ~(attempts[p] > 0 /\ p \in backoff)
  /\ Capacity[LaneOf[p]] - base[LaneOf[p]] >= Units[p]

(* The loop over the dispatched jobs, in the order of their scores, which  *)
(* may be any: the backoff test and the capacity gate.                     *)
MayTry(p) ==
  /\ ~(attempts[p] > 0 /\ p \in backoff)
  /\ Free(LaneOf[p]) >= Units[p]

TakeJob(p) ==
  /\ cpc = "next"
  /\ p \in batch
  /\ batch' = batch \ {p}
  /\ cur' = p
  /\ cpc' = IF MayTry(p) THEN "reserve" ELSE "requeueCheck"
  /\ UNCHANGED <<cluster, maps, watch, stale, taken, base, granted, fates>>

CycleDone ==
  /\ cpc = "next"
  /\ batch = {}
  /\ EndCycle
  /\ UNCHANGED <<cluster, maps, watch, fates>>

RequeueNever ==  \* mutant: a deferred job is dropped
  /\ cpc = "requeueCheck"
  /\ CycleGoto("next")
  /\ UNCHANGED <<cluster, maps, watch, fates>>

(* A deferred job is submitted again if its pod is still pending; the test *)
(* and the submit are not under one lock.                                  *)
RequeueCheck ==
  /\ cpc = "requeueCheck"
  /\ CycleGoto(IF cur \in pending THEN "requeue" ELSE "next")
  /\ UNCHANGED <<cluster, maps, watch, fates>>

Resubmit(next) ==
  /\ queue' = [queue EXCEPT ![cur] = @ + 1]
  /\ CycleGoto(next)
  /\ UNCHANGED <<cluster, pending, admitted, reserved, attempts, backoff, kpending,
                 running, watch, fates>>

Requeue == cpc = "requeue" /\ Resubmit("next")

ReserveUncharged ==  \* mutant: the running total is not updated
  /\ cpc = "reserve"
  /\ reserved' = reserved \cup {cur}
  /\ granted' = granted \cup {cur}
  /\ cpc' = "pop"
  /\ UNCHANGED <<cluster, pending, queue, admitted, attempts, backoff, kpending,
                 running, watch, cur, batch, stale, taken, base, fates>>

Reserve ==
  /\ cpc = "reserve"
  /\ reserved' = reserved \cup {cur}
  /\ taken' = [taken EXCEPT ![LaneOf[cur]] = @ + Units[cur]]
  /\ granted' = granted \cup {cur}
  /\ cpc' = "pop"
  /\ UNCHANGED <<cluster, pending, queue, admitted, attempts, backoff, kpending,
                 running, watch, cur, batch, stale, base, fates>>

PopPending ==
  /\ cpc = "pop"
  /\ pending' = pending \ {cur}
  /\ CycleGoto(IF cur \in pending THEN "patch" ELSE "unreserve")
  /\ UNCHANGED <<cluster, queue, admitted, reserved, attempts, backoff, kpending,
                 running, watch, fates>>

UnreserveTotalOnly ==  \* mutant: the reservation of an unknown pod stays
  /\ cpc = "unreserve"
  /\ taken' = [taken EXCEPT ![LaneOf[cur]] = @ - Units[cur]]
  /\ granted' = granted \ {cur}
  /\ cpc' = "next"
  /\ UNCHANGED <<cluster, maps, watch, cur, batch, stale, base, fates>>

(* "Dispatched job has no matching pending pod".                           *)
Unreserve ==
  /\ cpc = "unreserve"
  /\ reserved' = reserved \ {cur}
  /\ taken' = [taken EXCEPT ![LaneOf[cur]] = @ - Units[cur]]
  /\ granted' = granted \ {cur}
  /\ cpc' = "next"
  /\ UNCHANGED <<cluster, pending, queue, admitted, attempts, backoff, kpending,
                 running, watch, cur, batch, stale, base, fates>>

-----------------------------------------------------------------------------
(* _admit_pod: the patch and what follows its reply.                       *)

Exists(p) == api[p] \notin {"absent", "deleted"}

(* Removing a gate that is gone already changes nothing and is no event.   *)
ApplyPatch(p) ==
  IF api[p] = "gated" THEN SetStatus(p, "unbound") ELSE UNCHANGED cluster

PatchSucceeds ==
  /\ cpc = "patch"
  /\ Exists(cur)
  /\ ApplyPatch(cur)
  /\ CycleGoto("mark")
  /\ UNCHANGED <<maps, watch, fates>>

(* Any ApiException but 404: a conflict, a refusal, a 5xx.                 *)
PatchFails ==
  /\ cpc = "patch"
  /\ CycleGoto("failReserved")
  /\ UNCHANGED <<cluster, maps, watch, fates>>

PatchNotFound ==
  /\ cpc = "patch"
  /\ ~Exists(cur)
  /\ CycleGoto("failNotFound")
  /\ UNCHANGED <<cluster, maps, watch, fates>>

(* An error reply, a gateway's timeout for instance, to a patch the API    *)
(* server carried out.                                                     *)
PatchReplyLost ==
  /\ cpc = "patch"
  /\ LostReply
  /\ Exists(cur)
  /\ ApplyPatch(cur)
  /\ CycleGoto("failReserved")
  /\ UNCHANGED <<maps, watch, fates>>

(* An exception of the HTTP client is not an ApiException: it leaves       *)
(* _admit_pod and _run_cycle, and _cycle_loop logs it.                     *)
PatchRaises ==
  /\ cpc = "patch"
  /\ NetworkError
  /\ dropped' = dropped \cup batch \cup {cur}
  /\ EndCycle
  /\ UNCHANGED <<cluster, maps, watch, gaveUp>>

MarkAdmitted ==
  /\ cpc = "mark"
  /\ admitted' = admitted \cup {cur}
  /\ CycleGoto("markAttempts")
  /\ UNCHANGED <<cluster, pending, queue, reserved, attempts, backoff, kpending,
                 running, watch, fates>>

ForgetAttempts ==
  /\ attempts' = [attempts EXCEPT ![cur] = 0]
  /\ backoff' = backoff \ {cur}

MarkAttempts ==
  /\ cpc = "markAttempts"
  /\ ForgetAttempts
  /\ CycleGoto("next")
  /\ UNCHANGED <<cluster, pending, queue, admitted, reserved, kpending, running,
                 watch, fates>>

(* The reservation goes first, whatever the error.                         *)
FailReserved ==
  /\ cpc \in {"failReserved", "failNotFound"}
  /\ reserved' = reserved \ {cur}
  /\ CycleGoto(IF cpc = "failNotFound" THEN "failGone" ELSE "failCount")
  /\ UNCHANGED <<cluster, pending, queue, admitted, attempts, backoff, kpending,
                 running, watch, fates>>

FailGone ==
  /\ cpc = "failGone"
  /\ ForgetAttempts
  /\ CycleGoto("next")
  /\ UNCHANGED <<cluster, pending, queue, admitted, reserved, kpending, running,
                 watch, fates>>

FailCountForever ==  \* mutant: no limit on the attempts
  /\ cpc = "failCount"
  /\ attempts' = [attempts EXCEPT ![cur] = @ + 1]
  /\ backoff' = backoff \cup {cur}
  /\ CycleGoto("failPending")
  /\ UNCHANGED <<cluster, pending, queue, admitted, reserved, kpending, running,
                 watch, fates>>

(* _handle_admit_failure.                                                  *)
FailCount ==
  /\ cpc = "failCount"
  /\ attempts[cur] + 1 < MaxAttempts
  /\ attempts' = [attempts EXCEPT ![cur] = @ + 1]
  /\ backoff' = backoff \cup {cur}
  /\ CycleGoto("failPending")
  /\ UNCHANGED <<cluster, pending, queue, admitted, reserved, kpending, running,
                 watch, fates>>

FailPending ==
  /\ cpc = "failPending"
  /\ pending' = pending \cup {cur}
  /\ CycleGoto("failSubmit")
  /\ UNCHANGED <<cluster, queue, admitted, reserved, attempts, backoff, kpending,
                 running, watch, fates>>

FailSubmit == cpc = "failSubmit" /\ Resubmit("next")

GiveUp ==
  /\ cpc = "failCount"
  /\ attempts[cur] + 1 >= MaxAttempts
  /\ ForgetAttempts
  /\ gaveUp' = gaveUp \cup {cur}
  /\ CycleGoto("giveUpJobs")
  /\ UNCHANGED <<cluster, pending, queue, admitted, reserved, kpending, running,
                 watch, dropped>>

(* One remove_job at a time, until it finds none.                          *)
GiveUpJobs ==
  /\ cpc = "giveUpJobs"
  /\ IF queue[cur] > 0
       THEN queue' = [queue EXCEPT ![cur] = @ - 1] /\ CycleGoto("giveUpJobs")
       ELSE UNCHANGED queue /\ CycleGoto("giveUpPending")
  /\ UNCHANGED <<cluster, pending, admitted, reserved, attempts, backoff, kpending,
                 running, watch, fates>>

GiveUpPending ==
  /\ cpc = "giveUpPending"
  /\ pending' = pending \ {cur}
  /\ CycleGoto("next")
  /\ UNCHANGED <<cluster, queue, admitted, reserved, attempts, backoff, kpending,
                 running, watch, fates>>

AdmitPod ==
  \/ PatchSucceeds \/ PatchFails \/ PatchNotFound \/ PatchReplyLost \/ PatchRaises
  \/ MarkAdmitted \/ MarkAttempts
  \/ FailReserved \/ FailGone \/ FailCount \/ FailPending \/ FailSubmit
  \/ GiveUp \/ GiveUpJobs \/ GiveUpPending

RunCycle ==
  \/ ReadRunning \/ ReadPending \/ ReadAdmitted \/ Dispatch \/ CycleDone
  \/ RequeueCheck \/ Requeue \/ Reserve \/ PopPending \/ Unreserve
  \/ \E p \in Pod : TakeJob(p)

Sweep ==
  \/ SweepBegin \/ SweepAdmitted \/ SweepReserved \/ SweepRaises \/ SweepEnd
  \/ \E p \in Pod : SweepKeep(p) \/ SweepStale(p)

CycleNext == RunCycle \/ AdmitPod \/ Sweep

Next ==
  \/ WatchNext
  \/ CycleNext
  \/ \E p \in Pod : ClusterStep(p) \/ RetryTimePasses(p)

Spec == Init /\ [][Next]_vars

(* Both threads run for ever; Kubernetes binds, starts and ends a pod that *)
(* it can; a retry time of at most _MAX_ADMIT_BACKOFF seconds passes.      *)
Fairness ==
  /\ WF_vars(WatchNext)
  /\ WF_vars(CycleNext)
  /\ \A p \in Pod :
       /\ WF_vars(Bind(p) /\ UNCHANGED <<maps, watch, cycle, fates>>)
       /\ WF_vars(Run(p) /\ UNCHANGED <<maps, watch, cycle, fates>>)
       /\ WF_vars(Finish(p) /\ UNCHANGED <<maps, watch, cycle, fates>>)
       /\ SF_vars(RetryTimePasses(p))

FairSpec == Spec /\ Fairness

-----------------------------------------------------------------------------
(* Properties.                                                             *)

(* The watch has read and handled every event of p.                        *)
Settled(p) == stream[p] = <<>> /\ ~(wpc # "idle" /\ wpod = p)

(* The cycle thread has p in its hands.                                    *)
Held(p) == p \in batch \/ (cur = p /\ cpc \notin {"idle", "next"})

(* No gated pod is lost: once the watch has handled its events it is in    *)
(* _pending with a job in the scheduler, or in the cycle's hands, or it    *)
(* was given up, or an exception ended the cycle that held it.  This has   *)
(* to survive the gate's unlocked test and submit, retries, and events     *)
(* that arrive while the patch is on its way (_enqueue, _run_cycle,        *)
(* _handle_admit_failure).                                                 *)
NoPodLostSilently ==
  \A p \in Pod :
    api[p] = "gated" /\ Settled(p) =>
      \/ p \in pending /\ queue[p] > 0
      \/ Held(p)
      \/ p \in gaveUp
      \/ p \in dropped

(* A reservation does not outlive its pod: once the deletion has been      *)
(* handled and the cycle has let go of the pod, no units stay reserved,    *)
(* unless an exception ended that cycle (_run_cycle reserves before it     *)
(* pops, the DELETED branch and the 404 branch release).                   *)
ReservationDiesWithPod ==
  \A p \in Pod :
    api[p] = "deleted" /\ Settled(p) /\ ~Held(p) /\ p \notin dropped =>
      p \notin reserved

(* What one cycle reserves fits in what its own reads left free, however   *)
(* many jobs it admits and however they fail (the running total            *)
(* admitted_units of _run_cycle).                                          *)
CycleWithinFree ==
  \A l \in Lane :
    InLane(granted, l) # {} =>
      base[l] + UnitsOf(InLane(granted, l)) <= Capacity[l]

(* A pod that an admission lets onto the lane over-commits it only if the  *)
(* three reads of that cycle missed units that other pods hold: what it    *)
(* admits itself, whatever the replies, never adds up to too much          *)
(* (_run_cycle).                                                           *)
Occupants(l) == InLane({p \in Pod : api[p] \in Occupying}, l)

OverCommitsOnlyUnread ==
  [][ \A p \in Pod \ Bypass :
        api[p] \notin Occupying /\ api'[p] \in Occupying =>
          LET l == LaneOf[p] IN
          \/ UnitsOf(Occupants(l)') <= Capacity[l]
          \/ base[l] < UnitsOf(Occupants(l) \ granted) ]_vars

(* The controller treats the scheduler as the bag of JobPool: a job that a *)
(* cycle was handed is answered once, by admitting it, dropping it or      *)
(* submitting it again, unless an exception ends the cycle, and the watch  *)
(* only adds and removes (_run_cycle, _admit_pod, _enqueue, _dequeue).     *)
Deciding ==
  {"requeueCheck", "requeue", "reserve", "pop", "patch", "failReserved", "failCount",
   "failPending", "failSubmit"}

Handed == batch \cup (IF cpc \in Deciding THEN {cur} ELSE {})

Pool == INSTANCE JobPool WITH JobId <- Pod, pool <- queue, out <- Handed

ImplementsJobPool == Pool!Spec

(* A pod is patched only with its units reserved and outside its backoff:  *)
(* while the gate is there, no event and no sweep may take the reservation *)
(* away between the reserve and the patch (_run_cycle, _dequeue).          *)
PatchedWithReservation ==
  cpc = "patch" /\ api[cur] = "gated" => cur \in reserved /\ cur \notin backoff

(* Every gated pod that its lane can hold is admitted, given up or deleted *)
(* in the end, or was held by a cycle that an exception ended.             *)
EveryPodResolved ==
  \A p \in Pod \ Bypass :
    Units[p] <= Capacity[LaneOf[p]] =>
      (api[p] = "gated" ~> api[p] # "gated" \/ p \in gaveUp \/ p \in dropped)

(* README.md:35 of the repository: the three-term deduction prevents       *)
(* over-commitment between admission and placement.                        *)
NoOverCommit ==
  \A l \in Lane : UnitsOf(Occupants(l)) <= Capacity[l]

(* docs/design.md:16 of the repository: a pod that is Pending without the  *)
(* gate counts against its lane.                                           *)
UngatedPodCounted ==
  \A p \in Pod :
    api[p] \in Occupying /\ Settled(p) /\ ~Held(p) =>
      p \in reserved \cup kpending \cup running
=============================================================================
