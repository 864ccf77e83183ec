---------------------------- MODULE EventPublisher ----------------------------
(***************************************************************************)
(* Queue-position events: k8s/event_publisher.py with its two callers, the *)
(* pod-watch thread (_enqueue, _dequeue) and the wait-cache thread         *)
(* (WaitTimeCache, _build_wait_snapshot, publish_due).                     *)
(*                                                                         *)
(* The wait-cache thread takes one candidate per lane and group from the   *)
(* scheduler, copies the schedules that are due under the lock, and then   *)
(* creates an event for each, without it: meanwhile pods come and go, and  *)
(* the cycle thread pops jobs and puts them back.  Messages, ranks and the *)
(* values of the estimates are left out, but for the median, which sets    *)
(* the milestones of a batch pod.                                          *)
(*                                                                         *)
(* Time is in minutes (WAIT_CACHE_INTERVAL, _EARLY_INTERVAL).              *)
(***************************************************************************)
EXTENDS Naturals, FiniteSets

CONSTANTS
  Pod,
  Name, NameOf,    \* [Pod -> Name]; a pod that was deleted may come back under
                   \* its name, as another Pod
  QueueOf,         \* [Pod -> lane and scheduling group]
  Batch,           \* the pods labelled dsmlp/batch
  Medians,         \* what estimate_wait may return
  EarlyInterval, EarlyCount, LateInterval,
  BatchMaxEmits,   \* _BATCH_MAX_EMITS, the milestones being k/BatchMaxEmits
  MaxTime,         \* bound on the clock
  Never,           \* float("inf")
  Nobody

ASSUME PublisherAssumption ==
  /\ NameOf \in [Pod -> Name]
  /\ Batch \subseteq Pod
  /\ Medians \subseteq Nat
  /\ {EarlyInterval, EarlyCount, LateInterval, BatchMaxEmits} \subseteq Nat \ {0}
  /\ EarlyInterval <= LateInterval
  /\ MaxTime \in Nat \ {0}
  /\ Never \notin Nat
  /\ Nobody \notin Pod

(* new: not seen yet; queued: its job is in the scheduler; away: the cycle *)
(* has it, it is admitted and the watch has not seen it, or it was given   *)
(* up; gone: the watch saw it admitted or deleted.                         *)
Place == {"new", "queued", "away", "gone"}

Time == 0..MaxTime + LateInterval
Schedule ==
  [enqueued_at : Time, emit_count : Nat, next_emit_at : Nat \cup {Never},
   anchor_wait : Nat]

VARIABLES
  now,             \* time.monotonic()
  place,           \* [Pod -> Place]
  schedules,       \* _schedules, a function on the registered pods
  events,          \* the events of the API server, a set of <<name, emit_count>>
  \* the wait-cache thread
  pc, at, estimates, due, cur,
  \* history
  overlooked,      \* the pods that were due at a snapshot without being the
                   \* candidate of their group, since they were registered
  refused,         \* the pods an event of which failed in this publication
  waited,          \* the pods in the queue since before the last snapshot
  lastEmit         \* the snapshot of a pod's last event, 0 for none

thread == <<pc, at, estimates, due, cur>>
history == <<overlooked, refused, waited, lastEmit>>
publisherVars == <<now, place, schedules, events, thread, history>>

Without(f, p) == [x \in DOMAIN f \ {p} |-> f[x]]

TypeOK ==
  /\ now \in 1..MaxTime
  /\ place \in [Pod -> Place]
  /\ DOMAIN schedules \subseteq Pod
  /\ \A p \in DOMAIN schedules : schedules[p] \in Schedule
  /\ \A p \in DOMAIN schedules :
       schedules[p].next_emit_at = Never
         => p \in Batch /\ schedules[p].emit_count = BatchMaxEmits
  /\ events \subseteq Name \X Nat
  /\ pc \in {"idle", "collect", "publish", "advance"}
  /\ at \in Time
  /\ estimates \subseteq Pod
  /\ DOMAIN due \subseteq Pod
  /\ \A p \in DOMAIN due : due[p] \in Schedule /\ due[p].next_emit_at # Never
  /\ cur \in Pod \cup {Nobody}
  /\ overlooked \subseteq Pod
  /\ refused \subseteq Pod
  /\ waited \subseteq Pod
  /\ lastEmit \in [Pod -> Time]

PublisherInit ==
  /\ now = 1
  /\ place = [p \in Pod |-> "new"]
  /\ schedules = <<>>
  /\ events = {}
  /\ pc = "idle"
  /\ at = 0
  /\ estimates = {}
  /\ due = <<>>
  /\ cur = Nobody
  /\ overlooked = {}
  /\ refused = {}
  /\ waited = {}
  /\ lastEmit = [p \in Pod |-> 0]

-----------------------------------------------------------------------------
(* The watch and the cycle.                                                *)

(* advance() reads enqueued_at of batch pods only.                         *)
Fresh(p) ==
  [enqueued_at |-> IF p \in Batch THEN now ELSE 0,
   emit_count |-> 0, next_emit_at |-> 0, anchor_wait |-> 0]

(* register() leaves an existing schedule alone.                           *)
Register(p) ==
  schedules' = [x \in DOMAIN schedules \cup {p} |->
                  IF x \in DOMAIN schedules THEN schedules[x] ELSE Fresh(x)]
Deregister(p) == schedules' = Without(schedules, p)

(* The watch hears of a gated pod that is not in _pending: a new one, one  *)
(* that is being patched, or one that was given up.                        *)
Enqueue(p) ==
  /\ place[p] \in {"new", "away"}
  /\ \A q \in Pod \ {p} : NameOf[q] = NameOf[p] => place[q] \in {"new", "gone"}
  /\ place' = [place EXCEPT ![p] = "queued"]
  /\ Register(p)
  /\ overlooked' = overlooked \ ({p} \ DOMAIN schedules)
  /\ UNCHANGED <<now, events, thread, refused, waited, lastEmit>>

(* It sees the pod admitted or deleted, which ends the pod's history.      *)
Dequeue(p) ==
  /\ place[p] \notin {"new", "gone"}
  /\ place' = [place EXCEPT ![p] = "gone"]
  /\ Deregister(p)
  /\ waited' = waited \ {p}
  /\ overlooked' = overlooked \ {p}
  /\ refused' = refused \ {p}
  /\ lastEmit' = [lastEmit EXCEPT ![p] = 0]
  /\ UNCHANGED <<now, events, thread>>

(* A cycle pops a job; the gate or a failed patch puts it back, which does *)
(* not register it.                                                        *)
CycleStep(p) ==
  /\ place[p] \in {"queued", "away"}
  /\ place' = [place EXCEPT ![p] = IF @ = "queued" THEN "away" ELSE "queued"]
  /\ waited' = waited \ {p}
  /\ UNCHANGED <<now, schedules, events, thread, overlooked, refused, lastEmit>>

Tick ==
  /\ now < MaxTime
  /\ now' = now + 1
  /\ UNCHANGED <<place, schedules, events, thread, history>>

-----------------------------------------------------------------------------
(* The wait-cache thread.                                                  *)

Queued == {p \in Pod : place[p] = "queued"}

(* _scored_candidates: the top user's first job of every group.  A refresh *)
(* waits an interval after the last.                                       *)
Candidates ==
  {D \in SUBSET Queued :
     \A p \in Queued : Cardinality({c \in D : QueueOf[c] = QueueOf[p]}) = 1}

Snapshot ==
  /\ pc = "idle"
  /\ now > at
  /\ at' = now
  /\ estimates' \in Candidates
  /\ waited' = Queued
  /\ refused' = {}
  /\ pc' = "collect"
  /\ UNCHANGED <<now, place, schedules, events, due, cur, overlooked, lastEmit>>

\* Mutant of Due: a pod is due only after its time.
DueAfter(s) == at > s.next_emit_at

Due(s) == at >= s.next_emit_at

Collect ==
  /\ pc = "collect"
  /\ LET D == {p \in DOMAIN schedules :
                 schedules[p].next_emit_at # Never /\ Due(schedules[p])}
     IN  /\ due' = [p \in D |-> schedules[p]]
         /\ overlooked' = overlooked \cup (D \ estimates)
  /\ pc' = "publish"
  /\ UNCHANGED <<now, place, schedules, events, at, estimates, cur, refused,
                 waited, lastEmit>>

(* No estimate: the pod is deregistered, although it may still be queued.  *)
Silence(p) ==
  /\ pc = "publish"
  /\ p \in DOMAIN due \ estimates
  /\ Deregister(p)
  /\ due' = Without(due, p)
  /\ UNCHANGED <<now, place, events, pc, at, estimates, cur, history>>

EventName(p) == <<NameOf[p], due[p].emit_count>>

(* create_namespaced_event.                                                *)
Create(p) ==
  /\ pc = "publish"
  /\ p \in DOMAIN due \cap estimates
  /\ EventName(p) \notin events
  /\ events' = events \cup {EventName(p)}
  /\ lastEmit' = [lastEmit EXCEPT ![p] = at]
  /\ cur' = p
  /\ pc' = "advance"
  /\ UNCHANGED <<now, place, schedules, at, estimates, due, overlooked, refused, waited>>

(* Mutant of CreateFails: advance() whatever the outcome.                  *)
CreateFailsAdvances(p) ==
  /\ pc = "publish"
  /\ p \in DOMAIN due \cap estimates
  /\ refused' = refused \cup {p}
  /\ cur' = p
  /\ pc' = "advance"
  /\ UNCHANGED <<now, place, schedules, events, at, estimates, due,
                 overlooked, waited, lastEmit>>

(* The create fails: the name is taken, there is some other error, or only *)
(* the reply is lost.  The pod stays due.                                  *)
CreateFails(p) ==
  /\ pc = "publish"
  /\ p \in DOMAIN due \cap estimates
  /\ events' \in {events, events \cup {EventName(p)}}
  /\ due' = Without(due, p)
  /\ refused' = refused \cup {p}
  /\ UNCHANGED <<now, place, schedules, pc, at, estimates, cur, overlooked,
                 waited, lastEmit>>

Larger(a, b) == IF a > b THEN a ELSE b

(* PodEventSchedule.advance.                                               *)
Interval(n) == IF n <= EarlyCount THEN EarlyInterval ELSE LateInterval

AdvanceInteractive(s) ==
  LET n == s.emit_count + 1
  IN  [s EXCEPT !.emit_count = n,
                !.next_emit_at = at + Interval(n)]

(* Mutant of AdvanceBatch: one milestone too many.                         *)
AdvanceOneMore(s, median) ==
  LET n == s.emit_count + 1
  IN  [s EXCEPT !.emit_count = n,
                !.next_emit_at = IF n <= BatchMaxEmits THEN at ELSE Never]

AdvanceBatch(s, median) ==
  LET n == s.emit_count + 1
      a == IF n = 1 THEN median
           ELSE IF s.anchor_wait > 0 /\ median > 2 * s.anchor_wait THEN median
           ELSE s.anchor_wait
  IN  [s EXCEPT !.emit_count = n,
                !.anchor_wait = a,
                !.next_emit_at =
                   IF n < BatchMaxEmits
                   THEN Larger(at, s.enqueued_at + (n * a) \div BatchMaxEmits)
                   ELSE Never]

Advanced(p, s, median) ==
  IF p \in Batch THEN AdvanceBatch(s, median) ELSE AdvanceInteractive(s)

(* It is the pod's schedule of now that advances, if it has one.           *)
Advance ==
  /\ pc = "advance"
  /\ \E median \in Medians :
       schedules' = IF cur \in DOMAIN schedules
                    THEN [schedules EXCEPT ![cur] = Advanced(cur, @, median)]
                    ELSE schedules
  /\ due' = Without(due, cur)
  /\ cur' = Nobody
  /\ pc' = "publish"
  /\ UNCHANGED <<now, place, events, at, estimates, history>>

Published ==
  /\ pc = "publish"
  /\ due = <<>>
  /\ estimates' = {}
  /\ pc' = "idle"
  /\ UNCHANGED <<now, place, schedules, events, at, due, cur, history>>

PublisherNext ==
  \/ Snapshot \/ Collect \/ Advance \/ Published \/ Tick
  \/ \E p \in Pod :
       \/ Enqueue(p) \/ Dequeue(p) \/ CycleStep(p)
       \/ Silence(p) \/ Create(p) \/ CreateFails(p)

PublisherSpec == PublisherInit /\ [][PublisherNext]_publisherVars

-----------------------------------------------------------------------------
(* Properties.                                                             *)

(* The events of a pod are numbered without a gap, whatever fails, comes   *)
(* or goes while they are created: the number advances only with the event *)
(* (publish_due).  So a name that is taken holds its pod back for ever.    *)
NoEventSkipped ==
  \A p \in DOMAIN schedules :
    \A i \in 0..schedules[p].emit_count - 1 : <<NameOf[p], i>> \in events

(* After a publication every pod that has been in the queue since its      *)
(* snapshot knows where it stands: its first event is out and, if it is    *)
(* interactive, its last one is younger than its interval.  The exceptions *)
(* are a pod whose event was refused in this publication, and one that was *)
(* once due when another job stood for its group, or when a cycle had      *)
(* taken its own (_scored_candidates; publish_due deregisters it).         *)
WaitingPodsTold ==
  pc = "idle" =>
    \A p \in waited \ (overlooked \cup refused) :
      /\ lastEmit[p] > 0
      /\ p \in Batch \/ at < lastEmit[p] + Interval(schedules[p].emit_count)

(* README.md:208 of the repository publishes events "for each queued pod", *)
(* README.md:223 the first one "immediately after entering the queue (next *)
(* snapshot)".  So a pod that was queued at a snapshot, and still is, has  *)
(* an event after it, unless the API refused it (publish_due).             *)
QueuedPodsTold ==
  pc = "idle" => \A p \in waited \ refused : lastEmit[p] > 0
=============================================================================
