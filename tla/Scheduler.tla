------------------------------ MODULE Scheduler ------------------------------
(***************************************************************************)
(* core/scheduler.py with the controller as its client, one lock section   *)
(* per action.  The queues are {lane: {group: {user: [Job, ...]}}}; an     *)
(* empty list stands for the key the code prunes.  Each cycle takes, per   *)
(* lane, one candidate per scheduling group (_top_user), ranks them by     *)
(*                                                                         *)
(*     P(j, l) = W(g) * Mode(j) * Age(j) / max(U(g, l), EPSILON)           *)
(*                                                                         *)
(* and pops the first dispatch_k.  The caller's capacity gate then admits  *)
(* each of them or submits it again, which appends it at the tail of its   *)
(* user's list (controller.py, _run_cycle, seen here without its           *)
(* interleavings, which are the subject of Admission).                     *)
(*                                                                         *)
(* Scores are compared as fractions of integers.  W(g) is 1 for every      *)
(* group (SchedGroupRegistry.get) and cancels out; so does the lane's      *)
(* capacity, except for the floor EPSILON = 1/100.                         *)
(***************************************************************************)
EXTENDS DispatchRule, SequencesExt

CONSTANTS
  SchedGroup, User,
  UserOf,          \* [JobId -> User]
  Batch,           \* the jobs labelled dsmlp/batch = "true"
  Units,           \* [JobId -> Nat], the GPUs a job requests
  ModeWeight,      \* [BOOLEAN -> Nat], SchedulerConfig.mode_weight, scaled
  AgeBoost,        \* [BOOLEAN -> [0..MaxTime -> Nat]], PriorityScorer.age_boost
                   \* of (batch, wait), scaled to integers
  Capacities,      \* what the node watch may report for a lane
  MaxTime          \* bound on the clock

ASSUME JobAssumption ==
  /\ LaneOf \in [JobId -> Lane]
  /\ GroupOf \in [JobId -> SchedGroup]
  /\ UserOf \in [JobId -> User]
  /\ Units \in [JobId -> Nat]
  /\ Capacities \subseteq Nat
  /\ MaxTime \in Nat

(* What SchedulerConfig accepts: no negative alpha, positive half-lives and *)
(* a positive penalty, which may be 1 or more.                             *)
ASSUME ScoreAssumption ==
  /\ AgeBoost \in [BOOLEAN -> [0..MaxTime -> Nat \ {0}]]
  /\ \A b \in BOOLEAN, v, w \in 0..MaxTime : v <= w => AgeBoost[b][v] <= AgeBoost[b][w]
  /\ ModeWeight \in [BOOLEAN -> Nat \ {0}]

VARIABLES
  now,             \* time.monotonic()
  arrived,         \* history: the jobs enqueued so far
  queues,          \* [Slot -> sequence of jobs with their submit_time]
  groups,          \* _groups
  lane_capacity,
  dispatched,      \* what cycle() returned and the controller has not answered
  counted,         \* the jobs the current cycle's gate charges to the lanes
  caps,            \* the capacities it reads when it starts
  placed,          \* admitted pods that do not run yet
  running,         \* pods whose phase is Running
  busier           \* history: <<l, g, h>> if g has run more than h in lane l

pods == <<placed, running>>
vars == <<now, arrived, queues, groups, lane_capacity, dispatched, counted,
          caps, pods, busier>>

Slot == Lane \X SchedGroup \X User
SlotOf(j) == <<LaneOf[j], GroupOf[j], UserOf[j]>>
Entry == [job : JobId, submit_time : 0..MaxTime]

TypeOK ==
  /\ now \in 0..MaxTime
  /\ arrived \subseteq JobId
  /\ queues \in [Slot -> Seq(Entry)]
  /\ groups \subseteq SchedGroup
  /\ lane_capacity \in [Lane -> Nat]
  /\ dispatched \in Seq(Entry)
  /\ counted \subseteq JobId
  /\ caps \in [Lane -> Nat]
  /\ placed \subseteq JobId
  /\ running \subseteq JobId
  /\ busier \subseteq Lane \X SchedGroup \X SchedGroup

Init ==
  /\ now = 0
  /\ arrived = {}
  /\ queues = [s \in Slot |-> <<>>]
  /\ groups = {}
  /\ lane_capacity = [l \in Lane |-> 0]
  /\ dispatched = <<>>
  /\ counted = {}
  /\ caps = [l \in Lane |-> 0]
  /\ placed = {}
  /\ running = {}
  /\ busier = {}

-----------------------------------------------------------------------------
(* The queues.                                                             *)

Append1(q, e) == [q EXCEPT ![SlotOf(e.job)] = Append(@, e)]

Entries(q) == UNION {ToSet(q[s]) : s \in Slot}

JobsIn(q) == {e.job : e \in Entries(q)}

(* _enqueue registers an unknown group, then submits with the time of now. *)
(* Only the pod-watch thread reads the clock for that, under a lock: two   *)
(* jobs never have the same submit_time.  Once its pod is gone, a job      *)
(* stands for the next pod with the same labels: arrivals never end.  (A   *)
(* pod that the cycle holds and the watch enqueues again is in Admission.) *)
Enqueue(j) ==
  /\ j \notin JobsIn(queues) \cup {e.job : e \in ToSet(dispatched)}
  /\ j \notin placed \cup running
  /\ \A e \in Entries(queues) \cup ToSet(dispatched) : e.submit_time < now
  /\ arrived' = arrived \cup {j}
  /\ groups' = groups \cup {GroupOf[j]}
  /\ queues' = Append1(queues, [job |-> j, submit_time |-> now])
  /\ UNCHANGED <<now, lane_capacity, dispatched, counted, caps, pods, busier>>

(* remove_job, for a pod that is deleted while it waits.                   *)
RemoveJob(j) ==
  /\ j \in JobsIn(queues)
  /\ queues' = [queues EXCEPT
                  ![SlotOf(j)] = RemoveFirstMatch(@, LAMBDA e : e.job = j)]
  /\ UNCHANGED <<now, arrived, groups, lane_capacity, dispatched, counted,
                 caps, pods, busier>>

-----------------------------------------------------------------------------
(* Ranking.  A candidate is a slot: its user's head job stands for it.     *)

Active(q) == {s \in Slot : q[s] # <<>>}

RunningPods(s) == {j \in running : LaneOf[j] = s[1] /\ UserOf[j] = s[3]}

(* The GPUs that the jobs of S ask for, one by one, and their number.      *)
GPUs(S) == UNION {{j} \X (1..Units[j]) : j \in S}
UnitsOf(S) == Cardinality(GPUs(S))

(* _top_user: fewest running pods in the lane, then the head job that was  *)
(* submitted first; a tie is broken by the order of a set.                 *)
Before(s, t) ==
  LET m == Cardinality(RunningPods(s))
      n == Cardinality(RunningPods(t))
  IN  m < n \/ (m = n /\ Head(queues[s]).submit_time < Head(queues[t]).submit_time)

TopUsers ==
  {s \in Active(queues) :
     \A t \in Active(queues) : t[1] = s[1] /\ t[2] = s[2] => ~Before(t, s)}

WorthOfOtherMode(s) ==  \* mutant: the arms of mode_weight are swapped
  LET e == Head(queues[s])
      b == e.job \in Batch
  IN  ModeWeight[~b] * AgeBoost[b][now - e.submit_time]

GroupUnits(l, g) == UnitsOf({j \in running : LaneOf[j] = l /\ GroupOf[j] = g})

(* Mode(j) * Age(j), and the utilization of the candidate's group with its *)
(* floor, both scaled by 100 * lane capacity.  The utilization is that of  *)
(* this cycle's running pods; README.md:131 and docs/design.md:31 of the   *)
(* repository speak of its mean over the past five minutes.                *)
Worth(s) ==
  LET e == Head(queues[s])
      b == e.job \in Batch
  IN  ModeWeight[b] * AgeBoost[b][now - e.submit_time]

Load(s) ==
  LET cap  == lane_capacity[s[1]]
      used == 100 * GroupUnits(s[1], s[2])
  IN  IF cap > 0 /\ used > cap THEN used ELSE IF cap > 0 THEN cap ELSE 1

Outscores(s, t) == Worth(s) * Load(t) > Worth(t) * Load(s)

PicksOneMore ==  \* mutant: the slice of the best ends one too late
  {D \in SUBSET TopUsers : D # {} /\ Cardinality(D) <= DispatchK + 1}

(* The slots a cycle may pop: the best dispatch_k groups of every lane, by *)
(* their top user's head job.                                              *)
Picks ==
  {D \in SUBSET TopUsers :
     /\ IsSelection({Head(queues[s]).job : s \in D},
                    {Head(queues[s]).job : s \in Active(queues)})
     /\ \A s \in D : \A l \in Lane, g \in SchedGroup :
          LET rest == {t \in TopUsers : t[1] = l /\ t[2] = g}
          IN  l = s[1] /\ rest # {} /\ rest \cap D = {}
                => \E t \in rest : ~Outscores(t, s)}

(* dispatched lists the picks lane by lane, best score first.              *)
Ranked(seq) ==
  \A i, k \in DOMAIN seq :
    i < k => /\ seq[k][1] = seq[i][1] => ~Outscores(seq[k], seq[i])
             /\ seq[k][1] = seq[i][1] =>
                  \A m \in i..k : seq[m][1] = seq[i][1]

Busier ==
  busier \cup {t \in Lane \X SchedGroup \X SchedGroup :
               GroupUnits(t[1], t[2]) > GroupUnits(t[1], t[3])}

(* A cycle without jobs: the controller reads the running pods as always.  *)
IdleCycle ==
  /\ dispatched = <<>>
  /\ Active(queues) = {}
  /\ \E l \in Lane : lane_capacity[l] > 0
  /\ busier' = Busier
  /\ UNCHANGED <<now, arrived, queues, groups, lane_capacity, dispatched,
                 counted, caps, pods>>

(* cycle(), after the controller has pushed the running counts and the     *)
(* utilization of this instant.                                            *)
Cycle ==
  /\ dispatched = <<>>
  /\ Active(queues) # {}
  /\ \E l \in Lane : lane_capacity[l] > 0
  /\ \E D \in Picks : \E order \in SetToSeqs(D) :
       /\ Ranked(order)
       /\ dispatched' = [i \in 1..Len(order) |-> Head(queues[order[i]])]
       /\ queues' = [s \in Slot |-> IF s \in D THEN Tail(queues[s]) ELSE queues[s]]
  /\ counted' = running \cup placed
  /\ caps' = lane_capacity
  /\ busier' = Busier
  /\ UNCHANGED <<now, arrived, groups, lane_capacity, pods>>

-----------------------------------------------------------------------------
(* The controller's answer to the first job of the list.                   *)

FreeBelowCapacity(l) ==  \* mutant: the last GPU is never given away
  caps[l] - UnitsOf(InLane(counted, l)) - 1

Free(l) == caps[l] - UnitsOf(InLane(counted, l))

(* The snapshot ends with the cycle.                                       *)
Answered(S) ==
  /\ dispatched' = Tail(dispatched)
  /\ counted' = IF Len(dispatched) = 1 THEN {} ELSE S
  /\ caps' = IF Len(dispatched) = 1 THEN [l \in Lane |-> 0] ELSE caps

Admit ==
  /\ dispatched # <<>>
  /\ LET j == Head(dispatched).job
     IN  /\ Units[j] <= Free(LaneOf[j])
         /\ placed' = placed \cup {j}
         /\ Answered(counted \cup {j})
  /\ UNCHANGED <<now, arrived, queues, groups, lane_capacity, running, busier>>

(* The gate calls submit() again: the job keeps its submit_time and goes   *)
(* to the end of its user's list.                                          *)
Defer ==
  /\ dispatched # <<>>
  /\ LET j == Head(dispatched).job IN Units[j] > Free(LaneOf[j])
  /\ queues' = Append1(queues, Head(dispatched))
  /\ Answered(counted)
  /\ UNCHANGED <<now, arrived, groups, lane_capacity, pods, busier>>

(* The pod was deleted after the cycle had popped its job: it is not in    *)
(* _pending any more, so that the job is neither submitted again nor       *)
(* admitted.                                                               *)
Drop ==
  /\ dispatched # <<>>
  /\ Answered(counted)
  /\ UNCHANGED <<now, arrived, queues, groups, lane_capacity, pods, busier>>

(* The cluster: an admitted pod starts to run, and ends.                   *)
Start(j) ==
  /\ j \in placed
  /\ placed' = placed \ {j}
  /\ running' = running \cup {j}
  /\ UNCHANGED <<now, arrived, queues, groups, lane_capacity, dispatched,
                 counted, caps, busier>>

Finish(j) ==
  /\ j \in running
  /\ running' = running \ {j}
  /\ UNCHANGED <<now, arrived, queues, groups, lane_capacity, dispatched,
                 counted, caps, placed, busier>>

TakeLaneCapacity(l, c) ==  \* mutant: a node's GPUs are taken off once more
  /\ lane_capacity' = [lane_capacity EXCEPT ![l] = @ - c]
  /\ UNCHANGED <<now, arrived, queues, groups, dispatched, counted, caps, pods,
                 busier>>

SetLaneCapacity(l, c) ==
  /\ lane_capacity' = [lane_capacity EXCEPT ![l] = c]
  /\ UNCHANGED <<now, arrived, queues, groups, dispatched, counted, caps, pods,
                 busier>>

Tick ==
  /\ now < MaxTime
  /\ now' = now + 1
  /\ UNCHANGED <<arrived, queues, groups, lane_capacity, dispatched, counted,
                 caps, pods, busier>>

Next ==
  \/ Cycle \/ IdleCycle \/ Admit \/ Defer \/ Drop \/ Tick
  \/ \E j \in JobId : Enqueue(j) \/ RemoveJob(j) \/ Start(j) \/ Finish(j)
  \/ \E l \in Lane, c \in Capacities : SetLaneCapacity(l, c)

(* The cycle thread keeps running its loop, and Kubernetes starts an       *)
(* admitted pod and ends it at its deadline at the latest.                 *)
Fairness ==
  /\ WF_vars(Cycle)
  /\ WF_vars(Admit \/ Defer)
  /\ \A j \in JobId : WF_vars(Start(j)) /\ WF_vars(Finish(j))

Spec == Init /\ [][Next]_vars
FairSpec == Spec /\ Fairness

-----------------------------------------------------------------------------
(* Properties.                                                             *)

(* The scheduler is a bag of jobs: what a cycle pops was queued, a job is  *)
(* never lost or handed out twice, and a cycle never takes two jobs of one *)
(* group or more than dispatch_k of a lane (submit, remove_job, cycle).    *)
Pool == INSTANCE JobPool WITH
  pool <- [j \in JobId |->
             Cardinality({i \in DOMAIN queues[SlotOf(j)] :
                            queues[SlotOf(j)][i].job = j})],
  out  <- {e.job : e \in ToSet(dispatched)}

ImplementsJobPool == Pool!Spec

(* The score never inverts the policy it is built from: a cycle does not    *)
(* pass over a group for a job of the same lane that was submitted no       *)
(* earlier than the group's own and whose group has never run less, if the  *)
(* group's job is interactive and the other batch, or is of the same mode   *)
(* and older (PriorityScorer.score, cycle).  The first needs weights that   *)
(* rank batch jobs lower at every age, the second that ages count at all:   *)
(* SchedulerConfig also accepts alpha = 0 and a penalty of 1 or more.       *)
(* "Never run less" is over all cycles so far, this one included: then the  *)
(* group's utilization is no larger by the code's measure, that of this     *)
(* instant, and by the documents', the mean of the past five minutes.       *)
AgesCount ==
  \A b \in BOOLEAN, v, w \in 0..MaxTime : v < w => AgeBoost[b][v] < AgeBoost[b][w]

BatchRanksLower ==
  \A w \in 0..MaxTime :
    ModeWeight[TRUE] * AgeBoost[TRUE][w] < ModeWeight[FALSE] * AgeBoost[FALSE][w]

Deserves(e, f) ==
  /\ e.submit_time <= f.submit_time
  /\ <<LaneOf[e.job], GroupOf[e.job], GroupOf[f.job]>> \notin busier'
  /\ \/ AgesCount /\ e.submit_time < f.submit_time /\ (e.job \in Batch <=> f.job \in Batch)
     \/ BatchRanksLower /\ e.job \notin Batch /\ f.job \in Batch

Contenders(l, g) == {s \in TopUsers : s[1] = l /\ s[2] = g}

PassedOver(l) ==
  {g \in SchedGroup :
     /\ Contenders(l, g) # {}
     /\ \A e \in ToSet(dispatched') : LaneOf[e.job] = l => GroupOf[e.job] # g}

NoPriorityInversion ==
  [][dispatched = <<>> /\ dispatched' # <<>> =>
       \A f \in ToSet(dispatched') : \A g \in PassedOver(LaneOf[f.job]) :
         \E s \in Contenders(LaneOf[f.job], g) : ~Deserves(Head(queues[s]), f)]_vars

Waiting(j) == j \in JobsIn(queues) \cup {e.job : e \in ToSet(dispatched)}

(* A lane's queue empties, by admissions and deletions, if from some time   *)
(* on the lane can hold every job that waits in it and gets no new ones,    *)
(* whatever arrives in other lanes and however often its jobs are deferred  *)
(* and put back (cycle, and the gate of _run_cycle).  It is not true while  *)
(* jobs arrive, if K > 1: those of other groups can be admitted beside a    *)
(* larger job for ever, and the GPUs it needs are never free together.      *)
Suffices(l) == \A j \in JobId : LaneOf[j] = l /\ Waiting(j) => Units[j] <= lane_capacity[l]
NoArrival(l) == \A j \in JobId : LaneOf[j] = l /\ Waiting(j)' => Waiting(j)

EveryFittingJobLeaves ==
  \A l \in Lane :
    <>[]Suffices(l) /\ <>[][NoArrival(l)]_vars =>
      []<>(\A j \in JobId : LaneOf[j] = l => ~Waiting(j))

(* README.md:127 of the repository: no job waits indefinitely, if its lane  *)
(* can hold it (one candidate per group and cycle, _top_user).              *)
NoJobWaitsForEver ==
  \A j \in JobId :
    <>[](lane_capacity[LaneOf[j]] >= Units[j]) => []<>~Waiting(j)
=============================================================================
