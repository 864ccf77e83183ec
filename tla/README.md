# Lane Scheduler: TLA+ models and proofs

These modules model the Lane Scheduler, a Kubernetes controller that keeps GPU
pods behind a scheduling gate and admits them by priority, one queue per GPU
class ("lane"). They are written from the Python code; its documents are cited
only where the code disagrees with them.

## The system

| component | state | operations | modelled in |
|---|---|---|---|
| `core/scheduler.py` `Scheduler` | `_queues` (lane, group, user, list of jobs), `_groups`, `lane_capacity`, `_running_counts`, `_running_utilization`, one re-entrant lock | `submit`, `remove_job`, `cycle`, `set_lane_capacity`, `update_running_*`, `register_group` | `Scheduler` (with `JobPool`, `DispatchRule`) |
| `core/sched_group_registry.py` | none, every weight is 1.0 | `get` | a constant of `Scheduler` |
| `core/node_capacity.py` `NodeCapacityTracker` | `_nodes`, a lock | `upsert`, `remove`, `lane_capacity`, `lane_for_node` | `Watches` |
| `k8s/controller.py`, pods and admission | `_pending`, `_admitted`, `_admitted_resources` (with `_admitted_with_timestamp`), `_admit_attempts`, `_kubernetes_pending`, `_kubernetes_running`, a lock each | `_handle_pod_event` (pod watch), `_run_cycle`, `_admit_pod`, `_handle_admit_failure`, `_sweep_stale_admitted` (cycle) | `Admission` |
| `k8s/controller.py`, watches | two resourceVersions, `_bootstrap_pod_cache`, `_nodes_bootstrapped`, `_running_ctx` | `_bootstrap_pods`, `_bootstrap_nodes`, 410 and relist, `_rescan_unlaned_running_pods`, `_upsert_running`, `_remove_running`, `_record_completion`, `_sweep_running_ctx` | `Watches` |
| `k8s/pod_translator.py` | none | `needs_scheduling`, `admission_patch`, `pod_to_job` | `PodTranslator`; the branches and constants of `Admission` |
| `k8s/event_publisher.py` | `_schedules`, `_unknown_gpu_warned`, a lock | `register`, `deregister`, `publish_due`, `warn_unknown_gpu_class` | `EventPublisher`, without the warnings |
| `estimation/residency_stats.py` | `_strata`, a lock | `record`, `profile_for` | `ResidencyStats` |
| `estimation/wait_estimator.py` | `WaitTimeCache._cache`, a lock | refresh thread, `get`, `estimate_wait`, `estimate_soonest_completion` | `WaitEstimator`; the refresh thread in `EventPublisher` |
| `web/` | none | read-only HTTP | not modelled |
| `tools/simulate.py`, `main()` | none shared | | not modelled |

Four threads share the controller: the pod watch, the node watch, the cycle and
the wait cache (plus the web server's readers). They communicate through the
maps above, each under a lock of its own, and no lock is held across two maps:
most of what can go wrong goes wrong between two lock regions. The API server
is the fifth participant: its events arrive late, its patches can fail, or
succeed and lose their reply, and a watch can lose its history (410).

What makes each part correct:

* **Scheduler**: the queues are a bag of jobs from which nothing is lost,
  duplicated or given away twice; a cycle picks the K best candidates of each
  lane, one per group, and no group is passed over for one that deserves less;
  what waits gets its turn.
* **Admission**: a lane's pods never need more than the lane; every gated pod is
  in exactly the hands the code means it to be in; a reservation lives from the
  decision to the placement, neither shorter nor longer; every pod is resolved.
* **Watches and capacity**: after both bootstraps, in either order, every
  running pod counts and none that ended does; capacity is that of the live
  nodes.
* **Events**: a waiting pod learns where it stands and is told again in time,
  and one failed create leaves no gap.
* **Completions**: the end of a counted pod is recorded, and once, although its
  context is kept by two threads and swept by a third.
* **Residency**: the statistics are the moments they claim to be, and a profile
  read in the middle of an update is still a possible one.
* **Estimates**: a bisected wait is the first time that satisfies its
  definition, the two estimates of one lane agree, the bounds are bounds.
* **Pod translator**: an admitted pod can be placed, in the lane it was charged
  to, and keeps everything else.

## Modules

`DispatchRule` is the rule that a cycle's choice has to obey, and nothing about
order: per lane, `K` jobs or one for every group with a job, no two of a group.
`JobPool` is the abstract scheduler: a bag of jobs with `Submit`, `Remove`,
`Dispatch` (any choice that obeys `DispatchRule`), `Accept`, `PutBack`, and
`Abandon` for a caller that an exception ends.
`Scheduler` is the code: lists per lane, group and user, scores, ties, the
capacity gate of the controller, lanes that lose their nodes. It implements
`JobPool` under the refinement mapping at its end (`Pool`). `Admission` uses
`DispatchRule` instead of the scores (any choice the scheduler could make), so
what holds there holds for every scoring; and it implements `JobPool` too, from
the other side: its two threads are callers of the scheduler, `queue` is the pool
and `Handed` (the batch and the job being decided on) is what was handed out.
`Watches` stands beside `Admission`:
it has the node side and the bootstraps, and only running pods.
`EventPublisher` has the publication of queue events, and of the controller
only what it sees of it: a pod's job is in the scheduler or away.

**Scheduler.** `queues[<<lane, group, user>>]` is `_queues`; `Enqueue` is
`_enqueue` with `submit` and the registration of the group; a job whose pod is
gone may be enqueued again, and then stands for another pod with the same
labels, so that arrivals never end. `RemoveJob` is `remove_job`, `Cycle` one
whole `cycle()` under the lock with the snapshot the controller takes before it
(`counted`, and `caps`, the capacities that the gate reads until the cycle is
over); that the snapshot is read under several locks is a matter of `Admission`.
`Admit` and `Defer` are the capacity gate on each dispatched job: `Defer` puts
it back at the tail, as the code does; `Drop` is a job whose pod was deleted
meanwhile. Scores are compared as `Worth(s) * Load(t) > Worth(t) * Load(s)`,
with integer weights and an age table computed from the code's formula, so no
division or logarithm is needed. `Load` is the utilization times 100 and the
capacity, with the floor `EPSILON` (1/100 before the scaling), of the pods that
run at this instant, as in the code. `busier` is history: which groups have run
more than which, in a cycle so far, one with nothing to dispatch (`IdleCycle`)
included.

**Admission.** One action per lock region. `wpc` is where the pod watch is in
`_handle_pod_event`, `cpc` where the cycle thread is in the sweep, the cycle or
`_admit_pod`; `was_pending`, `was_admitted`, `taken`, `base`, `granted`,
`batch`, `stale` are their locals. `api` and `stream` are the API server and the
events it has not delivered. A pod is `gated`, then `unbound` (patched, no
startTime), `bound`, `running`, and `finished` or `deleted`. `queue[p]` counts
the jobs the scheduler has for `p` (it can be two: an event that arrives while
the cycle holds the pod enqueues it again). `gaveUp` and `dropped` are history:
pods the controller gave up, and pods whose cycle an exception other than
`ApiException` ended. Such an exception may come from the patch (`PatchRaises`)
or from the sweep's read of a pod (`SweepRaises`), which skips the cycle of that
round.

**Watches.** `tracker`, `lane_capacity`, `running`, `ctx`, `cache`,
`nodes_bootstrapped` are the code's; each thread has a program counter, the
items of its loop still to do, and the locals of `_upsert_running`, which both
threads run: `running` and then `ctx` are filled and emptied under two locks.
`Sweep` and `Evict` are the two halves of `_sweep_running_ctx` in the cycle
thread: it chooses contexts of pods that it read as not running, any age, and
takes them out under the other lock unless they were renewed. `relists`,
`wasCached`, `missed`, `placed`, `counted`, `recorded` are history; a third
completion of one pod is not told from a second. A node has one number of GPUs
for good, a running pod has no `MODIFIED` event that changes nothing (it could
place an unlabelled pod later, and so only count more), and `Place` looks the
lane of a pod up once, where the code does it a second time for the units, which
are not modelled.

**EventPublisher.** `schedules` is `_schedules`, `events` the names the API
server has. `pc`, `at`, `estimates`, `due`, `cur` are the wait-cache thread in
`_build_wait_snapshot` and `publish_due`: it copies what is due under the lock
(`Collect`) and then, without it, drops a pod that has no estimate (`Silence`),
or creates an event (`Create`, `CreateFails`) and advances the schedule
(`Advance`). `overlooked` (the pods that were due at a snapshot without being
the candidate of their group), `refused`, `waited`, `lastEmit` are history. A
create may fail although the server has the event, if only the reply is lost.

Three modules are libraries that compute values. They share no state with each
other or with `EventPublisher`; `MCEstimates` checks the four in one run, each
behaviour using one of them.

**WaitEstimator.** `EstimateWait` and `EstimateSoonest` are one call each, made
of the code's loops: `Bisect` halves an interval `_BISECT_ITERS` times for a
test of a time. The truncated normal is a constant set of nondecreasing curves,
probabilities are multiples of `1 / Q`, and `mean + z * std >= target` is
squared, so that no root is needed. Time is the grid that the last halving
reaches, and results are in half steps because the code returns the middle of
the last interval.

**ResidencyStats.** `acc` is the `_EWMA` of one stratum (strata share only the
lock). `Record`, `Count`, `SetMean`, `SetVar` are `record`, statement by
statement, with the lock held until the last; `Fetch` takes the accumulator
under the lock, and `ReadCount`, `ReadMean`, `ReadVariance` read its fields
without it, so an update may fall between them. (The code's test of `n = 0` is
outside the lock too, but never true of an entry that is there: it is created
and updated in one lock region.) `alpha` is any fraction
`AlphaNum / AlphaDen` (0.1 in the code, 1/3 in the instance). Each update divides
by `AlphaDen` once more, so that over `One`, which has a power of it for each
completion to come, every value is an integer and exact.

**PodTranslator.** `pod` is the pod in the API server, `copy` the one in
`_pending`, from which `admission_patch` is made. A label is a `Spelling`, and
`LaneOf` maps several to one lane (lanes are compared in lower case); selectors
and tolerations are compared as spelled. Another controller may add tolerations
and has a gate of its own. `AdmissionPatch` is the strategic merge: the gate is
removed by name, the selector's entry set, the list of tolerations replaced.

## Runs and bounds

| run | what it shows |
|---|---|
| `scheduler` | 4 jobs that arrive again and again, 3 groups, 2 users, K = 2, one batch job, one that needs the whole lane, a lane of capacity 0 or 2, two ticks: `ImplementsJobPool` (no job lost, duplicated or chosen against the rule), `NoPriorityInversion` (no group is passed over for one that deserves less), `EveryFittingJobLeaves` (a lane that can hold what waits is emptied once nothing more arrives in it) |
| `admission_one_pod` | one pod, every interleaving of watch, cycle and sweep, failing, lost and raising patches, 2 attempts, a deletion at any time: `NoPodLostSilently`, `ReservationDiesWithPod`, `PatchedWithReservation`, `ImplementsJobPool` (each job a cycle was handed is answered once) |
| `admission_two_pods` | two interchangeable pods and one unit, failing patches and lost replies: `CycleWithinFree`, `OverCommitsOnlyUnread` (an admission over-commits the lane only by units that its cycle did not read) |
| `admission_progress` | a pod behind the gate and one that bypasses it, one unit, `FairSpec`: `EveryPodResolved` |
| `watches` | one pod with or without a label, one node that is drained, relabelled, deleted and added again, one relist of each watch, and sweeps at any time: `RunningPodCounted`, `NoOtherGhost`, `CapacityFollowsNodes`, `CompletionNotLost`, `CompletionRecordedOnce` |
| `estimates`, the waits | up to two running pods of 1 or 2 units with 10 curves and three deadlines, ranks 1 and 2, eight steps of time: `MedianIsFirst` (the bisection against its definition), `SoonestBeforeFirstSlot` (the soonest end is not after the first expected slot, and its percentiles are ordered) |
| `estimates`, the residencies | three completions between -1 and 3/2 of the deadline, with and without a prior, a read at any statement: `EwmaIsWeightedMoments`, `ProfileBetweenPriorAndObserved`, `ProfileIsValid`, `PosteriorIsMixture` |
| `estimates`, the patch | three spellings of two lanes, two effects, any selector and tolerations, another controller before and after the copy is made: `AdmittedPodLands`, `AdmittedPodStaysInLane`, `PatchKeepsTheRest` |
| `estimates`, the events | an interactive and a batch pod of one queue, a namesake of the first in another, four refreshes: `NoEventSkipped`, `WaitingPodsTold` (a candidate is told in time, whatever fails, comes or goes meanwhile) |

The bounds: the races of `Admission` are between the two threads over one pod
(one pod suffices) or between two pods over one unit (two suffice); `MaxStream`
is how many events of a pod may be outstanding when an update that changes
nothing (`Touch`) is added to them; two attempts reach both the retry and the
giving up. In `Watches` one pod and one node reach every branch of the rescan;
`MaxNodeEvents` bounds the undelivered changes of the node, not how many there
are. The node may be ready in either lane, drained in the first, or without a
lane (`NodeStates`): each pair of them is a relabelling, a drain or a move in or
out of the pool. In `Scheduler`, `MaxTime` = 2 steps of ten minutes let an
interactive job overtake another by age; with K = 2 and three groups a cycle
takes several jobs and passes one group over, and two users share one of the
groups. Lanes share nothing but the lock; several of them, and other K, are in
the proofs. In `EventPublisher`, `MaxTime` = 4 refreshes reach the late interval
after `EarlyCount` = 1 early one and all of the three events a batch pod gets
here (`BatchMaxEmits`, 4 in the code); events do not expire within that time
(the API server keeps them for an hour). In `WaitEstimator` three halvings take
every path of the loop, and 48 only make the grid finer; two pods let certain,
likely and unlikely ends meet. In `ResidencyStats` three completions are an
update that starts the mean, one that starts the variance, and one that uses
both.

`CHECK_DEADLOCK FALSE` is used because the bounded clusters end: every pod may
be finished or deleted, and the threads then wait for events.

### Fairness

`Scheduler`'s `Fairness` is weak fairness of `Cycle`, of the gate's answer
(`Admit` or `Defer`), and of Kubernetes starting and ending the pods it was
given; nothing is assumed of arrivals, of the clock or of the capacity.
`EveryFittingJobLeaves` has its own assumptions, that from some time on the lane
can hold each job that waits in it and that nothing more arrives in it. Both
are needed: without the first, a job larger than the lane holds up the other
users of its group (`scheduler_starvation`), and without the second, arrivals
of other groups do (see below).
`Admission`'s `FairSpec` gives each thread weak fairness (each is a loop that
never blocks for ever: locks are held over a few statements, waits have a
timeout), weak fairness to Kubernetes binding, starting and ending a pod that
it can, and strong fairness to the passing of a retry time: a backoff of at most
`_MAX_ADMIT_BACKOFF` seconds is over, but the pod may go in and out of it.

## What the code does that its documents do not say

Six runs are counterexamples.

| run | document | behaviour |
|---|---|---|
| `scheduler_starvation` (`NoJobWaitsForEver`) | README.md:127, no job waits indefinitely | a job larger than its lane is the only candidate of its group in every cycle, and other users of the group never leave (`scheduler.py:294`) |
| `admission_overcommit` | README.md:35, no over-commitment | the watch handles the update between the patch and `_admitted.add`, and releases the reservation of an admitted pod (`controller.py:741`, `1081`) |
| `admission_bypass` | docs/design.md:16, Pending pods count | without a startTime and a reservation a Pending pod is not counted (`controller.py:479`) |
| `watches_ghost` | docs/design.md:74 and 83, running pods, full relist | the list only adds: a pod deleted in the gap counts as running for ever (`controller.py:384`); the pods in `_bootstrap_pod_cache` come back at every relist of the nodes (`controller.py:825`) |
| `events_silenced` | README.md:208 and 223, events for each queued pod, the first at the next snapshot; event_publisher.py:10, docs/design.md:127-130 | the snapshot has an estimate for one pod of each lane and group, its candidate; every other queued pod is due, has none, and is deregistered for good before it was told anything (`event_publisher.py:190`) |
| `estimate_bounds` | wait_estimator.py:103, P20 optimistic and P80 pessimistic; README.md:217, a P20 below the median | `_Z_P20` is negative, so fewer freed slots are asked to suffice and the wait gets longer; `min` and `max` then make both bounds the median, always (`wait_estimator.py:171`). With the two signs exchanged the same instance has no counterexample |

Seen on the way, without a run of their own:

* The utilization `U(g, l)` of the score is, by README.md:25, 131 and 246 and
  docs/design.md:31, the mean of the past five minutes; docs/OPERATIONS.md
  speaks of the same window. The code takes that of this instant
  (`scheduler.py:308`): a group that has just been emptied after hours at full
  load ranks before one that has just started its first pod.
  `NoPriorityInversion` therefore compares only groups of which one has never
  run less than the other in any cycle, for which both measures agree.
* With K > 1 a job can also starve by arrivals, against README.md:127: jobs of
  other groups are admitted beside a larger one in every cycle (the gate only
  asks whether each fits), and the GPUs it needs are never free together, though
  its lane is large enough, however high it ranks. In the instance of
  `scheduler`, `EveryFittingJobLeaves` without `NoArrival` has a short
  counterexample: the job of two GPUs waits while two other groups take turns
  with one.
* A batch pod gets `_BATCH_MAX_EMITS` events and then no more
  (`event_publisher.py:80`), as README.md:228-230 says; docs/design.md:130 adds
  "then every 6 hours until scheduled".
* docs/design.md:79 promises backoff and five attempts for failed patches. Only
  `ApiException` is caught; after a connection error the pod and the rest of the
  batch are in no map (`controller.py:860`), and `NoPodLostSilently` exempts them.
* docs/design.md:15 counts unlabelled running pods by their node. A node that
  joins by an event is not scanned for them (`controller.py:833`), only those of
  a list are, and only pods that a list of pods had cached: `RunningPodCounted`
  speaks of those alone.
* A deferred job goes to the tail of its user's list, while ties are broken on
  the heads, so not always by the oldest pending job (README.md:135,
  `scheduler.py:330`).
* README.md:190 names Welford's algorithm, the code is an exponentially weighted
  mean (`residency_stats.py:61`).
* A pod given up is enqueued again at its next event and may then be admitted,
  although docs/design.md:79 says that it is ignored and stays gated
  (`controller.py:1126`, `709`).
* A toleration of the class for another effect than `NoSchedule` counts as the
  one that is needed (`pod_translator.py:211`), and a label in mixed case is
  charged to the lane in lower case but placed by its own spelling
  (`pod_translator.py:83`, `207`).

The properties that hold are stated around these: `NoOtherGhost` names the two
ways a ghost arises and says there is no other, `OverCommitsOnlyUnread` is what
remains of `NoOverCommit` (the three reads may miss a pod, the running total
misses nothing that the cycle granted, whatever the replies), and
`NoPodLostSilently` and `ReservationDiesWithPod` exempt the pods that a
connection error dropped, the first also those that were given up.
`CompletionRecordedOnce` exempts the pods of the old cache: a scan of it brings
the context of an ended pod back, and the next list of the pods records its end
again. `WaitingPodsTold` is what remains of `QueuedPodsTold`: a pod that was the
candidate of its group whenever it was due is told, and there is no other
reason for silence than a refused create. `PatchKeepsTheRest` is about the
tolerations of the copy; one that was added since is lost.
`AdmittedPodLands` exempts the pods with a toleration for another effect, and
says of the others that they fit nodes spelled like their label.

## Proofs

Eight modules, one or two per component, each EXTENDS its component's module.
The theorems hold for every value of the constants under the module's named
assumptions, which TLC evaluates on every run that uses the module. All
invariants and action properties of the passing runs are proved. Every inductive
invariant was checked with TLC on the instances of the runs.

| module | theorems |
|---|---|
| `Scheduler_proofs` | `SchedulerTypes`, `SchedulerIsAJobPool`, `SchedulerNeverInverts`, from `SchedulerInvariant` and the lemma `ScoreInvariant` |
| `Admission_proofs` | `TypeCorrect`, `CycleStaysWithinFree`, `OverCommitsExplained`, `NoPodLost`, `ReservationReleased`, `PatchReserved`, `AdmissionUsesAJobPool` |
| `Watches_proofs` | `RunningPodsCounted`, `GhostsExplained`, `CompletionsKept`, `CompletedOnce`, from `WatchesInvariant` |
| `WatchesCapacity_proofs` | `WatchesTypes`, `CapacityIsThatOfTheNodes`, from `CapacityInvariant` |
| `EventPublisher_proofs` | `PublisherTypes`, `EventsWithoutGap`, `WaitingToldWhenIdle`, from `PublisherInvariant` |
| `WaitEstimator_proofs` | `MedianIsTheFirstTime`, `EstimatesAgree` |
| `ResidencyStats_proofs` | `ProfilesAreValid`, `ProfilesBetween`, from `ResidencyInvariant`; `PosteriorOfMixture`, with the lemma `CleanReadInvariant`; `EwmaMoments` |
| `PodTranslator_proofs` | `AdmittedStaysInLane`, `AdmittedLands`, `AdmissionKeepsTheRest`, from `TranslatorInvariant` |

`Scheduler_proofs` proves for any jobs, lanes, groups, users, capacities and K
that the code's lists implement the abstract bag:

* `SchedulerIsAJobPool`: `Spec => ImplementsJobPool`, the initial states and one
  lemma per action (`EnqueueDoes`, `RemoveJobDoes`, `CycleDoes`, `AcceptDoes`,
  `DeferDoes`, `OthersDo`, each with what it does to the lists). `TypeOK` is not
  enough: it lets a job stand in two lists, or twice in what a cycle handed out,
  and answering one copy would leave the other, which is no step of `JobPool`.
  `SchedulerInv` adds that every list is free of repetitions, that a job waits
  in the list its labels name and nowhere else, and that only jobs that arrived
  are in the queues or handed out. The hard step is `Cycle`: what it picks obeys
  `DispatchRule`, K per lane or one for every group with a job, and is exactly
  what leaves the lists.
* `SchedulerNeverInverts`: `Spec => NoPriorityInversion`. A score is a fraction,
  `Worth` over `Load`, and scores are compared by cross-multiplication. A job
  that deserves to go first was submitted no later, its group has never run more
  than the other's (`busier`), and it is older and of the same mode, or
  interactive against batch. It has a larger `Worth` and a `Load` no larger
  (`WorthOf`, `LoadOf`), so it outscores the other (`DeservingOutscores`); and
  each group a cycle passes over in a lane has a candidate that does not outscore
  what the cycle took there. `ScoreAssumption` is what `SchedulerConfig` accepts:
  positive weights, and ages that never count for less as they grow. That is not
  enough for either kind of precedence: with `alpha = 0` no age counts, and with
  a penalty of 1 or more a batch job weighs no less. Each kind is therefore
  promised under its condition on the constants, `AgesCount` or
  `BatchRanksLower` (the default configuration meets both, and so does the
  instance of the run). `ScoreInv` adds what the scores read: no `submit_time`
  lies ahead of the clock, and only (finitely many) pods seen so far run.

`Admission_proofs` proves, for all sets of pods and lanes, all units,
capacities, retry limits and K (under `Admission`'s assumptions on the
constants):

* `TypeCorrect`: `Spec => []TypeOK`.
* `CycleStaysWithinFree`: `Spec => []CycleWithinFree`. The invariant is
  `ChargeInv`: in each lane, what the cycle carries in `taken` is exactly
  `base` plus the units of the pods granted in this cycle, and a grant happens
  only when the job fits what is left. `CycleWithinFree` alone is not inductive,
  because it says nothing of `taken`. The lemmas are about sums over finite sets:
  adding a pod adds its units, a subset has no more.
* `OverCommitsExplained`: `Spec => OverCommitsOnlyUnread`, an action property.
  Only a patch lets a gated pod onto its lane (`OnlyPatchesAdmit`), and a patched
  pod is one the cycle charged (`PatchCharged`). Then `ChargeInv` bounds `base`
  and the grants by the capacity; the pods on the lane after the patch are grants
  or were there before, so if they have more units than the lane, those that
  were there and are no grants have more than `base`, the sum of the reads
  (`UnitsOfUnion`). A lost reply changes nothing in this: the grant stays in the
  total although the reservation is released.
* `NoPodLost`, `ReservationReleased`, `PatchReserved`: three properties from
  one invariant, `FateInv`, that says what each program counter knows: a pod
  never heard of is in no map (`AbsentUnknown`), the watch hears of a gated pod
  (`GatedHeard`) and then knows it (`GatedKnown`), a pending pod has a job
  (`PendingHasJob`), a deleted pod's reservation is on its way out
  (`DeletedReleases`), a backoff has attempts counted (`BackoffCounted`), a pod
  on its way to being given up is recorded (`GiveUpRecorded`), and the batch is
  empty outside the loop (`BatchDuringLoop`). None of the three is inductive
  without the others: whether `_dequeue` releases a reservation depends on
  `_admitted`, which depends on where the cycle thread is. The proof has one
  step per action and one lemma per group of actions.
* `AdmissionUsesAJobPool`: `Spec => ImplementsJobPool`. A job that was handed out
  is off the batch while it is decided on (`DecidedOnce`), so that deciding takes
  it out of `Handed`: `Accept` when it is admitted, given up, gone or no longer
  pending, `PutBack` when it is deferred or its patch failed, `Abandon` when an
  exception ends the cycle; `BatchDuringLoop` (of `FateInv`) gives that all were
  answered before the next `Dispatch`. The watch's steps are `Submit`, `Remove`
  or none (`WatchUsesPool`).

`ResidencyStats_proofs` proves `ProfilesAreValid` and `ProfilesBetween`, for any
number of completions, residencies, prior and prior weight. `ResidencyInv` adds
what makes the unlocked reads harmless: an entry that profile_for has fetched
has had a complete update (`Complete`), and from then on its mean lies between
two observed values at every statement (`BetweenObserved`), because a step of
`alpha` from the old mean towards an observation does not leave the interval
(`AlphaStep`). The count may belong to another update; a weighted mean of the
prior and such a mean is between them for any weights (`MeanAbove`,
`MeanBelow`). `PosteriorOfMixture` is about the reads that no record
overlapped: `CleanReadInv` says that then what was read is still what is there,
and that an entry with one observation has no variance, so that reading `n`
again in `variance` changes nothing; the rest is the decomposition of the
variance of a mixture (`VarianceAroundMean`).

`EwmaMoments` is that for any `alpha`, any residencies and any number of them
the mean and the variance that `_EWMA` updates in place are the weighted mean of
all observations and the weighted variance around it. `Moments` says so of the
first k observations and adds that the weights sum to one and that mean and
variance are multiples of as many powers of `AlphaDen` as there are updates to
come, without which the next division would leave a rest (`UpdateExact`).
`MomentsStep` is one more observation: weighted sums are linear
(`WeightedLinear`), the squares are taken around the moved mean, and the old
weights are discounted (`WeightedStep`). `MomentInv` is what the accumulator
holds between the statements of an update. Sums are defined by recursion, so
`SumStep` and `SumLinear` are had from tables of partial sums (`SumsExist`,
`SumIs`), by the argument described below for `WaitEstimator_proofs`. What the
provers do not know of powers is in `ResidencyAssumption`, for the exponents
that occur: that one more multiplies by the base.

`PodTranslator_proofs` proves `AdmittedStaysInLane`, `AdmittedLands` and
`AdmissionKeepsTheRest` for any spellings, lanes and effects. `TranslatorInv`
says that until the patch the copy differs from the pod only by tolerations
added since, and that afterwards the pod selects its class and tolerates it for
some effect; one lemma (`PatchOfClass`) says what the patch makes of a pod.

`Watches_proofs` proves `RunningPodsCounted`, `GhostsExplained`,
`CompletionsKept` and `CompletedOnce` for any pods, nodes, lanes and labels, any
number of relists and of undelivered events, from one invariant, `WatchesInv`:

* What is on its way: an undelivered stream ends with the pod's state and says
  that it runs only at its head (`StreamInv`, `OrderInv`); what the pod thread
  takes for running, from its list or its new cache, runs or has its end ahead
  (`FreshInv`). So a pod is never put back by the pod thread for good, and a
  counted one that ended will be removed (`GhostInv`).
* The contexts: a pod counted by the pod thread and not recorded is in
  `running`, so the sweep spares it (`ContextInv`); one that is recorded has
  nothing ahead that makes a context but a scan of a cache (`RecordedInv`).
* The two bootstraps: a running pod with a label is counted or in the pod
  thread's hands (`LabelInv`). Without one, in the cache and on a placed node, it
  is counted or one of the threads has still to scan it (`ScanInv`). This needs
  that the flag is set before the node thread's scan (`PlacedInv`) and that
  what a scan skips as tracked stays counted while it runs (`TrackedInv`).

Each conjunct is one lemma with one step per action. Steps of the node thread
are taken together where only what they leave alone counts (`NodeSideDoes`);
what an event, a change in the cluster, the lane lookup and a completion do is
said once (`PodEventDoes`, `PodChangesDoes`, `PlaceDoes`, `RecordDoes`).

`WatchesCapacity_proofs` proves `CapacityIsThatOfTheNodes` for any finite set of
nodes. `CapacityFollowsNodes` speaks of a node watch that is up to date and says
nothing of the way there. `CapacityInv` adds it: the last undelivered change of
a node is its state (`NodeStreamInv`); a node without undelivered changes is
tracked as it is, or will be when the list is worked off, unless a relist
swallowed its deletion (`KnownInv`); and the scheduler has been told what the
tracker knows, but while the node thread is about to tell it (`PushedInv`). The
sum of the GPUs of some nodes is the cardinality of the set of their GPUs
(`GpusOf`), as that of the units of some jobs is in `Scheduler` (`UnitsOf`), so
that the library's facts on cardinalities apply: more nodes never have fewer
GPUs (`GpusMonotone`), and two sets have no more together than apart
(`GpusOfUnion`).

`EventPublisher_proofs` proves its three properties for any pods, names and
times from `PublisherInv`. The publication works on a copy without the lock, so
each of its steps has to know what the copy still is worth: a due pod's copy is
its schedule, or the pod is gone for good (`CopyInv`), its time has come and its
earlier events are out (`DueInv`), and between an event and its advance the
event is the pod's last one (`AdvanceInv`). `SpacingInv` ties the time of the
next event to the last one, `QueueInv` says that only an overlooked pod waits
without a schedule, and `ToldInv` is `WaitingPodsTold` in the middle of a
publication: who does not know yet is due.

`WaitEstimator_proofs` proves, for any number of halvings and of running pods
and any nondecreasing curves:

* `MedianIsTheFirstTime`: the interval of `_bisect_wait` always has an end that
  passes the test and one that does not, and is a power of two long
  (`BisectIsFirst`, for any test). A target below zero is met at once because a
  mean is not negative (`OnAverageMeans`).
* `EstimatesAgree`: a test that stays passed is found no later than one that
  implies it (`BisectOrder`); the product of the survivors falls with time
  (`SurviveFalls`); and if one slot is expected, the product is at most one half,
  because it is at most `1 / (1 + mean)` after every pod (`ProductStep`,
  `SlotMeansEnded`).

The loops there are folds, and the induction theorems of the library have an
operator as their parameter, which the provers cannot instantiate. Instead the
numbers for which a claim holds are made a set: the smallest number outside it
cannot exist (`WFMin`, `UpTo`). With it a fold is shown to exist and to unfold
(`FoldExists`, `FoldTable`), and each loop gets the table of what it has after
every round (`MeanTable`, `SurviveTable`, `BisectTable`). What the provers do not
know of powers is in `EstimatorAssumption`, for the exponents that occur: that
one more doubles, or multiplies by `Q`.

Only model-checked:

* liveness, `EveryFittingJobLeaves` and `EveryPodResolved`: fairness and ENABLED
  are out of the provers' reach.

## Not modelled, and why

* The truncated normal itself, real arithmetic: `WaitEstimator` takes any
  nondecreasing curve in its place. Rounding of floats anywhere.
* The formatting of estimates and messages, the warnings of unknown classes.
* The HTTP server and its snapshot: they read under the same locks and write
  nothing.
* `main()`, options, lane discovery at the start: read once before any thread.
* `dry_run`: nothing is patched, and no property of `Admission` is about it.
* An exception in a watch's handler (the resourceVersion has advanced and the
  event is lost): no modelled handler raises for a pod that the API accepts.
* Reconnects of a watch that keep the resourceVersion, and errors of the list
  itself: the thread tries again and nothing has changed.
* The units of an entry of `_kubernetes_running` (in `Watches` a pod counts or
  does not) and label changes of a running pod: planned.

## Plan

1. Done: `DispatchRule`, `JobPool`, `Scheduler`, `Admission`, `Watches` with the
   completions, `EventPublisher`, `WaitEstimator`, `ResidencyStats`,
   `PodTranslator`; proofs for each of them: every type invariant, safety
   invariant and action property of the runs, and the refinement of `JobPool` by
   the scheduler and by its callers.
2. `Watches` with units and label changes of running pods, if the instance can
   be kept small enough; the age of cached estimates.
