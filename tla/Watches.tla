------------------------------- MODULE Watches -------------------------------
(***************************************************************************)
(* The two watch threads of k8s/controller.py as far as capacity goes: how *)
(* the node watch keeps NodeCapacityTracker and the scheduler's lane       *)
(* capacity, and how both threads keep _kubernetes_running.                *)
(*                                                                         *)
(* Each watch starts with a list (_bootstrap_pods, _bootstrap_nodes) and   *)
(* follows the changes from its resourceVersion; a 410 makes it list       *)
(* again.  A pod without a gpu-class label is attributed to the lane of    *)
(* its node, so whichever bootstrap ends second has to look again at the   *)
(* pods the first one could not place (_rescan_unlaned_running_pods, run   *)
(* by either thread).  Each counted pod has a completion context, under a  *)
(* lock of its own, which decides whether its end is recorded; the cycle   *)
(* thread sweeps old ones.  Gated and Pending pods are the subject of      *)
(* Admission.                                                              *)
(***************************************************************************)
EXTENDS Integers, Sequences, FiniteSets

CONSTANTS
  Pod, Node, Lane,
  NoLane,        \* no gpu-class label, or one this controller does not know
  NoPod,
  PodLabels,     \* the values a pod's own label may have
  NodeOf,        \* [Pod -> Node], where it runs
  GpuCount,      \* [Node -> Nat], allocatable nvidia.com/gpu
  NodeStates,    \* the states an existing node may be in
  MaxNodeEvents, \* bound: a node changes only below this many undelivered events
  MaxRelists     \* bound: how often each watch gets a 410

ASSUME WatchesAssumption ==
  /\ NoLane \notin Lane
  /\ NoPod \notin Pod
  /\ PodLabels \subseteq Lane \cup {NoLane}
  /\ NodeOf \in [Pod -> Node]
  /\ GpuCount \in [Node -> Nat]
  /\ NodeStates \subseteq [lane : Lane \cup {NoLane}, active : BOOLEAN]
  /\ IsFiniteSet(Node)
  /\ MaxRelists \in Nat

(* active: ready and schedulable.  A node without a known gpu-class is not *)
(* told apart by it.                                                       *)
NodeState == [lane : Lane \cup {NoLane}, active : BOOLEAN]
Gone == [lane |-> NoLane, active |-> FALSE]
PodState == {"absent", "running", "finished", "deleted"}
Listed == {"running", "finished"}

Thread == {"pod", "node"}

VARIABLES
  \* the cluster
  pods,          \* [Pod -> PodState]
  label,         \* [Pod -> PodLabels], set when the pod is created
  nodes,         \* [Node -> NodeState], Gone for a node that does not exist
  podStream,     \* [Pod -> Seq(PodState)], changes the watch has not delivered
  nodeStream,    \* [Node -> Seq(NodeState)]
  \* the controller
  tracker,       \* NodeCapacityTracker._nodes; Gone for no entry
  lane_capacity, \* the scheduler's
  running,       \* _kubernetes_running, a set of <<lane, pod>>
  ctx,           \* the keys of _running_ctx
  cache,         \* _bootstrap_pod_cache, the pods in it that are Running
  nodes_bootstrapped,
  \* the threads
  pc,            \* [Thread -> step]
  todo,          \* [Thread -> what is left of the loop it is in]
  listed,        \* what the list of the pod thread said, [Pod -> PodState]
  nodeList,      \* what the list of the node thread said
  cur,           \* [Thread -> Pod], the argument of _upsert_running
  lane,          \* [Thread -> Lane], its gpu_lane
  tracked,       \* [Thread -> SUBSET Pod], already_tracked
  back,          \* [Thread -> step], where _upsert_running was called
  expired,       \* the contexts too old for the sweep that is under way
  \* history
  relists,       \* [Thread -> Nat]
  wasCached,     \* the pods that were ever in cache
  missed,        \* the pods and nodes whose deletion a relist swallowed
  placed,        \* the nodes tracked since a bootstrap
  counted,       \* the pods that the pod thread itself has put in running
  recorded       \* [Pod -> 0..2], completions recorded; 2 stands for more

cluster == <<pods, label, nodes, podStream, nodeStream>>
maps == <<tracker, lane_capacity, running, cache, nodes_bootstrapped>>
locals == <<todo, listed, nodeList, cur, lane, tracked, back>>
threads == <<pc, locals>>
completions == <<ctx, expired, counted, recorded>>
history == <<relists, wasCached, missed, placed>>
vars == <<cluster, maps, threads, completions, history>>

Step ==
  {"list", "items", "sync", "up", "rescan", "readCache", "rescanItems",
   "watch", "place", "add", "addCtx", "record", "remove", "removeCtx"}

TypeOK ==
  /\ pods \in [Pod -> PodState]
  /\ label \in [Pod -> PodLabels]
  /\ nodes \in [Node -> NodeState]
  /\ podStream \in [Pod -> Seq(PodState)]
  /\ nodeStream \in [Node -> Seq(NodeState)]
  /\ tracker \in [Node -> NodeState]
  /\ \A n \in Node : tracker[n].lane = NoLane => tracker[n] = Gone
  /\ lane_capacity \in [Lane -> Nat]
  /\ running \subseteq Lane \X Pod
  /\ ctx \subseteq Pod
  /\ cache \subseteq Pod
  /\ nodes_bootstrapped \in BOOLEAN
  /\ pc \in [Thread -> Step]
  /\ todo \in [Thread -> SUBSET (Pod \cup Node)]
  /\ listed \in [Pod -> PodState]
  /\ nodeList \in [Node -> NodeState]
  /\ cur \in [Thread -> Pod \cup {NoPod}]
  /\ lane \in [Thread -> Lane \cup {NoLane}]
  /\ tracked \in [Thread -> SUBSET Pod]
  /\ back \in [Thread -> Step]
  /\ expired \subseteq ctx
  /\ relists \in [Thread -> 0..MaxRelists]
  /\ wasCached \subseteq Pod
  /\ missed \subseteq Pod \cup Node
  /\ placed \subseteq Node
  /\ counted \subseteq Pod
  /\ recorded \in [Pod -> 0..2]

(* Pods and nodes exist before the controller does; a node may be labelled *)
(* for another lane, or not at all, later.                                 *)
Init ==
  /\ pods \in [Pod -> {"absent", "running"}]
  /\ label \in [Pod -> PodLabels]
  /\ nodes \in [Node -> {s \in NodeStates : s.active}]
  /\ podStream = [p \in Pod |-> <<>>]
  /\ nodeStream = [n \in Node |-> <<>>]
  /\ tracker = [n \in Node |-> Gone]
  /\ lane_capacity = [l \in Lane |-> 0]
  /\ running = {}
  /\ ctx = {}
  /\ cache = {}
  /\ nodes_bootstrapped = FALSE
  /\ pc = [t \in Thread |-> "list"]
  /\ todo = [t \in Thread |-> {}]
  /\ listed = [p \in Pod |-> "absent"]
  /\ nodeList = [n \in Node |-> Gone]
  /\ cur = [t \in Thread |-> NoPod]
  /\ lane = [t \in Thread |-> NoLane]
  /\ tracked = [t \in Thread |-> {}]
  /\ back = [t \in Thread |-> "list"]
  /\ expired = {}
  /\ relists = [t \in Thread |-> 0]
  /\ wasCached = {}
  /\ missed = {}
  /\ placed = {}
  /\ counted = {}
  /\ recorded = [p \in Pod |-> 0]

-----------------------------------------------------------------------------
(* The cluster.                                                            *)

PodChanges(p) ==
  /\ \/ pods[p] = "absent" /\ pods' = [pods EXCEPT ![p] = "running"]
     \/ pods[p] = "running" /\ pods' = [pods EXCEPT ![p] = "finished"]
     \/ pods[p] \in Listed /\ pods' = [pods EXCEPT ![p] = "deleted"]
  /\ podStream' = [podStream EXCEPT ![p] = Append(@, pods'[p])]
  /\ UNCHANGED <<label, nodes, nodeStream, maps, threads, completions, history>>

NodeChanges(n) ==
  /\ Len(nodeStream[n]) < MaxNodeEvents
  /\ \E s \in NodeStates \cup {Gone} :
       /\ s # nodes[n]
       /\ nodes' = [nodes EXCEPT ![n] = s]
       /\ nodeStream' = [nodeStream EXCEPT ![n] = Append(@, s)]
  /\ UNCHANGED <<pods, label, podStream, maps, threads, completions, history>>

-----------------------------------------------------------------------------
(* _upsert_running, for either thread: the lane is looked up, under the    *)
(* tracker's lock for a pod without a label, and then the pod is added     *)
(* under _running_lock.                                                    *)

Goto(t, s) == pc' = [pc EXCEPT ![t] = s]

Call(t, p, step) ==
  /\ cur' = [cur EXCEPT ![t] = p]
  /\ back' = [back EXCEPT ![t] = pc[t]]
  /\ Goto(t, step)

(* Back to the caller, with the locals forgotten.                          *)
Return(t) ==
  /\ Goto(t, back[t])
  /\ cur' = [cur EXCEPT ![t] = NoPod]
  /\ lane' = [lane EXCEPT ![t] = NoLane]
  /\ back' = [back EXCEPT ![t] = "list"]

LaneForPod(p) ==
  IF label[p] # NoLane THEN label[p] ELSE tracker[NodeOf[p]].lane

Place(t) ==
  /\ pc[t] = "place"
  /\ \/ LaneForPod(cur[t]) = NoLane /\ Return(t)
     \/ /\ LaneForPod(cur[t]) # NoLane
        /\ lane' = [lane EXCEPT ![t] = LaneForPod(cur[t])]
        /\ Goto(t, "add")
        /\ UNCHANGED <<cur, back>>
  /\ UNCHANGED <<cluster, maps, todo, listed, nodeList, tracked, completions, history>>

AddRunning(t) ==
  /\ pc[t] = "add"
  /\ running' = running \cup {<<lane[t], cur[t]>>}
  /\ counted' = IF t = "pod" THEN counted \cup {cur[t]} ELSE counted
  /\ Goto(t, "addCtx")
  /\ UNCHANGED <<cluster, tracker, lane_capacity, cache, nodes_bootstrapped,
                 locals, ctx, expired, recorded, history>>

(* The new entry has the time of now: a sweep under way spares it.         *)
AddCtx(t) ==
  /\ pc[t] = "addCtx"
  /\ ctx' = ctx \cup {cur[t]}
  /\ expired' = expired \ {cur[t]}
  /\ Return(t)
  /\ UNCHANGED <<cluster, maps, todo, listed, nodeList, tracked, counted, recorded, history>>

-----------------------------------------------------------------------------
(* The end of a pod: _record_completion if it has a context, then          *)
(* _remove_running.                                                        *)

Record ==
  /\ pc["pod"] = "record"
  /\ recorded' = IF cur["pod"] \in ctx /\ recorded[cur["pod"]] < 2
                   THEN [recorded EXCEPT ![cur["pod"]] = @ + 1] ELSE recorded
  /\ Goto("pod", "remove")
  /\ UNCHANGED <<cluster, maps, locals, ctx, expired, counted, history>>

(* Mutant of RemoveRunning: takes it out of the lane it would be put in    *)
(* now.                                                                    *)
RemoveFromItsLane ==
  /\ pc["pod"] = "remove"
  /\ running' = running \ {<<LaneForPod(cur["pod"]), cur["pod"]>>}
  /\ Goto("pod", "removeCtx")
  /\ UNCHANGED <<cluster, tracker, lane_capacity, cache, nodes_bootstrapped,
                 locals, completions, history>>

(* It is taken out of every lane.                                          *)
RemoveRunning ==
  /\ pc["pod"] = "remove"
  /\ running' = {x \in running : x[2] # cur["pod"]}
  /\ Goto("pod", "removeCtx")
  /\ UNCHANGED <<cluster, tracker, lane_capacity, cache, nodes_bootstrapped,
                 locals, completions, history>>

(* Mutant of RemoveCtx: leaves the context to the sweep.                   *)
RemoveNoCtx ==
  /\ pc["pod"] = "removeCtx"
  /\ Return("pod")
  /\ UNCHANGED <<cluster, maps, todo, listed, nodeList, tracked, completions, history>>

RemoveCtx ==
  /\ pc["pod"] = "removeCtx"
  /\ ctx' = ctx \ {cur["pod"]}
  /\ expired' = expired \ {cur["pod"]}
  /\ Return("pod")
  /\ UNCHANGED <<cluster, maps, todo, listed, nodeList, tracked, counted, recorded, history>>

(* _sweep_running_ctx, in the cycle thread: the running pods are read      *)
(* first, then the contexts older than a day that are not among them go.   *)

(* Mutant of Sweep: age is enough.                                         *)
SweepByAge ==
  /\ expired = {}
  /\ expired' \in SUBSET ctx \ {{}}
  /\ UNCHANGED <<cluster, maps, threads, ctx, counted, recorded, history>>

Sweep ==
  /\ expired = {}
  /\ expired' \in SUBSET {p \in ctx : \A l \in Lane : <<l, p>> \notin running} \ {{}}
  /\ UNCHANGED <<cluster, maps, threads, ctx, counted, recorded, history>>

Evict ==
  /\ expired # {}
  /\ ctx' = ctx \ expired
  /\ expired' = {}
  /\ UNCHANGED <<cluster, maps, threads, counted, recorded, history>>

-----------------------------------------------------------------------------
(* _rescan_unlaned_running_pods: what is tracked is read under the lock,   *)
(* then the cache, which may be older than any event since.                *)
Rescan(t) ==
  /\ pc[t] = "rescan"
  /\ tracked' = [tracked EXCEPT ![t] = {x[2] : x \in running}]
  /\ Goto(t, "readCache")
  /\ UNCHANGED <<cluster, maps, todo, listed, nodeList, cur, lane, back, completions, history>>

ReadCache(t) ==
  /\ pc[t] = "readCache"
  /\ todo' = [todo EXCEPT ![t] = cache \ tracked[t]]
  /\ tracked' = [tracked EXCEPT ![t] = {}]
  /\ Goto(t, "rescanItems")
  /\ UNCHANGED <<cluster, maps, listed, nodeList, cur, lane, back, completions, history>>

RescanItem(t, p) ==
  /\ pc[t] = "rescanItems"
  /\ p \in todo[t]
  /\ todo' = [todo EXCEPT ![t] = @ \ {p}]
  /\ Call(t, p, "place")
  /\ UNCHANGED <<cluster, maps, listed, nodeList, lane, tracked, completions, history>>

RescanDone(t) ==
  /\ pc[t] = "rescanItems"
  /\ todo[t] = {}
  /\ Goto(t, "watch")
  /\ UNCHANGED <<cluster, maps, locals, completions, history>>

-----------------------------------------------------------------------------
(* The pod watch.  Its list waits for the other bootstrap, but not for     *)
(* longer than ten seconds, so it may come before or after it.             *)

PodBootstrap ==
  /\ pc["pod"] = "list"
  /\ listed' = pods
  /\ todo' = [todo EXCEPT !["pod"] = {p \in Pod : pods[p] \in Listed}]
  /\ podStream' = [p \in Pod |-> <<>>]
  /\ missed' = missed \cup {p \in Pod : pods[p] = "deleted" /\ podStream[p] # <<>>}
  /\ Goto("pod", "items")
  /\ UNCHANGED <<pods, label, nodes, nodeStream, maps, nodeList, cur, lane, tracked, back,
                 completions, relists, wasCached, placed>>

HandlePod(p, s) ==
  Call("pod", p, CASE s = "running" -> "place" [] s = "finished" -> "record"
                   [] s = "deleted" -> "remove")

PodItem(p) ==
  /\ pc["pod"] = "items"
  /\ p \in todo["pod"]
  /\ todo' = [todo EXCEPT !["pod"] = @ \ {p}]
  /\ HandlePod(p, listed[p])
  /\ UNCHANGED <<cluster, maps, listed, nodeList, lane, tracked, completions, history>>

(* The cache is published after the items, and the other bootstrap looked  *)
(* for after that.                                                         *)
PublishCache ==
  /\ pc["pod"] = "items"
  /\ todo["pod"] = {}
  /\ cache' = {p \in Pod : listed[p] = "running"}
  /\ wasCached' = wasCached \cup cache'
  /\ listed' = [p \in Pod |-> "absent"]
  /\ Goto("pod", "up")
  /\ UNCHANGED <<cluster, tracker, lane_capacity, running, nodes_bootstrapped,
                 todo, nodeList, cur, lane, tracked, back,
                 completions, relists, missed, placed>>

(* Mutant of CheckNodesUp: leaves the scan to the other thread.            *)
CheckNothing ==
  /\ pc["pod"] = "up"
  /\ Goto("pod", "watch")
  /\ UNCHANGED <<cluster, maps, locals, completions, history>>

CheckNodesUp ==
  /\ pc["pod"] = "up"
  /\ Goto("pod", IF nodes_bootstrapped THEN "rescan" ELSE "watch")
  /\ UNCHANGED <<cluster, maps, locals, completions, history>>

PodEvent(p) ==
  /\ pc["pod"] = "watch"
  /\ podStream[p] # <<>>
  /\ podStream' = [podStream EXCEPT ![p] = Tail(@)]
  /\ HandlePod(p, Head(podStream[p]))
  /\ UNCHANGED <<pods, label, nodes, nodeStream, maps, todo, listed, nodeList, lane, tracked,
                 completions, history>>

-----------------------------------------------------------------------------
(* The node watch.                                                         *)

NodeBootstrap ==
  /\ pc["node"] = "list"
  /\ nodeList' = nodes
  /\ todo' = [todo EXCEPT !["node"] = {n \in Node : nodes[n] # Gone}]
  /\ nodeStream' = [n \in Node |-> <<>>]
  /\ missed' = missed \cup {n \in Node : nodes[n] = Gone /\ nodeStream[n] # <<>>}
  /\ Goto("node", "items")
  /\ UNCHANGED <<pods, label, nodes, podStream, maps, listed, cur, lane, tracked, back,
                 completions, relists, wasCached, placed>>

(* Mutant of Upsert: keeps a node that has left the pool.                  *)
UpsertAlways(n, s) ==
  /\ tracker' = [tracker EXCEPT ![n] = s]
  /\ UNCHANGED <<lane_capacity, running, cache, nodes_bootstrapped>>

(* NodeCapacityTracker.upsert and remove: a node without a known gpu-class *)
(* is not in the pool.                                                     *)
Upsert(n, s) ==
  /\ tracker' = [tracker EXCEPT ![n] = IF s.lane = NoLane THEN Gone ELSE s]
  /\ UNCHANGED <<lane_capacity, running, cache, nodes_bootstrapped>>

NodeItem(n) ==
  /\ pc["node"] = "items"
  /\ n \in todo["node"]
  /\ todo' = [todo EXCEPT !["node"] = @ \ {n}]
  /\ Upsert(n, nodeList[n])
  /\ placed' = IF nodeList[n].lane = NoLane THEN placed \ {n} ELSE placed \cup {n}
  /\ UNCHANGED <<cluster, pc, listed, nodeList, cur, lane, tracked, back,
                 completions, relists, wasCached, missed>>

(* lane_capacity() and set_lane_capacity.                                  *)
ActiveIn(tr, l) == {n \in Node : tr[n].lane = l /\ tr[n].active}
GpusOf(S) == Cardinality(UNION {{n} \X (1..GpuCount[n]) : n \in S})

(* Mutant of PushCapacity: a lane whose last node left keeps its capacity. *)
PushOccupied ==
  lane_capacity' = [l \in Lane |-> IF ActiveIn(tracker, l) = {} THEN lane_capacity[l]
                                   ELSE GpusOf(ActiveIn(tracker, l))]

PushCapacity == lane_capacity' = [l \in Lane |-> GpusOf(ActiveIn(tracker, l))]

BootstrapSync ==
  /\ pc["node"] = "items"
  /\ todo["node"] = {}
  /\ PushCapacity
  /\ nodeList' = [n \in Node |-> Gone]
  /\ Goto("node", "up")
  /\ UNCHANGED <<cluster, tracker, running, cache, nodes_bootstrapped, todo, listed,
                 cur, lane, tracked, back, completions, history>>

NodesUp ==
  /\ pc["node"] = "up"
  /\ nodes_bootstrapped' = TRUE
  /\ Goto("node", "rescan")
  /\ UNCHANGED <<cluster, tracker, lane_capacity, running, cache, locals, completions, history>>

NodeEvent(n) ==
  /\ pc["node"] = "watch"
  /\ nodeStream[n] # <<>>
  /\ nodeStream' = [nodeStream EXCEPT ![n] = Tail(@)]
  /\ Upsert(n, Head(nodeStream[n]))
  /\ placed' = IF Head(nodeStream[n]).lane = NoLane THEN placed \ {n} ELSE placed
  /\ Goto("node", "sync")
  /\ UNCHANGED <<pods, label, nodes, podStream, locals, completions, relists, wasCached, missed>>

EventSync ==
  /\ pc["node"] = "sync"
  /\ PushCapacity
  /\ Goto("node", "watch")
  /\ UNCHANGED <<cluster, tracker, running, cache, nodes_bootstrapped, locals, completions, history>>

(* 410: what the stream still held is gone, and the thread lists again.    *)
Expire(t) ==
  /\ pc[t] = "watch"
  /\ relists[t] < MaxRelists
  /\ relists' = [relists EXCEPT ![t] = @ + 1]
  /\ Goto(t, "list")
  /\ UNCHANGED <<cluster, maps, locals,
                 completions, wasCached, missed, placed>>

PodThread ==
  \/ PodBootstrap \/ PublishCache \/ CheckNodesUp \/ Record \/ RemoveRunning \/ RemoveCtx
  \/ \E p \in Pod : PodItem(p) \/ PodEvent(p)

NodeThread ==
  \/ NodeBootstrap \/ BootstrapSync \/ NodesUp \/ EventSync
  \/ \E n \in Node : NodeItem(n) \/ NodeEvent(n)

EitherThread(t) ==
  \/ Place(t) \/ AddRunning(t) \/ AddCtx(t) \/ Rescan(t) \/ ReadCache(t) \/ RescanDone(t)
  \/ \E p \in Pod : RescanItem(t, p)

Next ==
  \/ PodThread \/ NodeThread \/ Sweep \/ Evict
  \/ \E t \in Thread : EitherThread(t) \/ Expire(t)
  \/ \E p \in Pod : PodChanges(p)
  \/ \E n \in Node : NodeChanges(n)

Spec == Init /\ [][Next]_vars

-----------------------------------------------------------------------------
(* Properties.                                                             *)

Watching(t) == pc[t] = "watch"
Counted(p) == \E l \in Lane : <<l, p>> \in running

(* No running pod is missed: with both bootstraps done and its changes     *)
(* handled, a pod with a label is counted, and so is one without that a    *)
(* bootstrap listed on a node of the pool.  Whichever thread ends its      *)
(* bootstrap second sees the other's work (_bootstrap_pods publishes the   *)
(* cache and then tests the flag, _bootstrap_nodes sets the flag and then  *)
(* reads the cache).                                                       *)
RunningPodCounted ==
  \A p \in Pod :
    /\ Watching("pod") /\ Watching("node")
    /\ pods[p] = "running" /\ podStream[p] = <<>>
    /\ label[p] # NoLane \/ (p \in cache /\ NodeOf[p] \in placed)
    => Counted(p)

(* A pod that does not run any more is counted only if a bootstrap had     *)
(* cached it or a relist swallowed its end: nothing else the two threads   *)
(* do to _kubernetes_running leaves a pod behind.                          *)
NoOtherGhost ==
  \A p \in Pod :
    /\ Watching("pod") /\ podStream[p] = <<>>
    /\ pods[p] # "running" /\ Counted(p)
    => p \in wasCached \cup missed

(* Once the node watch is up to date the scheduler has the capacity of the *)
(* nodes that are ready and schedulable, across relabelling, drains and    *)
(* relists (upsert, remove, _sync_lane_capacity): never less, and more     *)
(* only by nodes whose deletion a relist swallowed, because                *)
(* _bootstrap_nodes removes nothing.                                       *)
CapacityFollowsNodes ==
  Watching("node") /\ (\A n \in Node : nodeStream[n] = <<>>) =>
    \A l \in Lane : LET live == GpusOf(ActiveIn(nodes, l)) IN
      /\ live <= lane_capacity[l]
      /\ lane_capacity[l] <= live + GpusOf(missed \cap Node)

(* Every end that the pod thread handles of a pod that it counted is       *)
(* recorded, whatever the node thread and the sweep do: the context is     *)
(* there until the pod thread itself takes it out (_record_completion,     *)
(* _sweep_running_ctx).                                                    *)
CompletionNotLost ==
  \A p \in Pod :
    Watching("pod") /\ pods[p] = "finished" /\ podStream[p] = <<>> /\ p \in counted
    => recorded[p] > 0

(* It is recorded once, also when the pod is listed again after its end,   *)
(* unless a scan of the old cache had brought its context back.            *)
CompletionRecordedOnce ==
  \A p \in Pod : recorded[p] > 1 => p \in wasCached

(* docs/design.md:74 of the repository: _kubernetes_running has the        *)
(* "Running pods per lane".  The list after a 410 only adds: a pod deleted *)
(* before it is never taken out, and one that ended long ago comes back    *)
(* when the node watch lists again and scans the cache of the pod watch.   *)
RunningPodsAreLive ==
  \A p \in Pod :
    Watching("pod") /\ podStream[p] = <<>> /\ Counted(p) => pods[p] = "running"
=============================================================================
