------------------------ MODULE WatchesCapacity_proofs ------------------------
(***************************************************************************)
(* The node watch and NodeCapacityTracker for any finite set of nodes, any *)
(* lanes, any number of relists and of undelivered events: what the        *)
(* scheduler takes for a lane's capacity is what its nodes have.           *)
(*                                                                         *)
(* CapacityFollowsNodes speaks of a node watch that is up to date; it is   *)
(* not inductive, because it says nothing of the way there.  CapacityInv   *)
(* adds what a node's stream, the list under way and the tracker know of   *)
(* it, and when the scheduler was last told.                               *)
(***************************************************************************)
EXTENDS Watches_proofs, FiniteSetTheorems

-----------------------------------------------------------------------------
(* The GPUs of a set of nodes (NodeCapacityTracker.lane_capacity).         *)

(* What the scheduler is told of a set of nodes is a number.                *)
LEMMA GpusType ==
  ASSUME NEW S \in SUBSET Node
  PROVE  GpusOf(S) \in Nat /\ IsFiniteSet(UNION {{n} \X (1..GpuCount[n]) : n \in S})
<1>1. IsFiniteSet(S)
  <2>1. IsFiniteSet(Node)
    BY WatchesAssumption
  <2> QED BY ONLY <2>1, S \in SUBSET Node, FS_Subset
<1>2. ASSUME NEW n \in S PROVE IsFiniteSet({n} \X (1..GpuCount[n]))
  <2>1. 1 \in Int /\ GpuCount[n] \in Int
    BY WatchesAssumption
  <2>2. IsFiniteSet(1..GpuCount[n]) /\ IsFiniteSet({n})
    BY ONLY <2>1, FS_Interval, FS_Singleton
  <2> QED BY ONLY <2>2, FS_Product
<1> DEFINE T == {{n} \X (1..GpuCount[n]) : n \in S}
           f == [n \in S |-> {n} \X (1..GpuCount[n])]
<1>3. IsFiniteSet(T)
  <2>1. f \in Surjection(S, T)
    BY DEF Surjection
  <2> HIDE DEF T, f
  <2> QED BY ONLY <1>1, <2>1, FS_Surjection
<1>4. IsFiniteSet(UNION T)
  <2>1. \A X \in T : IsFiniteSet(X)
    BY <1>2
  <2> HIDE DEF T
  <2> QED BY ONLY <1>3, <2>1, FS_UNION
<1> QED BY <1>4, FS_CardinalityType DEF GpusOf

(* More nodes never have fewer GPUs.                                        *)
LEMMA GpusMonotone ==
  ASSUME NEW S \in SUBSET Node, NEW T \in SUBSET S
  PROVE  GpusOf(T) <= GpusOf(S)
<1> DEFINE G(R) == UNION {{n} \X (1..GpuCount[n]) : n \in R}
<1>1. IsFiniteSet(G(S))
  BY GpusType
<1>2. G(T) \in SUBSET G(S)
  OBVIOUS
<1>3. GpusOf(T) = Cardinality(G(T)) /\ GpusOf(S) = Cardinality(G(S))
  BY DEF GpusOf
<1> HIDE DEF G
<1>4. Cardinality(G(T)) <= Cardinality(G(S))
  BY ONLY <1>1, <1>2, FS_Subset
<1> QED BY <1>3, <1>4

(* Nodes together have no more GPUs than apart.                             *)
LEMMA GpusOfUnion ==
  ASSUME NEW S \in SUBSET Node, NEW T \in SUBSET Node
  PROVE  GpusOf(S \cup T) <= GpusOf(S) + GpusOf(T)
<1> DEFINE G(R) == UNION {{n} \X (1..GpuCount[n]) : n \in R}
<1>1. /\ IsFiniteSet(G(S)) /\ IsFiniteSet(G(T))
      /\ GpusOf(S) = Cardinality(G(S)) /\ GpusOf(T) = Cardinality(G(T))
      /\ GpusOf(S \cup T) = Cardinality(G(S \cup T))
  BY GpusType DEF GpusOf
<1>2. G(S \cup T) = G(S) \cup G(T)
  OBVIOUS
<1> HIDE DEF G
<1>3. /\ Cardinality(G(S) \cup G(T))
           = Cardinality(G(S)) + Cardinality(G(T)) - Cardinality(G(S) \cap G(T))
      /\ IsFiniteSet(G(S) \cap G(T))
  BY ONLY <1>1, FS_Union, FS_Intersection
<1>4. /\ Cardinality(G(S)) \in Nat /\ Cardinality(G(T)) \in Nat
      /\ Cardinality(G(S) \cap G(T)) \in Nat
  BY <1>1, <1>3, FS_CardinalityType
<1>5. Cardinality(G(S \cup T)) = Cardinality(G(S) \cup G(T))
  BY <1>2
<1> DEFINE a == Cardinality(G(S))
           b == Cardinality(G(T))
           c == Cardinality(G(S) \cap G(T))
<1>6. /\ a \in Nat /\ b \in Nat /\ c \in Nat
      /\ GpusOf(S) = a /\ GpusOf(T) = b /\ GpusOf(S \cup T) = a + b - c
  BY <1>1, <1>3, <1>4, <1>5
<1> HIDE DEF a, b, c
<1> QED BY ONLY <1>6

(* A lane without nodes has no GPUs.                                       *)
LEMMA GpusOfNone == GpusOf({}) = 0
<1>1. UNION {{n} \X (1..GpuCount[n]) : n \in {}} = {}
  OBVIOUS
<1> QED BY <1>1, FS_EmptySet DEF GpusOf

-----------------------------------------------------------------------------
(* The invariant.                                                          *)

(* The types that TrackedTypes leaves out.                                 *)
RestTypes ==
  /\ lane_capacity \in [Lane -> Nat]
  /\ \A n \in Node : tracker[n].lane = NoLane => tracker[n] = Gone
  /\ nodes_bootstrapped \in BOOLEAN
  /\ ctx \subseteq Pod
  /\ expired \subseteq ctx
  /\ relists \in [Thread -> 0..MaxRelists]
  /\ missed \subseteq Pod \cup Node
  /\ placed \subseteq Node
  /\ counted \subseteq Pod

(* The last undelivered change of a node is its state.                     *)
NodeStreamInv ==
  \A n \in Node : nodeStream[n] # <<>> => nodeStream[n][Len(nodeStream[n])] = nodes[n]

(* What the tracker keeps of a node.                                       *)
InPool(s) == IF s.lane = NoLane THEN Gone ELSE s

(* A node without undelivered changes is tracked as it is, or will be once *)
(* the list is worked off; only a deletion that a relist swallowed is not  *)
(* made up for, because the list has no entry for it.                      *)
Known(n) ==
  IF pc["node"] = "items" /\ n \in todo["node"] THEN nodeList[n] = nodes[n]
  ELSE \/ tracker[n] = InPool(nodes[n])
       \/ nodes[n] = Gone /\ n \in missed
       \/ pc["node"] = "list" /\ nodes[n] # Gone

KnownInv == \A n \in Node : nodeStream[n] = <<>> => Known(n)

(* The scheduler knows what the tracker knows, but while the node thread   *)
(* is about to tell it.                                                    *)
PushedInv ==
  pc["node"] \notin {"items", "sync"} =>
    \A l \in Lane : lane_capacity[l] = GpusOf(ActiveIn(tracker, l))

CapacityInv == RestTypes /\ NodeStreamInv /\ KnownInv /\ PushedInv

(* A new controller tracks no node and gives every lane no capacity.       *)
LEMMA CapacityInit ==
  ASSUME Init
  PROVE  CapacityInv
<1>1. RestTypes
  <2>1. 0 \in 0..MaxRelists
    BY WatchesAssumption
  <2>2. \A n \in Node : tracker[n] = Gone
    BY DEF Init
  <2> QED BY <2>1, <2>2 DEF Init, RestTypes
<1>2. NodeStreamInv
  BY DEF Init, NodeStreamInv
<1>3. KnownInv
  <2> SUFFICES ASSUME NEW n \in Node PROVE Known(n)
    BY DEF KnownInv
  <2>1. pc["node"] = "list" /\ nodes[n] \in {s \in NodeStates : s.active}
    BY DEF Init, Thread
  <2>2. nodes[n] # Gone
    BY <2>1 DEF Gone
  <2> QED BY <2>1, <2>2 DEF Known
<1>4. PushedInv
  <2> SUFFICES ASSUME NEW l \in Lane PROVE lane_capacity[l] = GpusOf(ActiveIn(tracker, l))
    BY DEF PushedInv
  <2>1. lane_capacity[l] = 0
    BY DEF Init
  <2>2. ActiveIn(tracker, l) = {}
    BY DEF Init, ActiveIn, Gone
  <2> QED BY <2>1, <2>2, GpusOfNone
<1> QED BY <1>1, <1>2, <1>3, <1>4 DEF CapacityInv

NodeFacts == <<nodes, nodeStream, tracker, nodeList, lane_capacity>>

PodSideStep ==
  \/ PodThread \/ Sweep \/ Evict \/ EitherThread("pod") \/ Expire("pod")
  \/ \E p \in Pod : PodChanges(p)
  \/ UNCHANGED vars

(* The pod thread, the sweep and the pods leave the nodes, the tracker and *)
(* the capacities alone.                                                   *)
LEMMA PodSideLeaves ==
  ASSUME WatchesInv, PodSideStep
  PROVE  /\ UNCHANGED NodeFacts /\ pc'["node"] = pc["node"] /\ todo'["node"] = todo["node"]
         /\ missed \subseteq missed'
<1>1. pc \in [Thread -> Step] /\ todo \in [Thread -> SUBSET (Pod \cup Node)]
  BY DEF WatchesInv, TrackedTypes
<1> USE DEF Thread, NodeFacts, cluster, maps, threads, locals, completions, history
<1>2. CASE PodThread
  BY <1>1, <1>2 DEF PodThread, PodBootstrap, PublishCache, CheckNodesUp, Record, RemoveRunning,
     RemoveCtx, PodItem, PodEvent, HandlePod, Call, Return, Goto
<1>3. CASE Sweep \/ Evict \/ UNCHANGED vars \/ \E p \in Pod : PodChanges(p)
  BY <1>3 DEF Sweep, Evict, vars, PodChanges
<1>4. CASE EitherThread("pod") \/ Expire("pod")
  BY <1>1, <1>4 DEF EitherThread, Place, AddRunning, AddCtx, Rescan, ReadCache, RescanDone,
     RescanItem, Expire, Call, Return, Goto
<1> QED BY <1>2, <1>3, <1>4 DEF PodSideStep

(* The node thread is past its list and has told the scheduler.            *)
Settled == {"up", "rescan", "readCache", "rescanItems", "watch", "place", "add", "addCtx"}

(* So does the node thread while it scans for pods without a label.        *)
LEMMA NodeScanLeaves ==
  ASSUME WatchesInv, EitherThread("node") \/ NodesUp
  PROVE  /\ UNCHANGED NodeFacts /\ UNCHANGED missed
         /\ pc["node"] \in Settled /\ pc'["node"] \in Settled
<1>1. /\ pc \in [Thread -> Step]
      /\ pc["node"] \in Upserting => back["node"] = "rescanItems"
  BY DEF WatchesInv, TrackedTypes, NodeScanInv
<1> USE DEF Thread, NodeFacts, Settled, Upserting, cluster, maps, locals, completions, history
<1>2. CASE NodesUp
  BY <1>1, <1>2 DEF NodesUp, Goto
<1>3. CASE Place("node")
  BY <1>1, <1>3 DEF Place, Return, Goto
<1>4. CASE AddRunning("node") \/ AddCtx("node")
  BY <1>1, <1>4 DEF AddRunning, AddCtx, Return, Goto
<1>5. CASE Rescan("node") \/ ReadCache("node") \/ RescanDone("node")
  BY <1>1, <1>5 DEF Rescan, ReadCache, RescanDone, Goto
<1>6. CASE \E p \in Pod : RescanItem("node", p)
  BY <1>1, <1>6 DEF RescanItem, Call, Goto
<1> QED BY <1>2, <1>3, <1>4, <1>5, <1>6 DEF EitherThread

-----------------------------------------------------------------------------
(* Every step keeps it.                                                    *)

ChainInv == NodeStreamInv /\ KnownInv /\ PushedInv

(* The pod thread, the sweep and the pods keep the chain from a node to    *)
(* its capacity.                                                           *)
LEMMA PodSideKeeps ==
  ASSUME WatchesInv, ChainInv, PodSideStep
  PROVE  ChainInv'
<1>1. /\ nodes' = nodes /\ nodeStream' = nodeStream /\ tracker' = tracker
      /\ nodeList' = nodeList /\ lane_capacity' = lane_capacity
      /\ pc'["node"] = pc["node"] /\ todo'["node"] = todo["node"]
      /\ missed \subseteq missed'
  BY PodSideLeaves DEF NodeFacts
<1>2. NodeStreamInv'
  BY <1>1 DEF ChainInv, NodeStreamInv
<1>3. KnownInv'
  BY <1>1 DEF ChainInv, KnownInv, Known
<1>4. PushedInv'
  BY <1>1 DEF ChainInv, PushedInv, ActiveIn
<1> QED BY <1>2, <1>3, <1>4 DEF ChainInv

(* So does the scan (_rescan_unlaned_running_pods).                        *)
LEMMA NodeScanKeeps ==
  ASSUME WatchesInv, ChainInv, EitherThread("node") \/ NodesUp
  PROVE  ChainInv'
<1>1. /\ nodes' = nodes /\ nodeStream' = nodeStream /\ tracker' = tracker
      /\ nodeList' = nodeList /\ lane_capacity' = lane_capacity /\ missed' = missed
      /\ pc["node"] \notin {"list", "items", "sync"}
      /\ pc'["node"] \notin {"list", "items", "sync"}
  BY NodeScanLeaves DEF NodeFacts, Settled
<1>2. NodeStreamInv'
  BY <1>1 DEF ChainInv, NodeStreamInv
<1>3. KnownInv'
  BY <1>1 DEF ChainInv, KnownInv, Known
<1>4. PushedInv'
  BY <1>1 DEF ChainInv, PushedInv, ActiveIn
<1> QED BY <1>2, <1>3, <1>4 DEF ChainInv

(* A node that changes is known by its stream.                             *)
LEMMA NodeChangesKeeps ==
  ASSUME WatchesInv, ChainInv, NEW n \in Node, NodeChanges(n)
  PROVE  ChainInv'
<1>1. /\ nodes \in [Node -> NodeState] /\ nodeStream \in [Node -> Seq(NodeState)]
      /\ pc' = pc /\ todo' = todo /\ nodeList' = nodeList /\ tracker' = tracker
      /\ lane_capacity' = lane_capacity /\ missed' = missed
  BY DEF WatchesInv, TrackedTypes, NodeChanges, maps, threads, locals, history
<1>2. PICK s \in NodeState : /\ nodes' = [nodes EXCEPT ![n] = s]
                             /\ nodeStream' = [nodeStream EXCEPT ![n] = Append(@, s)]
  BY WatchesAssumption DEF NodeChanges, NodeState, Gone
<1>3. nodeStream[n] \in Seq(NodeState)
  BY <1>1
<1>4. /\ nodes'[n] = s /\ nodeStream'[n] = Append(nodeStream[n], s)
      /\ \A m \in Node \ {n} : nodes'[m] = nodes[m] /\ nodeStream'[m] = nodeStream[m]
  BY <1>1, <1>2
<1>5. /\ nodeStream'[n] # <<>>
      /\ nodeStream'[n][Len(nodeStream'[n])] = s
  BY <1>3, <1>4, AppendOf
<1>6. NodeStreamInv'
  BY <1>4, <1>5 DEF ChainInv, NodeStreamInv
<1>7. KnownInv'
  BY <1>1, <1>4, <1>5 DEF ChainInv, KnownInv, Known
<1>8. PushedInv'
  BY <1>1 DEF ChainInv, PushedInv, ActiveIn
<1> QED BY <1>6, <1>7, <1>8 DEF ChainInv

(* _bootstrap_nodes lists every node that there is; one that is gone was   *)
(* tracked no more, or its deletion is swallowed.                          *)
LEMMA NodeBootstrapKeeps ==
  ASSUME WatchesInv, ChainInv, NodeBootstrap
  PROVE  ChainInv'
<1>1. /\ pc["node"] = "list" /\ pc'["node"] = "items"
      /\ todo'["node"] = {n \in Node : nodes[n] # Gone}
      /\ nodeList' = nodes /\ nodes' = nodes /\ tracker' = tracker
      /\ \A n \in Node : nodeStream'[n] = <<>>
      /\ missed' = missed \cup {n \in Node : nodes[n] = Gone /\ nodeStream[n] # <<>>}
  BY DEF WatchesInv, TrackedTypes, NodeBootstrap, Goto, Thread, maps
<1>2. NodeStreamInv'
  BY <1>1 DEF NodeStreamInv
<1>3. KnownInv'
  <2> SUFFICES ASSUME NEW n \in Node PROVE Known(n)'
    BY DEF KnownInv
  <2>1. CASE nodes[n] # Gone
    BY <1>1, <2>1 DEF Known
  <2>2. CASE nodes[n] = Gone /\ nodeStream[n] # <<>>
    BY <1>1, <2>2 DEF Known
  <2>3. CASE nodes[n] = Gone /\ nodeStream[n] = <<>>
    <3>1. tracker[n] = InPool(nodes[n]) \/ n \in missed
      BY <1>1, <2>3 DEF ChainInv, KnownInv, Known
    <3> QED BY <1>1, <2>3, <3>1 DEF Known
  <2> QED BY <2>1, <2>2, <2>3
<1>4. PushedInv'
  BY <1>1 DEF PushedInv
<1> QED BY <1>2, <1>3, <1>4 DEF ChainInv

(* It tracks each listed node as the list says.                            *)
LEMMA NodeItemKeeps ==
  ASSUME WatchesInv, ChainInv, NEW n \in Node, NodeItem(n)
  PROVE  ChainInv'
<1>1. /\ pc["node"] = "items" /\ pc' = pc /\ n \in todo["node"]
      /\ todo'["node"] = todo["node"] \ {n}
      /\ nodeList' = nodeList /\ nodes' = nodes /\ nodeStream' = nodeStream
      /\ missed' = missed
      /\ tracker' = [tracker EXCEPT ![n] = InPool(nodeList[n])]
  BY DEF WatchesInv, TrackedTypes, NodeItem, Upsert, InPool, Thread, cluster
<1>2. /\ tracker'[n] = InPool(nodeList[n])
      /\ \A m \in Node \ {n} : tracker'[m] = tracker[m]
  BY <1>1 DEF WatchesInv, TrackedTypes
<1>3. NodeStreamInv'
  BY <1>1 DEF ChainInv, NodeStreamInv
<1>4. KnownInv'
  <2> SUFFICES ASSUME NEW m \in Node, nodeStream[m] = <<>> PROVE Known(m)'
    BY <1>1 DEF KnownInv
  <2>1. Known(m)
    BY DEF ChainInv, KnownInv
  <2>2. CASE m = n
    BY <1>1, <1>2, <2>1, <2>2 DEF Known
  <2>3. CASE m # n
    BY <1>1, <1>2, <2>1, <2>3 DEF Known
  <2> QED BY <2>2, <2>3
<1>5. PushedInv'
  BY <1>1 DEF PushedInv
<1> QED BY <1>3, <1>4, <1>5 DEF ChainInv

(* An event tracks the node as it was then, and the last one as it is.     *)
LEMMA NodeEventKeeps ==
  ASSUME WatchesInv, ChainInv, NEW n \in Node, NodeEvent(n)
  PROVE  ChainInv'
<1>1. /\ pc["node"] = "watch" /\ pc'["node"] = "sync" /\ nodeStream[n] # <<>>
      /\ nodeList' = nodeList /\ nodes' = nodes /\ missed' = missed
      /\ nodeStream' = [nodeStream EXCEPT ![n] = Tail(@)]
      /\ tracker' = [tracker EXCEPT ![n] = InPool(Head(nodeStream[n]))]
  BY DEF WatchesInv, TrackedTypes, NodeEvent, Upsert, InPool, Goto, Thread, locals
<1>2. /\ tracker'[n] = InPool(Head(nodeStream[n]))
      /\ nodeStream'[n] = Tail(nodeStream[n])
      /\ nodeStream[n] \in Seq(NodeState)
      /\ \A m \in Node \ {n} : tracker'[m] = tracker[m] /\ nodeStream'[m] = nodeStream[m]
  BY <1>1 DEF WatchesInv, TrackedTypes
<1>3. nodeStream[n][Len(nodeStream[n])] = nodes[n]
  BY <1>1 DEF ChainInv, NodeStreamInv
<1> DEFINE s == nodeStream[n]
<1>4. /\ Len(s) \in Nat \ {0} /\ Head(s) = s[1]
      /\ Tail(s) \in Seq(NodeState) /\ Len(Tail(s)) = Len(s) - 1
      /\ \A i \in 1..Len(Tail(s)) : Tail(s)[i] = s[i + 1]
      /\ IF Tail(s) = <<>> THEN Len(s) = 1 ELSE Len(Tail(s)) \in 1..Len(Tail(s))
  BY <1>1, <1>2, TailOf
<1>5. IF Tail(s) = <<>> THEN Head(s) = nodes[n]
      ELSE Tail(s)[Len(Tail(s))] = nodes[n]
  <2>1. CASE Tail(s) = <<>>
    BY <1>3, <1>4, <2>1
  <2>2. CASE Tail(s) # <<>>
    <3>1. Len(Tail(s)) + 1 = Len(s)
      BY <1>4
    <3> QED BY <1>3, <1>4, <2>2, <3>1
  <2> QED BY <2>1, <2>2
<1> HIDE DEF s
<1>6. /\ nodeStream'[n] = <<>> => tracker'[n] = InPool(nodes[n])
      /\ nodeStream'[n] # <<>> => nodeStream'[n][Len(nodeStream'[n])] = nodes[n]
  BY <1>2, <1>5 DEF s
<1>7. NodeStreamInv'
  BY <1>1, <1>2, <1>6 DEF ChainInv, NodeStreamInv
<1>8. KnownInv'
  BY <1>1, <1>2, <1>6 DEF ChainInv, KnownInv, Known
<1>9. PushedInv'
  BY <1>1 DEF PushedInv
<1> QED BY <1>7, <1>8, <1>9 DEF ChainInv

(* _sync_lane_capacity tells the scheduler, once the list is worked off.   *)
LEMMA SyncKeeps ==
  ASSUME WatchesInv, ChainInv, BootstrapSync \/ EventSync
  PROVE  ChainInv'
<1>1. /\ pc["node"] \in {"items", "sync"} /\ pc'["node"] \in {"up", "watch"}
      /\ pc["node"] = "items" => todo["node"] = {}
      /\ nodes' = nodes /\ nodeStream' = nodeStream /\ tracker' = tracker
      /\ missed' = missed
      /\ lane_capacity' = [l \in Lane |-> GpusOf(ActiveIn(tracker, l))]
  BY DEF WatchesInv, TrackedTypes, BootstrapSync, EventSync, PushCapacity, Goto, Thread,
         cluster, history
<1>2. NodeStreamInv'
  BY <1>1 DEF ChainInv, NodeStreamInv
<1>3. KnownInv'
  BY <1>1 DEF ChainInv, KnownInv, Known
<1>4. PushedInv'
  BY <1>1 DEF PushedInv, ActiveIn
<1> QED BY <1>2, <1>3, <1>4 DEF ChainInv

(* After a 410 what is there will be listed, and what is gone was known to *)
(* be.                                                                     *)
LEMMA NodeExpireKeeps ==
  ASSUME WatchesInv, ChainInv, Expire("node")
  PROVE  ChainInv'
<1>1. /\ pc["node"] = "watch" /\ pc'["node"] = "list"
      /\ nodes' = nodes /\ nodeStream' = nodeStream /\ tracker' = tracker
      /\ nodeList' = nodeList /\ lane_capacity' = lane_capacity /\ missed' = missed
  BY DEF WatchesInv, TrackedTypes, Expire, Goto, Thread, cluster, maps, locals
<1>2. NodeStreamInv'
  BY <1>1 DEF ChainInv, NodeStreamInv
<1>3. KnownInv'
  BY <1>1 DEF ChainInv, KnownInv, Known
<1>4. PushedInv'
  BY <1>1 DEF ChainInv, PushedInv, ActiveIn
<1> QED BY <1>2, <1>3, <1>4 DEF ChainInv

(* Every step keeps the chain.                                             *)
LEMMA ChainStep ==
  ASSUME WatchesInv, ChainInv, [Next]_vars
  PROVE  ChainInv'
<1>1. CASE PodSideStep
  BY <1>1, PodSideKeeps
<1>2. CASE EitherThread("node") \/ NodesUp
  BY <1>2, NodeScanKeeps
<1>3. CASE NodeBootstrap
  BY <1>3, NodeBootstrapKeeps
<1>4. CASE BootstrapSync \/ EventSync
  BY <1>4, SyncKeeps
<1>5. CASE \E n \in Node : NodeItem(n)
  BY <1>5, NodeItemKeeps
<1>6. CASE \E n \in Node : NodeEvent(n)
  BY <1>6, NodeEventKeeps
<1>7. CASE \E n \in Node : NodeChanges(n)
  BY <1>7, NodeChangesKeeps
<1>8. CASE Expire("node")
  BY <1>8, NodeExpireKeeps
<1> QED BY <1>1, <1>2, <1>3, <1>4, <1>5, <1>6, <1>7, <1>8
        DEF Next, NodeThread, PodSideStep, Thread

(* The types that the steps touch one by one.                              *)
LEMMA RestTypesStep ==
  ASSUME WatchesInv, RestTypes, [Next]_vars
  PROVE  RestTypes'
<1> DEFINE Others == <<nodes_bootstrapped, ctx, expired, relists, missed, placed, counted>>
           Tracked == <<lane_capacity, tracker>>
<1> USE DEF RestTypes, cluster, maps, threads, locals, completions, history
<1>1. ASSUME Tracked' = Tracked, Others' = Others
      PROVE  RestTypes'
  BY <1>1
<1>2. CASE \/ PublishCache \/ CheckNodesUp \/ Record \/ RemoveRunning
           \/ \E p \in Pod : PodItem(p) \/ PodEvent(p) \/ PodChanges(p)
  <2>1. Tracked' = Tracked /\ Others' = Others
    BY <1>2 DEF PublishCache, CheckNodesUp, Record, RemoveRunning, PodItem, PodEvent, PodChanges
  <2> QED BY <1>1, <2>1
<1>3. CASE PodBootstrap \/ NodeBootstrap
  <2>1. /\ Tracked' = Tracked /\ missed' \subseteq missed \cup Pod \cup Node
        /\ UNCHANGED <<nodes_bootstrapped, ctx, expired, relists, placed, counted>>
    BY <1>3 DEF PodBootstrap, NodeBootstrap
  <2> QED BY <2>1
<1>4. CASE RemoveCtx
  <2>1. /\ Tracked' = Tracked /\ ctx' = ctx \ {cur["pod"]} /\ expired' = expired \ {cur["pod"]}
        /\ UNCHANGED <<nodes_bootstrapped, relists, missed, placed, counted>>
    BY <1>4 DEF RemoveCtx
  <2> QED BY <2>1
<1>5. CASE Sweep \/ Evict
  <2>1. /\ Tracked' = Tracked
        /\ \/ ctx' = ctx /\ expired' \subseteq ctx
           \/ ctx' = ctx \ expired /\ expired' = {}
        /\ UNCHANGED <<nodes_bootstrapped, relists, missed, placed, counted>>
    BY <1>5 DEF Sweep, Evict
  <2> QED BY <2>1
<1>6. CASE \E t \in Thread : \/ Place(t) \/ Rescan(t) \/ ReadCache(t) \/ RescanDone(t)
                             \/ \E p \in Pod : RescanItem(t, p)
  <2>1. Tracked' = Tracked /\ Others' = Others
    BY <1>6 DEF Place, Rescan, ReadCache, RescanDone, RescanItem
  <2> QED BY <1>1, <2>1
<1>7. ASSUME NEW t \in Thread, AddRunning(t) \/ AddCtx(t)
      PROVE  RestTypes'
  <2>1. cur[t] \in Pod
    BY <1>7 DEF AddRunning, AddCtx, WatchesInv, ThreadInv, Handling, Upserting
  <2>2. /\ Tracked' = Tracked
        /\ \/ ctx' = ctx /\ expired' = expired
           \/ ctx' = ctx \cup {cur[t]} /\ expired' = expired \ {cur[t]}
        /\ counted' \in {counted, counted \cup {cur[t]}}
        /\ UNCHANGED <<nodes_bootstrapped, relists, missed, placed>>
    BY <1>7 DEF AddRunning, AddCtx
  <2> QED BY <2>1, <2>2
<1>8. ASSUME NEW t \in Thread, Expire(t)
      PROVE  RestTypes'
  <2>1. relists[t] \in 0..MaxRelists /\ MaxRelists \in Nat
    BY WatchesAssumption
  <2>2. /\ Tracked' = Tracked
        /\ relists' = [relists EXCEPT ![t] = relists[t] + 1] /\ relists[t] < MaxRelists
        /\ UNCHANGED <<nodes_bootstrapped, ctx, expired, missed, placed, counted>>
    BY <1>8 DEF Expire
  <2>3. relists[t] + 1 \in 0..MaxRelists
    BY <2>1, <2>2
  <2> QED BY <2>2, <2>3
<1>9. CASE BootstrapSync \/ EventSync
  <2>1. /\ lane_capacity' = [l \in Lane |-> GpusOf(ActiveIn(tracker, l))]
        /\ tracker' = tracker /\ Others' = Others
    BY <1>9 DEF BootstrapSync, EventSync, PushCapacity
  <2>2. \A l : ActiveIn(tracker, l) \in SUBSET Node
    BY DEF ActiveIn
  <2>3. lane_capacity' \in [Lane -> Nat]
    BY <2>1, <2>2, GpusType
  <2> QED BY <2>1, <2>3
<1>10. CASE NodesUp
  BY <1>10 DEF NodesUp
<1>11. ASSUME NEW n \in Node, NEW s, Upsert(n, s), placed' \subseteq placed \cup {n},
              UNCHANGED <<ctx, expired, relists, missed, counted>>
       PROVE  RestTypes'
  <2>1. tracker' = [tracker EXCEPT ![n] = InPool(s)]
    BY <1>11 DEF Upsert, InPool
  <2>2. InPool(s).lane = NoLane => InPool(s) = Gone
    BY DEF InPool, Gone
  <2>3. tracker \in [Node -> NodeState]
    BY DEF WatchesInv, TrackedTypes
  <2>4. \A m \in Node : tracker'[m].lane = NoLane => tracker'[m] = Gone
    BY <2>1, <2>2, <2>3
  <2>5. UNCHANGED <<lane_capacity, nodes_bootstrapped>>
    BY <1>11 DEF Upsert
  <2> QED BY <1>11, <2>4, <2>5
<1>12. CASE \E n \in Node : NodeItem(n) \/ NodeEvent(n)
  <2>1. PICK n \in Node : NodeItem(n) \/ NodeEvent(n)
    BY <1>12
  <2>2. /\ Upsert(n, nodeList[n]) \/ Upsert(n, Head(nodeStream[n]))
        /\ placed' \subseteq placed \cup {n}
        /\ UNCHANGED <<ctx, expired, relists, missed, counted>>
    BY <2>1 DEF NodeItem, NodeEvent
  <2> QED BY <2>2, <1>11
<1>13. CASE UNCHANGED vars \/ \E n \in Node : NodeChanges(n)
  <2>1. Tracked' = Tracked /\ Others' = Others
    BY <1>13 DEF vars, NodeChanges
  <2> QED BY <1>1, <2>1
<1> QED BY <1>2, <1>3, <1>4, <1>5, <1>6, <1>7, <1>8, <1>9, <1>10, <1>12, <1>13
        DEF Next, PodThread, NodeThread, EitherThread

-----------------------------------------------------------------------------
(* The theorems.                                                           *)

(* The chain from the nodes to the capacities holds in every reachable     *)
(* state (_bootstrap_nodes, _watch_nodes, NodeCapacityTracker).            *)
THEOREM CapacityInvariant == Spec => []CapacityInv
<1>1. Init => CapacityInv
  BY CapacityInit
<1>2. WatchesInv /\ CapacityInv /\ [Next]_vars => CapacityInv'
  BY RestTypesStep, ChainStep DEF CapacityInv, ChainInv
<1> QED BY <1>1, <1>2, WatchesInvariant, PTL DEF Spec

(* The variables of both watch threads keep their types; a node that       *)
(* leaves the pool leaves no entry, and the sums are numbers.              *)
THEOREM WatchesTypes == Spec => []TypeOK
<1>1. WatchesInv /\ CapacityInv => TypeOK
  <2> SUFFICES ASSUME WatchesInv, CapacityInv PROVE TypeOK
    OBVIOUS
  <2>1. podStream \in [Pod -> Seq(PodState)]
    BY DEF WatchesInv, TrackedTypes, PodState
  <2> QED BY <2>1 DEF WatchesInv, TrackedTypes, CapacityInv, RestTypes, TypeOK
<1> QED BY <1>1, WatchesInvariant, CapacityInvariant, PTL

(* An up-to-date node watch has told the scheduler the capacity of the     *)
(* active nodes, but for the deletions that a relist swallowed             *)
(* (_sync_lane_capacity, _bootstrap_nodes).                                *)
THEOREM CapacityIsThatOfTheNodes == Spec => []CapacityFollowsNodes
<1>1. WatchesInv /\ CapacityInv => CapacityFollowsNodes
  <2> SUFFICES ASSUME WatchesInv, CapacityInv, Watching("node"),
                      \A n \in Node : nodeStream[n] = <<>>, NEW l \in Lane
               PROVE  /\ GpusOf(ActiveIn(nodes, l)) <= lane_capacity[l]
                      /\ lane_capacity[l] <=
                           GpusOf(ActiveIn(nodes, l)) + GpusOf(missed \cap Node)
    BY DEF CapacityFollowsNodes
  <2> DEFINE live == ActiveIn(nodes, l)
             known == ActiveIn(tracker, l)
  <2>1. \A n \in Node : \/ tracker[n] = InPool(nodes[n])
                        \/ nodes[n] = Gone /\ n \in missed
    BY DEF CapacityInv, KnownInv, Known, Watching
  <2>2. l # NoLane
    BY WatchesAssumption
  <2>3. live \subseteq known
    BY <2>1, <2>2 DEF ActiveIn, InPool, Gone
  <2>4. known \subseteq live \cup (missed \cap Node)
    BY <2>1, <2>2 DEF ActiveIn, InPool, Gone
  <2>5. live \in SUBSET Node /\ known \in SUBSET Node /\ missed \cap Node \in SUBSET Node
    BY DEF ActiveIn
  <2>6. lane_capacity[l] = GpusOf(known)
    BY DEF CapacityInv, PushedInv, Watching
  <2> HIDE DEF live, known
  <2>7. GpusOf(live) <= GpusOf(known)
    BY <2>3, <2>5, GpusMonotone
  <2>8. /\ GpusOf(known) <= GpusOf(live \cup (missed \cap Node))
        /\ GpusOf(live \cup (missed \cap Node)) <= GpusOf(live) + GpusOf(missed \cap Node)
    BY <2>4, <2>5, GpusMonotone, GpusOfUnion
  <2>9. /\ GpusOf(known) \in Nat /\ GpusOf(live \cup (missed \cap Node)) \in Nat
        /\ GpusOf(live) \in Nat /\ GpusOf(missed \cap Node) \in Nat
    BY <2>5, GpusType
  <2>10. GpusOf(known) <= GpusOf(live) + GpusOf(missed \cap Node)
    BY <2>8, <2>9
  <2> QED BY <2>6, <2>7, <2>10 DEF live
<1> QED BY <1>1, WatchesInvariant, CapacityInvariant, PTL
=============================================================================
