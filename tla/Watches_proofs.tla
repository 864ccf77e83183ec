--------------------------- MODULE Watches_proofs ---------------------------
(***************************************************************************)
(* What the two watch threads and the sweep do to the running pods and     *)
(* their completion contexts, for any pods, nodes and lanes, any number of *)
(* relists and of undelivered events.  An invariant of thirteen conjuncts, *)
(* kept by every step, implies the four properties at the end.             *)
(***************************************************************************)
EXTENDS Watches, TLAPS

-----------------------------------------------------------------------------
(* The invariant.                                                          *)

Upserting == {"place", "add", "addCtx"}
Handling == Upserting \cup {"record", "remove", "removeCtx"}
Callers == {"items", "watch", "rescanItems"}

(* Types, of what the pods have to do with (the rest of TypeOK is in       *)
(* WatchesCapacity_proofs).                                                *)
TrackedTypes ==
  /\ pods \in [Pod -> PodState]
  /\ label \in [Pod -> PodLabels]
  /\ nodes \in [Node -> NodeState]
  /\ podStream \in [Pod -> Seq({"running", "finished", "deleted"})]
  /\ nodeStream \in [Node -> Seq(NodeState)]
  /\ tracker \in [Node -> NodeState]
  /\ nodeList \in [Node -> NodeState]
  /\ pc \in [Thread -> Step]
  /\ todo \in [Thread -> SUBSET (Pod \cup Node)]
  /\ listed \in [Pod -> PodState]
  /\ cur \in [Thread -> Pod \cup {NoPod}]
  /\ lane \in [Thread -> Lane \cup {NoLane}]
  /\ tracked \in [Thread -> SUBSET Pod]
  /\ running \subseteq Lane \X Pod
  /\ back \in [Thread -> Step]
  /\ cache \subseteq wasCached
  /\ wasCached \subseteq Pod
  /\ recorded \in [Pod -> 0..2]

(* A thread that handles a pod has one, a caller, and at "add" a lane.     *)
ThreadInv ==
  \A t \in Thread :
    /\ pc[t] \in Handling => cur[t] \in Pod /\ back[t] \in Callers
    /\ pc[t] = "add" => lane[t] \in Lane

(* The last undelivered change of a pod is its state, and there is no      *)
(* deletion of a pod that is not deleted.                                  *)
EndsAsItIs(p) ==
  /\ podStream[p] # <<>> => podStream[p][Len(podStream[p])] = pods[p]
  /\ \A i \in 1..Len(podStream[p]) :
       podStream[p][i] = "deleted" => pods[p] = "deleted"

StreamInv == \A p \in Pod : EndsAsItIs(p)

(* The pod thread goes through a list it took; scans the cache it made of  *)
(* it.                                                                     *)
InItems == pc["pod"] = "items" \/ (pc["pod"] \in Handling /\ back["pod"] = "items")
InScanItems ==
  pc["pod"] = "rescanItems" \/ (pc["pod"] \in Handling /\ back["pod"] = "rescanItems")
InScan == pc["pod"] \in {"up", "rescan", "readCache"} \/ InScanItems

(* What it takes for running has run until something that is still to be   *)
(* delivered.                                                              *)
FreshInv ==
  \A p \in Pod :
    /\ InItems /\ p \in todo["pod"] => listed[p] \in Listed
    /\ InScanItems => todo["pod"] \subseteq cache
    /\ pods[p] # "running" =>
         /\ InItems /\ listed[p] = "running" => podStream[p] # <<>>
         /\ InScan /\ p \in cache => podStream[p] # <<>>
         /\ pc["pod"] \in {"place", "add"} /\ cur["pod"] = p => podStream[p] # <<>>

(* The end of a pod that ended is still to come.                           *)
EndAhead(p) ==
  \/ podStream[p] # <<>>
  \/ /\ pods[p] = "finished"
     /\ \/ pc["pod"] = "list"
        \/ InItems /\ p \in todo["pod"] /\ listed[p] = "finished"

(* The scans of the node thread add only what was cached.                  *)
NodeScanInv ==
  /\ pc["node"] \in Upserting => cur["node"] \in wasCached /\ back["node"] = "rescanItems"
  /\ pc["node"] \in Upserting \cup {"rescanItems"} => todo["node"] \subseteq wasCached
  /\ pc["node"] \notin {"record", "remove", "removeCtx"}

(* A pod that ended and is counted will be removed, but for the two        *)
(* exceptions of NoOtherGhost.                                             *)
GhostInv ==
  \A p \in Pod :
    Counted(p) /\ pods[p] # "running" =>
      \/ p \in wasCached \cup missed
      \/ EndAhead(p)
      \/ pc["pod"] \in {"record", "remove"} /\ cur["pod"] = p

(* A pod counted by the pod thread whose end was not recorded is there,    *)
(* with a context that no sweep takes, and its end is to come.             *)
ContextInv ==
  \A p \in Pod :
    p \in counted /\ pods[p] # "deleted" /\ recorded[p] = 0 =>
      /\ Counted(p)
      /\ \/ p \in ctx /\ p \notin expired
         \/ pc["pod"] = "addCtx" /\ cur["pod"] = p
      /\ ~(pc["pod"] \in {"remove", "removeCtx"} /\ cur["pod"] = p)
      /\ pods[p] = "finished" =>
           EndAhead(p) \/ (pc["pod"] = "record" /\ cur["pod"] = p)

(* A pod runs once, and what says that it ended, delivered or not, is right *)
(* and comes after what says that it runs.                                 *)
Ended(p) == pods[p] \in {"finished", "deleted"}
NotToRun(p) == \A i \in 1..Len(podStream[p]) : podStream[p][i] # "running"

InOrder(p) ==
  \A i \in 1..Len(podStream[p]) :
    IF podStream[p][i] = "running" THEN i = 1 ELSE Ended(p)

OrderInv ==
  \A p \in Pod :
    /\ InOrder(p)
    /\ listed[p] # "absent" \/ p \in cache => pods[p] # "absent"
    /\ InItems /\ listed[p] = "finished" => Ended(p) /\ NotToRun(p)
    /\ pc["pod"] \in Handling /\ cur["pod"] = p =>
         /\ back["pod"] = "items" => p \notin todo["pod"]
         /\ pc["pod"] \notin Upserting => Ended(p) /\ NotToRun(p)

(* The completion of a pod that no scan can bring back is recorded, and    *)
(* nothing ahead makes a context for it.                                   *)
RecordedInv ==
  \A p \in Pod :
    recorded[p] > 0 /\ p \notin wasCached =>
      /\ recorded[p] = 1
      /\ Ended(p) /\ NotToRun(p)
      /\ ~(InItems /\ p \in todo["pod"] /\ listed[p] = "running")
      /\ ~(pc["pod"] \in Upserting /\ cur["pod"] = p)
      /\ p \in ctx => pc["pod"] \in {"remove", "removeCtx"} /\ cur["pod"] = p

(* A running pod with a label is counted, or will be by the pod thread.    *)
LabelInv ==
  \A p \in Pod :
    label[p] # NoLane /\ pods[p] = "running" =>
      \/ Counted(p)
      \/ podStream[p] # <<>>
      \/ pc["pod"] = "list"
      \/ InItems /\ p \in todo["pod"] /\ listed[p] = "running"
      \/ pc["pod"] \in {"place", "add"} /\ cur["pod"] = p

(* A thread is in its scan, or comes to it, and has not passed over p.     *)
InScanOf(t) ==
  pc[t] = "rescanItems" \/ (pc[t] \in Handling /\ back[t] = "rescanItems")
ToScan(t, p) ==
  \/ pc[t] \in {"rescan", "readCache"}
  \/ InScanOf(t) /\ p \in todo[t]
  \/ pc[t] \in {"place", "add"} /\ cur[t] = p
  \/ t = "node" /\ pc[t] \in {"list", "items", "up"}
  \/ t = "pod" /\ pc[t] = "up" /\ nodes_bootstrapped

(* What a scan skips is counted.                                           *)
TrackedInv ==
  \A t \in Thread, p \in Pod :
    pc[t] = "readCache" /\ p \in tracked[t] => Counted(p) \/ Ended(p)

(* A placed node has a lane, and the flag is set after the first list.     *)
PlacedInv ==
  /\ ~nodes_bootstrapped => pc["node"] \in {"list", "items", "up"}
  /\ \A n \in placed : tracker[n].lane # NoLane

(* A running pod, cached and on a node that was placed, is counted or will *)
(* be by one of the threads.                                               *)
ScanInv ==
  \A p \in Pod :
    pods[p] = "running" /\ p \in cache /\ NodeOf[p] \in placed =>
      Counted(p) \/ ToScan("pod", p) \/ ToScan("node", p)

WatchesInv ==
  /\ TrackedTypes
  /\ ThreadInv
  /\ StreamInv
  /\ FreshInv
  /\ NodeScanInv
  /\ GhostInv
  /\ ContextInv
  /\ OrderInv
  /\ RecordedInv
  /\ LabelInv
  /\ TrackedInv
  /\ PlacedInv
  /\ ScanInv

-----------------------------------------------------------------------------
(* It holds at first: nothing is counted, listed or under way.             *)

LEMMA InitHolds ==
  ASSUME WatchesAssumption, Init
  PROVE  WatchesInv
<1>1. TrackedTypes
  BY DEF WatchesAssumption, Init, TrackedTypes, PodState, NodeState, Gone, Step, Thread
<1>2. ThreadInv
  BY DEF Init, ThreadInv, Handling, Upserting, Thread
<1>3. StreamInv
  BY DEF Init, StreamInv, EndsAsItIs
<1>4. FreshInv
  BY DEF Init, FreshInv, InItems, InScan, InScanItems, Handling, Upserting, Thread
<1>5. NodeScanInv
  BY DEF Init, NodeScanInv, Upserting, Thread
<1>6. GhostInv
  BY DEF Init, GhostInv, Counted
<1>7. ContextInv
  BY DEF Init, ContextInv
<1>8. OrderInv
  BY DEF Init, OrderInv, InOrder, InItems, Handling, Upserting, Thread
<1>9. RecordedInv
  BY DEF Init, RecordedInv
<1>10. LabelInv
  BY DEF Init, LabelInv, Thread
<1>11. TrackedInv /\ PlacedInv /\ ScanInv
  BY DEF Init, TrackedInv, PlacedInv, ScanInv, Thread
<1> QED BY <1>1, <1>2, <1>3, <1>4, <1>5, <1>6, <1>7, <1>8, <1>9, <1>10, <1>11
   DEF WatchesInv

-----------------------------------------------------------------------------
(* What the steps do, in the terms of the invariant.                       *)

(* The last change of a stream.                                            *)
LEMMA LastOf ==
  ASSUME NEW S, NEW s \in Seq(S), s # <<>>
  PROVE  Len(s) \in 1..Len(s) /\ s[Len(s)] \in S
<1>1. Len(s) \in Nat \ {0}
  OBVIOUS
<1> QED BY <1>1

(* The rest of a stream whose first change was delivered.                  *)
LEMMA TailOf ==
  ASSUME NEW S, NEW s \in Seq(S), s # <<>>
  PROVE  /\ Len(s) \in Nat \ {0}
         /\ Head(s) = s[1] /\ s[1] \in S
         /\ Tail(s) \in Seq(S) /\ Len(Tail(s)) = Len(s) - 1
         /\ \A i \in 1..Len(Tail(s)) : i + 1 \in 1..Len(s) /\ Tail(s)[i] = s[i + 1]
         /\ IF Tail(s) = <<>> THEN Len(s) = 1 ELSE Len(Tail(s)) \in 1..Len(Tail(s))
<1>1. Len(s) \in Nat \ {0}
  OBVIOUS
<1>2. Head(s) = s[1] /\ s[1] \in S
  BY <1>1
<1>3. Tail(s) \in Seq(S) /\ Len(Tail(s)) = Len(s) - 1
  OBVIOUS
<1>4. \A i \in 1..Len(Tail(s)) : i + 1 \in 1..Len(s) /\ Tail(s)[i] = s[i + 1]
  BY <1>1, <1>3
<1>5. CASE Tail(s) = <<>>
  <2>1. Len(<<>>) = 0
    OBVIOUS
  <2>2. Len(Tail(s)) = 0
    BY ONLY <2>1, <1>5, Zenon
  <2> QED BY <2>2, <1>5, <1>1, <1>2, <1>3, <1>4
<1>6. CASE Tail(s) # <<>>
  <2>1. Len(Tail(s)) \in Nat \ {0}
    BY <1>6, <1>3
  <2> QED BY <2>1, <1>6, <1>1, <1>2, <1>3, <1>4
<1> QED BY <1>5, <1>6

(* A stream with one more change.                                          *)
LEMMA AppendOf ==
  ASSUME NEW S, NEW s \in Seq(S), NEW e \in S
  PROVE  /\ Len(s) \in Nat
         /\ Append(s, e) \in Seq(S) /\ Append(s, e) # <<>>
         /\ Len(Append(s, e)) = Len(s) + 1
         /\ Append(s, e)[Len(s) + 1] = e
         /\ \A i \in 1..Len(s) : Append(s, e)[i] = s[i]
OBVIOUS

(* A pod with undelivered changes exists or has existed.                   *)
LEMMA NotAbsent ==
  ASSUME WatchesInv, NEW p \in Pod, podStream[p] # <<>>
  PROVE  pods[p] # "absent"
<1>1. podStream[p] \in Seq({"running", "finished", "deleted"})
  BY DEF WatchesInv, TrackedTypes
<1>2. podStream[p][Len(podStream[p])] \in {"running", "finished", "deleted"}
  BY <1>1, LastOf
<1> QED BY <1>2 DEF WatchesInv, StreamInv, EndsAsItIs

(* An event tells the pod thread of a pod that runs, unless more is to     *)
(* come, or that ended (_handle_pod_event by phase and type).              *)
LEMMA PodEventDoes ==
  ASSUME WatchesInv, NEW p \in Pod, PodEvent(p)
  PROVE  /\ pc["pod"] = "watch" /\ podStream[p] # <<>>
         /\ cur'["pod"] = p /\ back'["pod"] = "watch"
         /\ pc'["node"] = pc["node"]
         /\ UNCHANGED <<pods, label, todo, listed, tracked, running, cache, wasCached,
                        missed, ctx, expired, counted, recorded>>
         /\ \A q \in Pod \ {p} :
              /\ podStream'[q] = podStream[q]
              /\ NotToRun(q) => NotToRun(q)'
              /\ InOrder(q)' /\ EndsAsItIs(q)'
         /\ NotToRun(p)' /\ InOrder(p)' /\ EndsAsItIs(p)'
         /\ \/ /\ pc'["pod"] = "place"
               /\ ~NotToRun(p)
               /\ podStream'[p] = <<>> => pods[p] = "running"
            \/ /\ pc'["pod"] = "record"
               /\ Ended(p)
               /\ podStream'[p] = <<>> => pods[p] = "finished"
            \/ /\ pc'["pod"] = "remove"
               /\ Ended(p) /\ pods[p] = "deleted"
<1> DEFINE s == podStream[p]
<1>1. s \in Seq({"running", "finished", "deleted"}) /\ s # <<>>
  BY DEF WatchesInv, TrackedTypes, PodEvent
<1>2. /\ Len(s) \in Nat \ {0}
      /\ Tail(s) \in Seq({"running", "finished", "deleted"})
      /\ Len(Tail(s)) = Len(s) - 1
      /\ Head(s) = s[1] /\ s[1] \in {"running", "finished", "deleted"}
      /\ \A i \in 1..Len(Tail(s)) : i + 1 \in 1..Len(s) /\ Tail(s)[i] = s[i + 1]
  BY <1>1, TailOf
<1>3. IF Tail(s) = <<>> THEN Len(s) = 1 ELSE Len(Tail(s)) \in 1..Len(Tail(s))
  BY <1>1, TailOf
<1>4. /\ s[Len(s)] = pods[p]
      /\ \A i \in 1..Len(s) : s[i] = "deleted" => pods[p] = "deleted"
      /\ \A i \in 1..Len(s) : s[i] # "running" => Ended(p)
      /\ \A i \in 1..Len(s) : s[i] = "running" => i = 1
  BY <1>1 DEF WatchesInv, StreamInv, EndsAsItIs, OrderInv, InOrder
<1>5. podStream' = [podStream EXCEPT ![p] = Tail(s)] /\ podStream'[p] = Tail(s) /\ UNCHANGED pods
  BY DEF PodEvent, WatchesInv, TrackedTypes
<1>6. \A i \in 1..Len(Tail(s)) :
        /\ Tail(s)[i] # "running" /\ Ended(p)
        /\ Tail(s)[i] = "deleted" => pods[p] = "deleted"
  <2> SUFFICES ASSUME NEW i \in 1..Len(Tail(s))
               PROVE  /\ Tail(s)[i] # "running" /\ Ended(p)
                      /\ Tail(s)[i] = "deleted" => pods[p] = "deleted"
    OBVIOUS
  <2>1. i + 1 \in 1..Len(s) /\ Tail(s)[i] = s[i + 1] /\ i + 1 # 1
    BY <1>2
  <2> HIDE DEF s
  <2> QED BY <2>1, <1>4
<1>7. NotToRun(p)' /\ InOrder(p)'
  BY <1>5, <1>6 DEF NotToRun, InOrder, Ended
<1>8. EndsAsItIs(p)'
  <2>1. Tail(s) # <<>> => Tail(s)[Len(Tail(s))] = pods[p]
    BY <1>2, <1>3, <1>4
  <2> QED BY <2>1, <1>5, <1>6 DEF EndsAsItIs
<1>9. \A q \in Pod \ {p} : podStream'[q] = podStream[q]
  BY <1>5 DEF WatchesInv, TrackedTypes
<1>10. \A q \in Pod \ {p} : /\ NotToRun(q) => NotToRun(q)'
                           /\ InOrder(q)' /\ EndsAsItIs(q)'
  BY <1>5, <1>9 DEF NotToRun, InOrder, EndsAsItIs, Ended, WatchesInv, StreamInv, OrderInv
<1>11. /\ pc["pod"] = "watch"
       /\ cur'["pod"] = p /\ back'["pod"] = "watch"
       /\ pc'["node"] = pc["node"]
       /\ UNCHANGED <<pods, label, todo, listed, tracked, running, cache, wasCached,
                      missed, ctx, expired, counted, recorded>>
  BY DEF PodEvent, HandlePod, Call, Goto, WatchesInv, TrackedTypes, Thread, maps,
         completions, history
<1>12. \/ s[1] = "running" /\ pc'["pod"] = "place"
       \/ s[1] = "finished" /\ pc'["pod"] = "record"
       \/ s[1] = "deleted" /\ pc'["pod"] = "remove"
  BY <1>2 DEF PodEvent, HandlePod, Call, Goto, WatchesInv, TrackedTypes, Thread
<1>13. /\ s[1] = "running" => ~NotToRun(p)
       /\ s[1] # "running" => Ended(p)
       /\ s[1] = "deleted" => pods[p] = "deleted"
       /\ Tail(s) = <<>> => pods[p] = s[1]
  BY <1>2, <1>3, <1>4 DEF NotToRun
<1> QED BY <1>1, <1>5, <1>7, <1>8, <1>9, <1>10, <1>11, <1>12, <1>13

(* A pod comes to run, then finishes, and may be deleted; its stream gets  *)
(* each change.                                                            *)
LEMMA PodChangesDoes ==
  ASSUME WatchesInv, NEW p \in Pod, PodChanges(p)
  PROVE  /\ UNCHANGED <<pc, cur, back, label, todo, tracked, listed, running, cache,
                        nodes_bootstrapped, placed, wasCached, missed, ctx,
                        expired, counted, recorded>>
         /\ \A q \in Pod \ {p} :
              /\ pods'[q] = pods[q] /\ podStream'[q] = podStream[q]
              /\ NotToRun(q) => NotToRun(q)'
              /\ InOrder(q)' /\ EndsAsItIs(q)'
         /\ podStream'[p] # <<>> /\ InOrder(p)' /\ EndsAsItIs(p)'
         /\ \/ pods[p] = "absent" /\ pods'[p] = "running"
            \/ pods[p] = "running" /\ pods'[p] = "finished" /\ (NotToRun(p) => NotToRun(p)')
            \/ /\ pods[p] \in {"running", "finished"} /\ pods'[p] = "deleted"
               /\ NotToRun(p) => NotToRun(p)'
<1> DEFINE s == podStream[p]
           longer == Append(s, pods'[p])
<1>1. /\ s \in Seq({"running", "finished", "deleted"})
      /\ podStream'[p] = longer
      /\ \A q \in Pod \ {p} : pods'[q] = pods[q] /\ podStream'[q] = podStream[q]
  BY DEF WatchesInv, TrackedTypes, PodChanges
<1>2. \/ pods[p] = "absent" /\ pods'[p] = "running"
      \/ pods[p] = "running" /\ pods'[p] = "finished"
      \/ pods[p] \in {"running", "finished"} /\ pods'[p] = "deleted"
  BY DEF PodChanges, Listed, PodState, WatchesInv, TrackedTypes
<1>3. /\ Len(s) \in Nat
      /\ longer # <<>>
      /\ Len(longer) = Len(s) + 1
      /\ longer[Len(s) + 1] = pods'[p]
      /\ \A i \in 1..Len(s) : longer[i] = s[i]
  <2>1. pods'[p] \in {"running", "finished", "deleted"}
    BY <1>2
  <2> HIDE DEF s
  <2> QED BY <1>1, <2>1, AppendOf
<1>4. /\ s # <<>> => s[Len(s)] = pods[p]
      /\ \A i \in 1..Len(s) : s[i] = "deleted" => pods[p] = "deleted"
      /\ \A i \in 1..Len(s) : s[i] # "running" => pods[p] \in {"finished", "deleted"}
      /\ \A i \in 1..Len(s) : s[i] = "running" => i = 1
  BY <1>1 DEF WatchesInv, StreamInv, EndsAsItIs, OrderInv, InOrder, Ended
<1>5. pods[p] = "absent" => Len(s) = 0
  <2>1. s = <<>> => Len(s) = 0
    OBVIOUS
  <2> QED BY <2>1, NotAbsent
<1>6. EndsAsItIs(p)'
  BY <1>1, <1>2, <1>3, <1>4 DEF EndsAsItIs
<1>7. InOrder(p)'
  BY <1>1, <1>2, <1>3, <1>4, <1>5 DEF InOrder, Ended
<1>8. pods'[p] # "running" /\ NotToRun(p) => NotToRun(p)'
  BY <1>1, <1>3 DEF NotToRun
<1>9. \A q \in Pod \ {p} : /\ NotToRun(q) => NotToRun(q)'
                          /\ InOrder(q)' /\ EndsAsItIs(q)'
  BY <1>1 DEF NotToRun, InOrder, EndsAsItIs, Ended, WatchesInv, StreamInv, OrderInv
<1>10. UNCHANGED <<pc, cur, back, label, todo, tracked, listed, running, cache,
                   nodes_bootstrapped, placed, wasCached, missed, ctx, expired, counted, recorded>>
  BY DEF PodChanges, maps, threads, locals, completions, history
<1> QED BY <1>1, <1>2, <1>3, <1>6, <1>7, <1>8, <1>9, <1>10

(* _upsert_running looks the lane up and goes on, or returns.              *)
LEMMA PlaceDoes ==
  ASSUME WatchesAssumption, WatchesInv, NEW t \in Thread, Place(t)
  PROVE  /\ pc[t] = "place" /\ cur[t] \in Pod /\ back[t] \in Callers
         /\ UNCHANGED <<pods, podStream, label, tracker, running, cache, nodes_bootstrapped,
                        todo, tracked, listed, placed>>
         /\ \A u \in Thread \ {t} :
              pc'[u] = pc[u] /\ cur'[u] = cur[u] /\ back'[u] = back[u] /\ lane'[u] = lane[u]
         /\ \/ LaneForPod(cur[t]) = NoLane /\ pc'[t] = back[t] /\ cur'[t] = NoPod
            \/ /\ LaneForPod(cur[t]) # NoLane
               /\ pc'[t] = "add" /\ lane'[t] \in Lane
               /\ cur'[t] = cur[t] /\ back'[t] = back[t]
<1>1. /\ pc[t] = "place" /\ cur[t] \in Pod /\ back[t] \in Callers
      /\ LaneForPod(cur[t]) \in Lane \cup {NoLane}
  BY DEF WatchesInv, TrackedTypes, ThreadInv, Place, LaneForPod, WatchesAssumption,
         Handling, Upserting, NodeState
<1>2. UNCHANGED <<pods, podStream, label, tracker, running, cache, nodes_bootstrapped,
                  todo, tracked, listed, placed>>
  BY DEF Place, cluster, maps, history
<1>3. CASE LaneForPod(cur[t]) = NoLane /\ Return(t)
  BY <1>1, <1>2, <1>3 DEF Return, Goto, WatchesInv, TrackedTypes
<1>4. CASE /\ LaneForPod(cur[t]) # NoLane
           /\ lane' = [lane EXCEPT ![t] = LaneForPod(cur[t])]
           /\ Goto(t, "add")
           /\ UNCHANGED <<cur, back>>
  BY <1>1, <1>2, <1>4 DEF Goto, WatchesInv, TrackedTypes
<1> QED BY <1>3, <1>4 DEF Place

(* _record_completion records the completion if there is a context.        *)
LEMMA RecordDoes ==
  ASSUME WatchesInv, Record
  PROVE  /\ pc["pod"] = "record" /\ pc'["pod"] = "remove" /\ cur["pod"] \in Pod
         /\ pc'["node"] = pc["node"]
         /\ UNCHANGED <<pods, podStream, todo, listed, cur, back, running, ctx, expired, counted,
                        cache, wasCached>>
         /\ \A q \in Pod \ {cur["pod"]} : recorded'[q] = recorded[q]
         /\ recorded'[cur["pod"]] =
              IF cur["pod"] \in ctx /\ recorded[cur["pod"]] < 2
                THEN recorded[cur["pod"]] + 1 ELSE recorded[cur["pod"]]
         /\ \A q \in Pod : recorded[q] \in 0..2
BY DEF Record, WatchesInv, TrackedTypes, ThreadInv, Thread, Handling, Goto,
       cluster, maps, locals, history

(* What the node thread does leaves the pod thread where it is, and adds   *)
(* to the running pods and the contexts only pods that were cached.        *)
NodeSide == NodeThread \/ EitherThread("node") \/ Expire("node")

PodSide == <<pods, label, podStream, listed, cache, wasCached, counted, recorded,
             pc["pod"], todo["pod"], cur["pod"], back["pod"]>>

NodeSideLeaves ==
  /\ UNCHANGED PodSide
  /\ missed \subseteq missed' /\ expired' \subseteq expired
  /\ running \subseteq running' /\ ctx \subseteq ctx'
  /\ \A p \in Pod : p \in ctx' => p \in ctx \/ p \in wasCached
  /\ \A l \in Lane, p \in Pod :
       <<l, p>> \in running' => <<l, p>> \in running \/ p \in wasCached

(* That is what every step of the node thread does.                        *)
LEMMA NodeSideDoes ==
  ASSUME WatchesInv, NodeSide
  PROVE  NodeSideLeaves
<1> USE DEF WatchesInv, TrackedTypes, NodeScanInv, Upserting, Thread, PodSide, NodeSideLeaves,
            cluster, maps, threads, locals, completions, history
<1>1. CASE NodeThread
  BY <1>1 DEF NodeThread, NodeBootstrap, BootstrapSync, NodesUp, EventSync, NodeItem, NodeEvent,
              Upsert, Goto
<1>2. CASE Place("node")
  BY <1>2 DEF Place, Goto, Return
<1>3. CASE AddRunning("node")
  BY <1>3 DEF AddRunning, Goto
<1>4. CASE AddCtx("node")
  BY <1>4 DEF AddCtx, Goto, Return
<1>5. CASE Rescan("node")
  BY <1>5 DEF Rescan, Goto
<1>6. CASE ReadCache("node")
  BY <1>6 DEF ReadCache, Goto
<1>7. CASE RescanDone("node")
  BY <1>7 DEF RescanDone, Goto
<1>8. CASE \E p \in Pod : RescanItem("node", p)
  BY <1>8 DEF RescanItem, Goto, Call
<1>9. CASE Expire("node")
  BY <1>9 DEF Expire, Goto
<1> QED BY <1>1, <1>2, <1>3, <1>4, <1>5, <1>6, <1>7, <1>8, <1>9 DEF NodeSide, EitherThread

-----------------------------------------------------------------------------
(* Every step keeps the invariant, one conjunct after the other.           *)

(* Types, and the lanes of what is counted.                                *)
LEMMA TypesStep ==
  ASSUME WatchesAssumption, WatchesInv, [Next]_vars
  PROVE  TrackedTypes'
<1> USE DEF WatchesInv, TrackedTypes, Thread, Handling, Upserting, Callers,
            Step, ThreadInv, PodState, NodeState, Gone, cluster, maps, threads,
            locals, completions, history
<1>1. ASSUME PodBootstrap PROVE TrackedTypes'
  <2>1. podStream' \in [Pod -> Seq({"running", "finished", "deleted"})]
    BY <1>1 DEF PodBootstrap
  <2>2. /\ pc' \in [Thread -> Step]
        /\ todo' \in [Thread -> SUBSET (Pod \cup Node)]
        /\ listed' \in [Pod -> PodState]
    BY <1>1 DEF PodBootstrap, WatchesInv, TrackedTypes, Goto, Step, Thread
  <2> QED BY <1>1, <2>1, <2>2 DEF PodBootstrap, WatchesInv, TrackedTypes, maps, completions,
                                  history
<1>2. ASSUME PublishCache PROVE TrackedTypes'
  BY <1>2 DEF PublishCache, Goto
<1>3. ASSUME CheckNodesUp PROVE TrackedTypes'
  BY <1>3 DEF CheckNodesUp, Goto
<1>4. ASSUME Record PROVE TrackedTypes'
  <2>1. cur["pod"] \in Pod
    BY <1>4 DEF WatchesInv, ThreadInv, Record, Handling, Thread
  <2>2. recorded' \in [Pod -> 0..2]
    <3>1. recorded \in [Pod -> 0..2] BY <1>4 DEF WatchesInv, TrackedTypes
    <3>2. CASE recorded' = recorded BY <1>4, <3>1, <3>2
    <3>3. CASE recorded[cur["pod"]] < 2 /\ recorded' = [recorded EXCEPT ![cur["pod"]] = @ + 1]
      <4>1. recorded[cur["pod"]] + 1 \in 0..2
        BY ONLY <3>1, <3>3, <2>1
      <4> QED BY <1>4, <3>1, <3>3, <4>1
    <3> QED BY <1>4, <3>2, <3>3 DEF Record
  <2>3. pc' \in [Thread -> Step]
    BY <1>4 DEF Record, WatchesInv, TrackedTypes, Goto, Step
  <2> QED BY <1>4, <2>2, <2>3 DEF Record, WatchesInv, TrackedTypes, cluster, maps, locals,
                                  completions, history
<1>5. ASSUME RemoveRunning PROVE TrackedTypes'
  BY <1>5 DEF RemoveRunning, Goto
<1>6. ASSUME RemoveCtx PROVE TrackedTypes'
  BY <1>6 DEF RemoveCtx, Return, Goto
<1>7. ASSUME NEW p \in Pod, PodItem(p) PROVE TrackedTypes'
  <2>1. listed[p] \in {"running", "finished"}
    BY <1>7 DEF WatchesInv, FreshInv, PodItem, InItems, Listed
  <2>2. /\ pc' \in [Thread -> Step]
        /\ cur' \in [Thread -> Pod \cup {NoPod}]
        /\ back' \in [Thread -> Step]
    BY <1>7, <2>1 DEF WatchesInv, TrackedTypes, PodItem, HandlePod, Call, Goto, Step, Thread
  <2> QED BY <1>7, <2>1, <2>2 DEF PodItem, WatchesInv, TrackedTypes, maps, cluster,
                                  completions, history, Thread
<1>8. ASSUME NEW p \in Pod, PodEvent(p) PROVE TrackedTypes'
  <2>1. /\ Head(podStream[p]) \in {"running", "finished", "deleted"}
        /\ podStream' \in [Pod -> Seq({"running", "finished", "deleted"})]
    BY <1>8 DEF WatchesInv, TrackedTypes, PodEvent
  <2>2. /\ pc' \in [Thread -> Step]
        /\ cur' \in [Thread -> Pod \cup {NoPod}]
        /\ back' \in [Thread -> Step]
    BY <1>8, <2>1 DEF WatchesInv, TrackedTypes, PodEvent, HandlePod, Call, Goto, Step, Thread
  <2> QED BY <1>8, <2>1, <2>2 DEF PodEvent, WatchesInv, TrackedTypes, maps, completions, history
<1>9. ASSUME NodeBootstrap PROVE TrackedTypes'
  BY <1>9 DEF NodeBootstrap, Goto
<1>10. ASSUME BootstrapSync PROVE TrackedTypes'
  BY <1>10 DEF BootstrapSync, Goto
<1>11. ASSUME NodesUp PROVE TrackedTypes'
  BY <1>11 DEF NodesUp, Goto
<1>12. ASSUME EventSync PROVE TrackedTypes'
  BY <1>12 DEF EventSync, Goto
<1>13. ASSUME NEW n \in Node, NodeItem(n) PROVE TrackedTypes'
  BY <1>13 DEF NodeItem, Upsert
<1>14. ASSUME NEW n \in Node, NodeEvent(n) PROVE TrackedTypes'
  <2> HIDE DEF NodeState, Gone, Step, ThreadInv, PodState
  <2>1. Head(nodeStream[n]) \in NodeState /\ nodeStream' \in [Node -> Seq(NodeState)]
    BY <1>14 DEF WatchesInv, TrackedTypes, NodeEvent
  <2>2. tracker' \in [Node -> NodeState]
    BY <1>14, <2>1 DEF WatchesInv, TrackedTypes, NodeEvent, Upsert, NodeState, Gone
  <2> QED BY <1>14, <2>1, <2>2 DEF NodeEvent, Upsert, Goto, Step, Thread, WatchesInv,
                                   TrackedTypes, locals, completions, history
<1>15. ASSUME Sweep PROVE TrackedTypes'
  BY <1>15 DEF Sweep
<1>16. ASSUME Evict PROVE TrackedTypes'
  BY <1>16 DEF Evict
<1>17. ASSUME NEW t \in Thread, Place(t) PROVE TrackedTypes'
  <2>1. LaneForPod(cur[t]) \in Lane \cup {NoLane} /\ back[t] \in Step
    BY <1>17 DEF WatchesInv, TrackedTypes, ThreadInv, Place, LaneForPod, WatchesAssumption,
                 Handling, Upserting, NodeState
  <2>2. CASE Return(t)
    <3>1. /\ pc' \in [Thread -> Step]
          /\ cur' \in [Thread -> Pod \cup {NoPod}]
          /\ back' \in [Thread -> Step]
          /\ lane' \in [Thread -> Lane \cup {NoLane}]
      BY <1>17, <2>1, <2>2 DEF WatchesInv, TrackedTypes, Return, Goto, Step
    <3> QED BY <1>17, <3>1 DEF Place, WatchesInv, TrackedTypes, cluster, maps, completions,
                               history
  <2>3. CASE /\ Goto(t, "add")
             /\ lane' = [lane EXCEPT ![t] = LaneForPod(cur[t])]
             /\ UNCHANGED <<cur, back>>
    <3>1. pc' \in [Thread -> Step] /\ lane' \in [Thread -> Lane \cup {NoLane}]
      BY <1>17, <2>1, <2>3 DEF WatchesInv, TrackedTypes, Goto, Step
    <3> QED BY <1>17, <3>1, <2>3 DEF Place, WatchesInv, TrackedTypes, cluster, maps,
                                     completions, history
  <2> QED BY <1>17, <2>2, <2>3 DEF Place
<1>18. ASSUME NEW t \in Thread, AddRunning(t) PROVE TrackedTypes'
  <2>1. <<lane[t], cur[t]>> \in Lane \X Pod
    BY <1>18 DEF AddRunning, ThreadInv
  <2> QED BY <1>18, <2>1 DEF AddRunning, Goto, Step
<1>19. ASSUME NEW t \in Thread, AddCtx(t) PROVE TrackedTypes'
  BY <1>19 DEF AddCtx, Return, Goto
<1>20. ASSUME NEW t \in Thread, Rescan(t) PROVE TrackedTypes'
  <2>1. {x[2] : x \in running} \in SUBSET Pod
    OBVIOUS
  <2>2. tracked' \in [Thread -> SUBSET Pod]
    BY <1>20, <2>1 DEF Rescan
  <2> QED BY <1>20, <2>2 DEF Rescan, Goto, Step
<1>21. ASSUME NEW t \in Thread, ReadCache(t) PROVE TrackedTypes'
  BY <1>21 DEF ReadCache, Goto
<1>22. ASSUME NEW t \in Thread, RescanDone(t) PROVE TrackedTypes'
  BY <1>22 DEF RescanDone, Goto
<1>23. ASSUME NEW t \in Thread, NEW p \in Pod, RescanItem(t, p) PROVE TrackedTypes'
  BY <1>23 DEF RescanItem, Call, Goto
<1>24. ASSUME NEW t \in Thread, Expire(t) PROVE TrackedTypes'
  BY <1>24 DEF Expire, Goto
<1>25. ASSUME NEW p \in Pod, PodChanges(p) PROVE TrackedTypes'
  <2>1. pods'[p] \in {"running", "finished", "deleted"} /\ pods' \in [Pod -> PodState]
    BY <1>25 DEF WatchesInv, TrackedTypes, PodChanges, PodState
  <2>2. podStream' \in [Pod -> Seq({"running", "finished", "deleted"})]
    BY <1>25, <2>1 DEF WatchesInv, TrackedTypes, PodChanges
  <2> QED BY <1>25, <2>1, <2>2 DEF PodChanges, WatchesInv, TrackedTypes, maps, threads,
                                   locals, completions, history
<1>26. ASSUME NEW n \in Node, NodeChanges(n) PROVE TrackedTypes'
  <2> HIDE DEF NodeState, Gone, Step, ThreadInv, PodState
  <2>1. PICK s \in NodeState : /\ nodes' = [nodes EXCEPT ![n] = s]
                              /\ nodeStream' = [nodeStream EXCEPT ![n] = Append(@, s)]
    BY <1>26 DEF NodeChanges, WatchesAssumption, NodeState, Gone
  <2>2. nodes' \in [Node -> NodeState] /\ nodeStream' \in [Node -> Seq(NodeState)]
    BY <1>26, <2>1 DEF WatchesInv, TrackedTypes
  <2> QED BY <1>26, <2>2 DEF NodeChanges, WatchesInv, TrackedTypes, maps, threads, locals,
                             completions, history
<1>27. ASSUME UNCHANGED vars PROVE TrackedTypes'
  BY <1>27 DEF vars
<1> HIDE DEF WatchesInv, TrackedTypes, Thread, Handling, Upserting, Callers,
             Step, ThreadInv, PodState, NodeState, Gone, cluster, maps,
             threads, locals, completions, history
<1> QED BY <1>1, <1>2, <1>3, <1>4, <1>5, <1>6, <1>7, <1>8, <1>9, <1>10, <1>11,
           <1>12, <1>13, <1>14, <1>15, <1>16, <1>17, <1>18, <1>19, <1>20,
           <1>21, <1>22, <1>23, <1>24, <1>25, <1>26, <1>27
   DEF Next, PodThread, EitherThread, NodeThread, Thread

(* Streams (the order in which the api server tells the changes of a pod). *)
LEMMA StreamStep ==
  ASSUME WatchesAssumption, WatchesInv, [Next]_vars
  PROVE  StreamInv'
<1> USE DEF cluster, maps, threads, locals, completions, history
<1>1. ASSUME NEW p \in Pod, PodChanges(p) PROVE StreamInv'
  BY <1>1, PodChangesDoes DEF StreamInv
<1>2. ASSUME NEW p \in Pod, PodEvent(p) PROVE StreamInv'
  BY <1>2, PodEventDoes DEF StreamInv
<1>3. ASSUME PodBootstrap PROVE StreamInv'
  BY <1>3 DEF PodBootstrap, StreamInv, EndsAsItIs
<1>4. ASSUME UNCHANGED <<pods, podStream>> PROVE StreamInv'
  BY <1>4 DEF WatchesInv, StreamInv, EndsAsItIs
<1>5. ASSUME NodeSide PROVE UNCHANGED <<pods, podStream>>
  BY <1>5, NodeSideDoes DEF NodeSideLeaves, PodSide
<1>6. ASSUME NEW t \in Thread, EitherThread(t) \/ Expire(t) PROVE UNCHANGED <<pods, podStream>>
  BY <1>6 DEF EitherThread, Place, AddRunning, AddCtx, Rescan, ReadCache, RescanDone,
              RescanItem,
              Expire
<1>7. CASE UNCHANGED vars
  BY <1>7, <1>4 DEF vars
<1>8. CASE Sweep \/ Evict \/ \E n \in Node : NodeChanges(n)
  BY <1>8, <1>4 DEF Sweep, Evict, NodeChanges
<1>9. CASE PodThread
  BY <1>9, <1>2, <1>3, <1>4 DEF PodThread, PublishCache, CheckNodesUp, Record, RemoveRunning,
                                RemoveCtx, PodItem
<1> QED BY <1>1, <1>4, <1>5, <1>6, <1>7, <1>8, <1>9 DEF Next, NodeSide

(* What the pod thread takes for running has its end ahead of it.          *)
LEMMA FreshStep ==
  ASSUME WatchesAssumption, WatchesInv, [Next]_vars
  PROVE  FreshInv'
<1> USE DEF WatchesInv, TrackedTypes, Thread, Handling, Upserting, Callers,
            InItems, InScan, InScanItems, FreshInv, ThreadInv, PodState,
            Listed, cluster, maps, threads, locals, completions, history
<1>1. ASSUME PodBootstrap PROVE FreshInv'
  BY <1>1 DEF PodBootstrap, Goto
<1>2. ASSUME PublishCache PROVE FreshInv'
  BY <1>2 DEF PublishCache, Goto
<1>3. ASSUME CheckNodesUp PROVE FreshInv'
  BY <1>3 DEF CheckNodesUp, Goto
<1>4. ASSUME Record PROVE FreshInv'
  BY <1>4 DEF Record, Goto
<1>5. ASSUME RemoveRunning PROVE FreshInv'
  BY <1>5 DEF RemoveRunning, Goto
<1>6. ASSUME RemoveCtx PROVE FreshInv'
  BY <1>6 DEF RemoveCtx, Return, Goto
<1>7. ASSUME NEW p \in Pod, PodItem(p) PROVE FreshInv'
  BY <1>7 DEF PodItem, HandlePod, Call, Goto
<1>8. ASSUME NEW p \in Pod, PodEvent(p) PROVE FreshInv'
  <2> HIDE DEF TrackedTypes, ThreadInv, PodState, Listed, cluster, maps,
               threads, locals, completions, history
  <2> QED BY <1>8, PodEventDoes
<1>9. ASSUME Place("pod") PROVE FreshInv'
  BY <1>9 DEF Place, Return, Goto
<1>10. ASSUME AddRunning("pod") PROVE FreshInv'
  BY <1>10 DEF AddRunning, Goto
<1>11. ASSUME AddCtx("pod") PROVE FreshInv'
  BY <1>11 DEF AddCtx, Return, Goto
<1>12. ASSUME Rescan("pod") PROVE FreshInv'
  BY <1>12 DEF Rescan, Goto
<1>13. ASSUME ReadCache("pod") PROVE FreshInv'
  BY <1>13 DEF ReadCache, Goto
<1>14. ASSUME RescanDone("pod") PROVE FreshInv'
  BY <1>14 DEF RescanDone, Goto
<1>15. ASSUME NEW p \in Pod, RescanItem("pod", p) PROVE FreshInv'
  BY <1>15 DEF RescanItem, Call, Goto
<1>16. ASSUME Expire("pod") PROVE FreshInv'
  BY <1>16 DEF Expire, Goto
<1>17. ASSUME Sweep PROVE FreshInv'
  BY <1>17 DEF Sweep
<1>18. ASSUME Evict PROVE FreshInv'
  BY <1>18 DEF Evict
<1>19. ASSUME NEW p \in Pod, PodChanges(p) PROVE FreshInv'
  <2> HIDE DEF TrackedTypes, ThreadInv, PodState, Listed, cluster, maps,
               threads, locals, completions, history
  <2> QED BY <1>19, PodChangesDoes
<1>20. ASSUME NEW n \in Node, NodeChanges(n) PROVE FreshInv'
  BY <1>20 DEF NodeChanges
<1>21. ASSUME UNCHANGED vars PROVE FreshInv'
  BY <1>21 DEF vars
<1>22. ASSUME NodeSide PROVE FreshInv'
  <2> HIDE DEF TrackedTypes, Thread, Handling, Upserting, Callers, ThreadInv,
               PodState, Listed, cluster, maps, threads, locals, completions,
               history
  <2> QED BY <1>22, NodeSideDoes DEF NodeSideLeaves, PodSide
<1> HIDE DEF WatchesInv, TrackedTypes, Thread, Handling, Upserting, Callers,
             InItems, InScan, InScanItems, FreshInv, ThreadInv, PodState,
             Listed, cluster, maps, threads, locals, completions, history
<1> QED BY <1>1, <1>2, <1>3, <1>4, <1>5, <1>6, <1>7, <1>8, <1>9, <1>10, <1>11,
           <1>12, <1>13, <1>14, <1>15, <1>16, <1>17, <1>18, <1>19, <1>20,
           <1>21, <1>22
   DEF Next, PodThread, EitherThread, NodeSide, Thread

(* What says that a pod ended is right, and nothing after it says that it  *)
(* runs.                                                                   *)
LEMMA OrderStep ==
  ASSUME WatchesAssumption, WatchesInv, [Next]_vars
  PROVE  OrderInv'
<1> USE DEF WatchesInv, TrackedTypes, Thread, Handling, Upserting, Callers,
            OrderInv, InOrder, InItems, FreshInv, ThreadInv, Ended, NotToRun,
            PodState, Listed, cluster, maps, threads, locals, completions,
            history
<1>1. ASSUME PodBootstrap PROVE OrderInv'
  BY <1>1 DEF PodBootstrap, Goto
<1>2. ASSUME PublishCache PROVE OrderInv'
  BY <1>2 DEF PublishCache, Goto
<1>3. ASSUME CheckNodesUp PROVE OrderInv'
  BY <1>3 DEF CheckNodesUp, Goto
<1>4. ASSUME Record PROVE OrderInv'
  BY <1>4 DEF Record, Goto
<1>5. ASSUME RemoveRunning PROVE OrderInv'
  BY <1>5 DEF RemoveRunning, Goto
<1>6. ASSUME RemoveCtx PROVE OrderInv'
  BY <1>6 DEF RemoveCtx, Return, Goto
<1>7. ASSUME NEW p \in Pod, PodItem(p) PROVE OrderInv'
  BY <1>7 DEF PodItem, HandlePod, Call, Goto
<1>8. ASSUME NEW p \in Pod, PodEvent(p) PROVE OrderInv'
  <2> HIDE DEF TrackedTypes, InOrder, FreshInv, ThreadInv, NotToRun, PodState,
               Listed, cluster, maps, threads, locals, completions, history
  <2> QED BY <1>8, PodEventDoes
<1>9. ASSUME Place("pod") PROVE OrderInv'
  BY <1>9 DEF Place, Return, Goto
<1>10. ASSUME AddRunning("pod") PROVE OrderInv'
  BY <1>10 DEF AddRunning, Goto
<1>11. ASSUME AddCtx("pod") PROVE OrderInv'
  BY <1>11 DEF AddCtx, Return, Goto
<1>12. ASSUME Rescan("pod") PROVE OrderInv'
  BY <1>12 DEF Rescan, Goto
<1>13. ASSUME ReadCache("pod") PROVE OrderInv'
  BY <1>13 DEF ReadCache, Goto
<1>14. ASSUME RescanDone("pod") PROVE OrderInv'
  BY <1>14 DEF RescanDone, Goto
<1>15. ASSUME NEW p \in Pod, RescanItem("pod", p) PROVE OrderInv'
  BY <1>15 DEF RescanItem, Call, Goto
<1>16. ASSUME Expire("pod") PROVE OrderInv'
  BY <1>16 DEF Expire, Goto
<1>17. ASSUME Sweep PROVE OrderInv'
  BY <1>17 DEF Sweep
<1>18. ASSUME Evict PROVE OrderInv'
  BY <1>18 DEF Evict
<1>19. ASSUME NEW p \in Pod, PodChanges(p) PROVE OrderInv'
  <2> HIDE DEF TrackedTypes, InOrder, FreshInv, ThreadInv, NotToRun, PodState,
               Listed, cluster, maps, threads, locals, completions, history
  <2> QED BY <1>19, PodChangesDoes
<1>20. ASSUME NEW n \in Node, NodeChanges(n) PROVE OrderInv'
  BY <1>20 DEF NodeChanges
<1>21. ASSUME UNCHANGED vars PROVE OrderInv'
  BY <1>21 DEF vars
<1>22. ASSUME NodeSide PROVE OrderInv'
  <2> HIDE DEF TrackedTypes, Thread, Handling, Upserting, Callers, FreshInv,
               ThreadInv, PodState, Listed, cluster, maps, threads, locals,
               completions, history
  <2> QED BY <1>22, NodeSideDoes DEF NodeSideLeaves, PodSide
<1> HIDE DEF WatchesInv, TrackedTypes, Thread, Handling, Upserting, Callers,
             OrderInv, InOrder, InItems, FreshInv, ThreadInv, Ended, NotToRun,
             PodState, Listed, cluster, maps, threads, locals, completions,
             history
<1> QED BY <1>1, <1>2, <1>3, <1>4, <1>5, <1>6, <1>7, <1>8, <1>9, <1>10, <1>11,
           <1>12, <1>13, <1>14, <1>15, <1>16, <1>17, <1>18, <1>19, <1>20,
           <1>21, <1>22
   DEF Next, PodThread, EitherThread, NodeSide, Thread

(* A counted pod that does not run will be removed, or was cached, or its  *)
(* end was swallowed.                                                      *)
LEMMA GhostStep ==
  ASSUME WatchesAssumption, WatchesInv, [Next]_vars
  PROVE  GhostInv'
<1> USE DEF WatchesInv, TrackedTypes, Thread, Handling, Upserting, Callers,
            GhostInv, FreshInv, ThreadInv, InItems, Counted, EndAhead,
            PodState, Listed, cluster, maps, threads, locals, completions,
            history
<1>1. ASSUME PodBootstrap PROVE GhostInv'
  <2> SUFFICES ASSUME NEW q \in Pod, Counted(q), pods[q] # "running",
                      q \notin wasCached \cup missed'
               PROVE  EndAhead(q)'
    BY <1>1 DEF GhostInv, PodBootstrap, Counted
  <2>1. q \notin missed /\ pc["pod"] = "list"
    BY <1>1 DEF PodBootstrap
  <2>2. EndAhead(q)
    BY <2>1 DEF GhostInv
  <2>3. pods[q] = "finished"
    BY <1>1, <2>2, NotAbsent DEF EndAhead, PodBootstrap, PodState
  <2> QED BY <1>1, <2>3 DEF PodBootstrap, EndAhead, InItems, Goto, Listed
<1>2. ASSUME PublishCache PROVE GhostInv'
  BY <1>2 DEF PublishCache, Goto
<1>3. ASSUME CheckNodesUp PROVE GhostInv'
  BY <1>3 DEF CheckNodesUp, Goto
<1>4. ASSUME Record PROVE GhostInv'
  BY <1>4 DEF Record, Goto
<1>5. ASSUME RemoveRunning PROVE GhostInv'
  BY <1>5 DEF RemoveRunning, Goto
<1>6. ASSUME RemoveCtx PROVE GhostInv'
  BY <1>6 DEF RemoveCtx, Return, Goto
<1>7. ASSUME NEW p \in Pod, PodItem(p) PROVE GhostInv'
  BY <1>7 DEF PodItem, HandlePod, Call, Goto
<1>8. ASSUME NEW p \in Pod, PodEvent(p) PROVE GhostInv'
  <2> HIDE DEF TrackedTypes, FreshInv, ThreadInv, PodState, Listed, cluster,
               maps, threads, locals, completions, history
  <2> QED BY <1>8, PodEventDoes
<1>9. ASSUME Place("pod") PROVE GhostInv'
  BY <1>9 DEF Place, Return, Goto
<1>10. ASSUME AddRunning("pod") PROVE GhostInv'
  BY <1>10 DEF AddRunning, Goto
<1>11. ASSUME AddCtx("pod") PROVE GhostInv'
  BY <1>11 DEF AddCtx, Return, Goto
<1>12. ASSUME Rescan("pod") PROVE GhostInv'
  BY <1>12 DEF Rescan, Goto
<1>13. ASSUME ReadCache("pod") PROVE GhostInv'
  BY <1>13 DEF ReadCache, Goto
<1>14. ASSUME RescanDone("pod") PROVE GhostInv'
  BY <1>14 DEF RescanDone, Goto
<1>15. ASSUME NEW p \in Pod, RescanItem("pod", p) PROVE GhostInv'
  BY <1>15 DEF RescanItem, Call, Goto
<1>16. ASSUME Expire("pod") PROVE GhostInv'
  BY <1>16 DEF Expire, Goto
<1>17. ASSUME Sweep PROVE GhostInv'
  BY <1>17 DEF Sweep
<1>18. ASSUME Evict PROVE GhostInv'
  BY <1>18 DEF Evict
<1>19. ASSUME NEW p \in Pod, PodChanges(p) PROVE GhostInv'
  <2> HIDE DEF WatchesInv, TrackedTypes, FreshInv, ThreadInv, PodState, Listed,
               cluster, maps, threads, locals, completions, history
  <2>1. /\ UNCHANGED <<pc, cur, back, todo, listed, running, wasCached, missed>>
        /\ \A q \in Pod \ {p} : pods'[q] = pods[q] /\ podStream'[q] = podStream[q]
        /\ podStream'[p] # <<>>
    BY <1>19, PodChangesDoes
  <2>2. GhostInv
    BY DEF WatchesInv
  <2> SUFFICES ASSUME NEW q \in Pod, Counted(q)', pods'[q] # "running"
               PROVE  \/ q \in wasCached' \cup missed'
                      \/ EndAhead(q)'
                      \/ pc'["pod"] \in {"record", "remove"} /\ cur'["pod"] = q
    OBVIOUS
  <2>3. CASE q = p
    BY <2>1, <2>3
  <2>4. CASE q # p
    BY <2>1, <2>2, <2>4
  <2> QED BY <2>3, <2>4
<1>20. ASSUME NEW n \in Node, NodeChanges(n) PROVE GhostInv'
  BY <1>20 DEF NodeChanges
<1>21. ASSUME UNCHANGED vars PROVE GhostInv'
  BY <1>21 DEF vars
<1>22. ASSUME NodeSide PROVE GhostInv'
  <2> HIDE DEF TrackedTypes, Thread, Handling, Upserting, Callers, FreshInv,
               ThreadInv, PodState, Listed, cluster, maps, threads, locals,
               completions, history
  <2> QED BY <1>22, NodeSideDoes DEF NodeSideLeaves, PodSide
<1> HIDE DEF WatchesInv, TrackedTypes, Thread, Handling, Upserting, Callers,
             GhostInv, FreshInv, ThreadInv, InItems, Counted, EndAhead,
             PodState, Listed, cluster, maps, threads, locals, completions,
             history
<1> QED BY <1>1, <1>2, <1>3, <1>4, <1>5, <1>6, <1>7, <1>8, <1>9, <1>10, <1>11,
           <1>12, <1>13, <1>14, <1>15, <1>16, <1>17, <1>18, <1>19, <1>20,
           <1>21, <1>22
   DEF Next, PodThread, EitherThread, NodeSide, Thread

(* The context of a pod counted by the pod thread stays until its end is   *)
(* recorded.                                                               *)
LEMMA ContextStep ==
  ASSUME WatchesAssumption, WatchesInv, [Next]_vars
  PROVE  ContextInv'
<1> USE DEF WatchesInv, TrackedTypes, Thread, Handling, Upserting, Callers,
            ContextInv, FreshInv, ThreadInv, InItems, Counted, EndAhead,
            PodState, Listed, cluster, maps, threads, locals, completions,
            history
<1>1. ASSUME PodBootstrap PROVE ContextInv'
  BY <1>1 DEF PodBootstrap, Goto
<1>2. ASSUME PublishCache PROVE ContextInv'
  BY <1>2 DEF PublishCache, Goto
<1>3. ASSUME CheckNodesUp PROVE ContextInv'
  BY <1>3 DEF CheckNodesUp, Goto
<1>4. ASSUME Record PROVE ContextInv'
  <2> HIDE DEF TrackedTypes, FreshInv, ThreadInv, PodState, Listed, cluster,
               maps, threads, locals, completions, history
  <2> SUFFICES ASSUME NEW q \in Pod, q \in counted', pods'[q] # "deleted", recorded'[q] = 0
               PROVE  /\ Counted(q)'
                      /\ \/ q \in ctx' /\ q \notin expired'
                         \/ pc'["pod"] = "addCtx" /\ cur'["pod"] = q
                      /\ ~(pc'["pod"] \in {"remove", "removeCtx"} /\ cur'["pod"] = q)
                      /\ pods'[q] = "finished" =>
                           EndAhead(q)' \/ (pc'["pod"] = "record" /\ cur'["pod"] = q)
    OBVIOUS
  <2>1. q \in counted /\ pods[q] # "deleted" /\ recorded[q] = 0
    <3> HIDE DEF WatchesInv, ContextInv, Counted, EndAhead
    <3>1. recorded[q] \in 0..2 /\ recorded[q] # 0 => recorded'[q] # 0
      BY <1>4, RecordDoes
    <3> QED BY <1>4, RecordDoes, <3>1
  <2>2. q \in ctx /\ q \notin expired /\ Counted(q)
    BY <1>4, RecordDoes, <2>1
  <2>3. cur["pod"] # q
    <3> HIDE DEF WatchesInv, ContextInv, Counted, EndAhead
    <3> QED BY <1>4, RecordDoes, <2>1, <2>2
  <2>4. pods[q] = "finished" => EndAhead(q)
    BY <1>4, RecordDoes, <2>1, <2>3
  <2> QED BY <1>4, RecordDoes, <2>2, <2>3, <2>4
<1>5. ASSUME RemoveRunning PROVE ContextInv'
  BY <1>5 DEF RemoveRunning, Goto
<1>6. ASSUME RemoveCtx PROVE ContextInv'
  BY <1>6 DEF RemoveCtx, Return, Goto
<1>7. ASSUME NEW p \in Pod, PodItem(p) PROVE ContextInv'
  BY <1>7 DEF PodItem, HandlePod, Call, Goto
<1>8. ASSUME NEW p \in Pod, PodEvent(p) PROVE ContextInv'
  <2> HIDE DEF WatchesInv, TrackedTypes, FreshInv, ThreadInv, PodState, Listed,
               cluster, maps, threads, locals, completions, history
  <2>1. /\ pc["pod"] = "watch" /\ cur'["pod"] = p
        /\ UNCHANGED <<pods, running, ctx, expired, counted, recorded>>
        /\ \A q \in Pod \ {p} : podStream'[q] = podStream[q]
        /\ \/ pc'["pod"] = "place" /\ (podStream'[p] = <<>> => pods[p] = "running")
           \/ pc'["pod"] = "record"
           \/ pc'["pod"] = "remove" /\ pods[p] = "deleted"
    BY <1>8, PodEventDoes
  <2>2. ContextInv
    BY DEF WatchesInv
  <2> SUFFICES ASSUME NEW q \in Pod, q \in counted, pods[q] # "deleted", recorded[q] = 0
               PROVE  /\ Counted(q)'
                      /\ q \in ctx /\ q \notin expired
                      /\ ~(pc'["pod"] \in {"remove", "removeCtx"} /\ cur'["pod"] = q)
                      /\ pods[q] = "finished" =>
                           EndAhead(q)' \/ (pc'["pod"] = "record" /\ cur'["pod"] = q)
    BY <2>1
  <2>3. /\ Counted(q) /\ q \in ctx /\ q \notin expired
        /\ pods[q] = "finished" => podStream[q] # <<>>
    BY <2>1, <2>2
  <2>4. Counted(q)'
    BY <2>1, <2>3
  <2>5. ~(pc'["pod"] \in {"remove", "removeCtx"} /\ cur'["pod"] = q)
    BY <2>1
  <2>6. pods[q] = "finished" =>
          EndAhead(q)' \/ (pc'["pod"] = "record" /\ cur'["pod"] = q)
    BY <2>1, <2>3
  <2> QED BY <2>3, <2>4, <2>5, <2>6
<1>9. ASSUME Place("pod") PROVE ContextInv'
  BY <1>9 DEF Place, Return, Goto
<1>10. ASSUME AddRunning("pod") PROVE ContextInv'
  BY <1>10 DEF AddRunning, Goto
<1>11. ASSUME AddCtx("pod") PROVE ContextInv'
  BY <1>11 DEF AddCtx, Return, Goto
<1>12. ASSUME Rescan("pod") PROVE ContextInv'
  BY <1>12 DEF Rescan, Goto
<1>13. ASSUME ReadCache("pod") PROVE ContextInv'
  BY <1>13 DEF ReadCache, Goto
<1>14. ASSUME RescanDone("pod") PROVE ContextInv'
  BY <1>14 DEF RescanDone, Goto
<1>15. ASSUME NEW p \in Pod, RescanItem("pod", p) PROVE ContextInv'
  BY <1>15 DEF RescanItem, Call, Goto
<1>16. ASSUME Expire("pod") PROVE ContextInv'
  BY <1>16 DEF Expire, Goto
<1>17. ASSUME Sweep PROVE ContextInv'
  BY <1>17 DEF Sweep
<1>18. ASSUME Evict PROVE ContextInv'
  BY <1>18 DEF Evict
<1>19. ASSUME NEW p \in Pod, PodChanges(p) PROVE ContextInv'
  <2> HIDE DEF TrackedTypes, FreshInv, ThreadInv, PodState, Listed, cluster, maps, threads, locals,
               completions, history
  <2> SUFFICES ASSUME NEW q \in Pod, q \in counted', pods'[q] # "deleted", recorded'[q] = 0
               PROVE  /\ Counted(q)'
                      /\ \/ q \in ctx' /\ q \notin expired'
                         \/ pc'["pod"] = "addCtx" /\ cur'["pod"] = q
                      /\ ~(pc'["pod"] \in {"remove", "removeCtx"} /\ cur'["pod"] = q)
                      /\ pods'[q] = "finished" =>
                           EndAhead(q)' \/ (pc'["pod"] = "record" /\ cur'["pod"] = q)
    BY <1>19 DEF ContextInv
  <2>1. pods[q] # "deleted"
    BY <1>19, PodChangesDoes
  <2>2. CASE q = p
    BY <1>19, <2>1, <2>2, PodChangesDoes DEF ContextInv, Counted, EndAhead
  <2>3. CASE q # p
    BY <1>19, <2>1, <2>3, PodChangesDoes DEF ContextInv, InItems, Counted, EndAhead
  <2> QED BY <1>19, <2>2, <2>3
<1>20. ASSUME NEW n \in Node, NodeChanges(n) PROVE ContextInv'
  BY <1>20 DEF NodeChanges
<1>21. ASSUME UNCHANGED vars PROVE ContextInv'
  BY <1>21 DEF vars
<1>22. ASSUME NodeSide PROVE ContextInv'
  <2> HIDE DEF TrackedTypes, Handling, FreshInv, ThreadInv, PodState, Listed, cluster, maps,
               threads, locals, completions, history
  <2> SUFFICES ASSUME NEW q \in Pod, q \in counted', pods'[q] # "deleted", recorded'[q] = 0
               PROVE  /\ Counted(q)'
                      /\ \/ q \in ctx' /\ q \notin expired'
                         \/ pc'["pod"] = "addCtx" /\ cur'["pod"] = q
                      /\ ~(pc'["pod"] \in {"remove", "removeCtx"} /\ cur'["pod"] = q)
                      /\ pods'[q] = "finished" =>
                           EndAhead(q)' \/ (pc'["pod"] = "record" /\ cur'["pod"] = q)
    OBVIOUS
  <2>1. NodeSideLeaves
    BY <1>22, NodeSideDoes
  <2>2. /\ UNCHANGED <<pods, pc["pod"], cur["pod"]>>
        /\ Counted(q) => Counted(q)'
        /\ EndAhead(q) => EndAhead(q)'
        /\ q \in ctx /\ q \notin expired => q \in ctx' /\ q \notin expired'
    BY <2>1 DEF NodeSideLeaves, PodSide
  <2>3. q \in counted /\ pods[q] # "deleted" /\ recorded[q] = 0
    BY <2>1 DEF NodeSideLeaves, PodSide
  <2> HIDE DEF Counted, EndAhead, InItems
  <2> QED BY <2>2, <2>3
<1> HIDE DEF WatchesInv, TrackedTypes, Thread, Handling, Upserting, Callers,
             ContextInv, FreshInv, ThreadInv, InItems, Counted, EndAhead,
             PodState, Listed, cluster, maps, threads, locals, completions,
             history
<1> QED BY <1>1, <1>2, <1>3, <1>4, <1>5, <1>6, <1>7, <1>8, <1>9, <1>10, <1>11,
           <1>12, <1>13, <1>14, <1>15, <1>16, <1>17, <1>18, <1>19, <1>20,
           <1>21, <1>22
   DEF Next, PodThread, EitherThread, NodeSide, Thread

(* A completion is recorded once.                                          *)
LEMMA RecordedStep ==
  ASSUME WatchesAssumption, WatchesInv, [Next]_vars
  PROVE  RecordedInv'
<1> USE DEF WatchesInv, TrackedTypes, Thread, Handling, Upserting, Callers,
            RecordedInv, OrderInv, FreshInv, ThreadInv, InItems, InScan,
            InScanItems, Ended, NotToRun, PodState, Listed, cluster, maps,
            threads, locals, completions, history
<1>1. ASSUME PodBootstrap PROVE RecordedInv'
  BY <1>1 DEF PodBootstrap, Goto
<1>2. ASSUME PublishCache PROVE RecordedInv'
  BY <1>2 DEF PublishCache, Goto
<1>3. ASSUME CheckNodesUp PROVE RecordedInv'
  BY <1>3 DEF CheckNodesUp, Goto
<1>4. ASSUME Record PROVE RecordedInv'
  <2> HIDE DEF TrackedTypes, FreshInv, ThreadInv, InScan, InScanItems,
               PodState, Listed, cluster, maps, threads, locals, completions,
               history
  <2> QED BY <1>4, RecordDoes
<1>5. ASSUME RemoveRunning PROVE RecordedInv'
  BY <1>5 DEF RemoveRunning, Goto
<1>6. ASSUME RemoveCtx PROVE RecordedInv'
  BY <1>6 DEF RemoveCtx, Return, Goto
<1>7. ASSUME NEW p \in Pod, PodItem(p) PROVE RecordedInv'
  BY <1>7 DEF PodItem, HandlePod, Call, Goto
<1>8. ASSUME NEW p \in Pod, PodEvent(p) PROVE RecordedInv'
  <2> HIDE DEF TrackedTypes, OrderInv, FreshInv, ThreadInv, InScan,
               InScanItems, NotToRun, PodState, Listed, cluster, maps, threads,
               locals, completions, history
  <2> QED BY <1>8, PodEventDoes
<1>9. ASSUME Place("pod") PROVE RecordedInv'
  BY <1>9 DEF Place, Return, Goto
<1>10. ASSUME AddRunning("pod") PROVE RecordedInv'
  BY <1>10 DEF AddRunning, Goto
<1>11. ASSUME AddCtx("pod") PROVE RecordedInv'
  BY <1>11 DEF AddCtx, Return, Goto
<1>12. ASSUME Rescan("pod") PROVE RecordedInv'
  BY <1>12 DEF Rescan, Goto
<1>13. ASSUME ReadCache("pod") PROVE RecordedInv'
  BY <1>13 DEF ReadCache, Goto
<1>14. ASSUME RescanDone("pod") PROVE RecordedInv'
  BY <1>14 DEF RescanDone, Goto
<1>15. ASSUME NEW p \in Pod, RescanItem("pod", p) PROVE RecordedInv'
  BY <1>15 DEF RescanItem, Call, Goto
<1>16. ASSUME Expire("pod") PROVE RecordedInv'
  BY <1>16 DEF Expire, Goto
<1>17. ASSUME Sweep PROVE RecordedInv'
  BY <1>17 DEF Sweep
<1>18. ASSUME Evict PROVE RecordedInv'
  BY <1>18 DEF Evict
<1>19. ASSUME NEW p \in Pod, PodChanges(p) PROVE RecordedInv'
  <2> HIDE DEF TrackedTypes, OrderInv, FreshInv, ThreadInv, InScan,
               InScanItems, NotToRun, PodState, Listed, cluster, maps, threads,
               locals, completions, history
  <2> QED BY <1>19, PodChangesDoes
<1>20. ASSUME NEW n \in Node, NodeChanges(n) PROVE RecordedInv'
  BY <1>20 DEF NodeChanges
<1>21. ASSUME UNCHANGED vars PROVE RecordedInv'
  BY <1>21 DEF vars
<1>22. ASSUME NodeSide PROVE RecordedInv'
  <2> HIDE DEF TrackedTypes, Thread, Handling, Upserting, Callers, OrderInv,
               FreshInv, ThreadInv, InScan, InScanItems, PodState, Listed,
               cluster, maps, threads, locals, completions, history
  <2> QED BY <1>22, NodeSideDoes DEF NodeSideLeaves, PodSide
<1> HIDE DEF WatchesInv, TrackedTypes, Thread, Handling, Upserting, Callers,
             RecordedInv, OrderInv, FreshInv, ThreadInv, InItems, InScan,
             InScanItems, Ended, NotToRun, PodState, Listed, cluster, maps,
             threads, locals, completions, history
<1> QED BY <1>1, <1>2, <1>3, <1>4, <1>5, <1>6, <1>7, <1>8, <1>9, <1>10, <1>11,
           <1>12, <1>13, <1>14, <1>15, <1>16, <1>17, <1>18, <1>19, <1>20,
           <1>21, <1>22
   DEF Next, PodThread, EitherThread, NodeSide, Thread

(* A running pod with a label is counted, or will be.                      *)
LEMMA LabelStep ==
  ASSUME WatchesAssumption, WatchesInv, [Next]_vars
  PROVE  LabelInv'
<1> USE DEF WatchesInv, TrackedTypes, Thread, Handling, Upserting, Callers,
            LabelInv, OrderInv, FreshInv, ThreadInv, InItems, Ended, Counted,
            LaneForPod, PodState, Listed, cluster, maps, threads, locals,
            completions, history
<1>1. ASSUME PodBootstrap PROVE LabelInv'
  BY <1>1 DEF PodBootstrap, Goto
<1>2. ASSUME PublishCache PROVE LabelInv'
  BY <1>2 DEF PublishCache, Goto
<1>3. ASSUME CheckNodesUp PROVE LabelInv'
  BY <1>3 DEF CheckNodesUp, Goto
<1>4. ASSUME Record PROVE LabelInv'
  BY <1>4 DEF Record, Goto
<1>5. ASSUME RemoveRunning PROVE LabelInv'
  BY <1>5 DEF RemoveRunning, Goto
<1>6. ASSUME RemoveCtx PROVE LabelInv'
  BY <1>6 DEF RemoveCtx, Return, Goto
<1>7. ASSUME NEW p \in Pod, PodItem(p) PROVE LabelInv'
  BY <1>7 DEF PodItem, HandlePod, Call, Goto
<1>8. ASSUME NEW p \in Pod, PodEvent(p) PROVE LabelInv'
  <2> HIDE DEF TrackedTypes, OrderInv, FreshInv, ThreadInv, LaneForPod,
               PodState, Listed, cluster, maps, threads, locals, completions,
               history
  <2> QED BY <1>8, PodEventDoes
<1>9. ASSUME Place("pod") PROVE LabelInv'
  <2> HIDE DEF TrackedTypes, OrderInv, FreshInv, ThreadInv, Ended, PodState,
               Listed, cluster, maps, threads, locals, completions, history
  <2> QED BY <1>9, PlaceDoes
<1>10. ASSUME AddRunning("pod") PROVE LabelInv'
  BY <1>10 DEF AddRunning, Goto
<1>11. ASSUME AddCtx("pod") PROVE LabelInv'
  BY <1>11 DEF AddCtx, Return, Goto
<1>12. ASSUME Rescan("pod") PROVE LabelInv'
  BY <1>12 DEF Rescan, Goto
<1>13. ASSUME ReadCache("pod") PROVE LabelInv'
  BY <1>13 DEF ReadCache, Goto
<1>14. ASSUME RescanDone("pod") PROVE LabelInv'
  BY <1>14 DEF RescanDone, Goto
<1>15. ASSUME NEW p \in Pod, RescanItem("pod", p) PROVE LabelInv'
  BY <1>15 DEF RescanItem, Call, Goto
<1>16. ASSUME Expire("pod") PROVE LabelInv'
  BY <1>16 DEF Expire, Goto
<1>17. ASSUME Sweep PROVE LabelInv'
  BY <1>17 DEF Sweep
<1>18. ASSUME Evict PROVE LabelInv'
  BY <1>18 DEF Evict
<1>19. ASSUME NEW p \in Pod, PodChanges(p) PROVE LabelInv'
  <2> HIDE DEF TrackedTypes, OrderInv, FreshInv, ThreadInv, LaneForPod,
               PodState, Listed, cluster, maps, threads, locals, completions,
               history
  <2> SUFFICES ASSUME NEW q \in Pod, label'[q] # NoLane, pods'[q] = "running"
               PROVE  \/ Counted(q)'
                      \/ podStream'[q] # <<>>
                      \/ pc'["pod"] = "list"
                      \/ InItems' /\ q \in todo'["pod"] /\ listed'[q] = "running"
                      \/ pc'["pod"] \in {"place", "add"} /\ cur'["pod"] = q
    OBVIOUS
  <2>1. CASE q = p
    BY <1>19, <2>1, PodChangesDoes
  <2>2. CASE q # p
    <3>1. label[q] # NoLane /\ pods[q] = "running"
      BY <1>19, <2>2, PodChangesDoes
    <3>2. UNCHANGED <<InItems, podStream[q], pc, cur, todo, listed>> /\ (Counted(q) => Counted(q)')
      BY <1>19, <2>2, PodChangesDoes
    <3> HIDE DEF InItems, Counted
    <3> QED BY <3>1, <3>2
  <2> QED BY <2>1, <2>2
<1>20. ASSUME NEW n \in Node, NodeChanges(n) PROVE LabelInv'
  BY <1>20 DEF NodeChanges
<1>21. ASSUME UNCHANGED vars PROVE LabelInv'
  BY <1>21 DEF vars
<1>22. ASSUME NodeSide PROVE LabelInv'
  <2> HIDE DEF TrackedTypes, Thread, Handling, Upserting, Callers, OrderInv,
               FreshInv, ThreadInv, Ended, LaneForPod, PodState, Listed,
               cluster, maps, threads, locals, completions, history
  <2> QED BY <1>22, NodeSideDoes DEF NodeSideLeaves, PodSide
<1> HIDE DEF WatchesInv, TrackedTypes, Thread, Handling, Upserting, Callers,
             LabelInv, OrderInv, FreshInv, ThreadInv, InItems, Ended, Counted,
             LaneForPod, PodState, Listed, cluster, maps, threads, locals,
             completions, history
<1> QED BY <1>1, <1>2, <1>3, <1>4, <1>5, <1>6, <1>7, <1>8, <1>9, <1>10, <1>11,
           <1>12, <1>13, <1>14, <1>15, <1>16, <1>17, <1>18, <1>19, <1>20,
           <1>21, <1>22
   DEF Next, PodThread, EitherThread, NodeSide, Thread

(* A thread that handles a pod has one, and a caller.                      *)
LEMMA ThreadStep ==
  ASSUME WatchesAssumption, WatchesInv, [Next]_vars
  PROVE  ThreadInv'
<1> USE DEF WatchesInv, TrackedTypes, Thread, Handling, Upserting, Callers,
            ThreadInv, NodeScanInv, cluster, maps, threads, locals,
            completions, history
<1>1. ASSUME PodBootstrap PROVE ThreadInv'
  BY <1>1 DEF PodBootstrap, Goto
<1>2. ASSUME PublishCache PROVE ThreadInv'
  BY <1>2 DEF PublishCache, Goto
<1>3. ASSUME CheckNodesUp PROVE ThreadInv'
  BY <1>3 DEF CheckNodesUp, Goto
<1>4. ASSUME Record PROVE ThreadInv'
  BY <1>4 DEF Record, Goto
<1>5. ASSUME RemoveRunning PROVE ThreadInv'
  BY <1>5 DEF RemoveRunning, Goto
<1>6. ASSUME RemoveCtx PROVE ThreadInv'
  BY <1>6 DEF RemoveCtx, Return, Goto
<1>7. ASSUME NEW p \in Pod, PodItem(p) PROVE ThreadInv'
  <2>2. /\ pc'["pod"] # "add"
        /\ cur'["pod"] = p
        /\ back'["pod"] = "items"
        /\ pc'["node"] = pc["node"]
        /\ cur'["node"] = cur["node"]
        /\ back'["node"] = back["node"]
        /\ lane' = lane
    <3>1. listed[p] \in Listed
      BY <1>7 DEF WatchesInv, FreshInv, PodItem, InItems
    <3> QED BY <1>7, <3>1 DEF PodItem, HandlePod, Call, Goto, Listed, WatchesInv,
                              TrackedTypes, Thread
  <2> QED BY <1>7, <2>2 DEF WatchesInv, ThreadInv, Thread, Callers
<1>8. ASSUME NEW p \in Pod, PodEvent(p) PROVE ThreadInv'
  BY <1>8 DEF PodEvent, HandlePod, Call, Goto
<1>9. ASSUME NodeBootstrap PROVE ThreadInv'
  BY <1>9 DEF NodeBootstrap, Goto
<1>10. ASSUME BootstrapSync PROVE ThreadInv'
  BY <1>10 DEF BootstrapSync, Goto
<1>11. ASSUME NodesUp PROVE ThreadInv'
  BY <1>11 DEF NodesUp, Goto
<1>12. ASSUME EventSync PROVE ThreadInv'
  BY <1>12 DEF EventSync, Goto
<1>13. ASSUME NEW n \in Node, NodeItem(n) PROVE ThreadInv'
  BY <1>13 DEF NodeItem, Upsert
<1>14. ASSUME NEW n \in Node, NodeEvent(n) PROVE ThreadInv'
  BY <1>14 DEF NodeEvent, Upsert, Goto
<1>15. ASSUME Sweep PROVE ThreadInv'
  BY <1>15 DEF Sweep
<1>16. ASSUME Evict PROVE ThreadInv'
  BY <1>16 DEF Evict
<1>17. ASSUME NEW t \in Thread, Place(t) PROVE ThreadInv'
  <2> HIDE DEF TrackedTypes, NodeScanInv, cluster, maps, threads, locals,
               completions, history
  <2> QED BY <1>17, PlaceDoes
<1>18. ASSUME NEW t \in Thread, AddRunning(t) PROVE ThreadInv'
  BY <1>18 DEF AddRunning, Goto
<1>19. ASSUME NEW t \in Thread, AddCtx(t) PROVE ThreadInv'
  BY <1>19 DEF AddCtx, Return, Goto
<1>20. ASSUME NEW t \in Thread, Rescan(t) PROVE ThreadInv'
  BY <1>20 DEF Rescan, Goto
<1>21. ASSUME NEW t \in Thread, ReadCache(t) PROVE ThreadInv'
  BY <1>21 DEF ReadCache, Goto
<1>22. ASSUME NEW t \in Thread, RescanDone(t) PROVE ThreadInv'
  BY <1>22 DEF RescanDone, Goto
<1>23. ASSUME NEW t \in Thread, NEW p \in Pod, RescanItem(t, p) PROVE ThreadInv'
  BY <1>23 DEF RescanItem, Call, Goto
<1>24. ASSUME NEW t \in Thread, Expire(t) PROVE ThreadInv'
  BY <1>24 DEF Expire, Goto
<1>25. ASSUME NEW p \in Pod, PodChanges(p) PROVE ThreadInv'
  BY <1>25 DEF PodChanges
<1>26. ASSUME NEW n \in Node, NodeChanges(n) PROVE ThreadInv'
  BY <1>26 DEF NodeChanges
<1>27. ASSUME UNCHANGED vars PROVE ThreadInv'
  BY <1>27 DEF vars
<1> HIDE DEF WatchesInv, TrackedTypes, Thread, Handling, Upserting, Callers,
             ThreadInv, NodeScanInv, cluster, maps, threads, locals,
             completions, history
<1> QED BY <1>1, <1>2, <1>3, <1>4, <1>5, <1>6, <1>7, <1>8, <1>9, <1>10, <1>11,
           <1>12, <1>13, <1>14, <1>15, <1>16, <1>17, <1>18, <1>19, <1>20,
           <1>21, <1>22, <1>23, <1>24, <1>25, <1>26, <1>27
   DEF Next, PodThread, EitherThread, NodeThread, Thread

(* The scans of the node thread add what was cached.                       *)
LEMMA NodeScanStep ==
  ASSUME WatchesAssumption, WatchesInv, [Next]_vars
  PROVE  NodeScanInv'
<1> USE DEF WatchesInv, TrackedTypes, Thread, Handling, Upserting, Callers,
            NodeScanInv, cluster, maps, threads, locals, completions, history
<1>1. ASSUME PodBootstrap PROVE NodeScanInv'
  BY <1>1 DEF PodBootstrap, Goto
<1>2. ASSUME PublishCache PROVE NodeScanInv'
  BY <1>2 DEF PublishCache, Goto
<1>3. ASSUME CheckNodesUp PROVE NodeScanInv'
  BY <1>3 DEF CheckNodesUp, Goto
<1>4. ASSUME Record PROVE NodeScanInv'
  BY <1>4 DEF Record, Goto
<1>5. ASSUME RemoveRunning PROVE NodeScanInv'
  BY <1>5 DEF RemoveRunning, Goto
<1>6. ASSUME RemoveCtx PROVE NodeScanInv'
  BY <1>6 DEF RemoveCtx, Return, Goto
<1>7. ASSUME NEW p \in Pod, PodItem(p) PROVE NodeScanInv'
  BY <1>7 DEF PodItem, HandlePod, Call, Goto
<1>8. ASSUME NEW p \in Pod, PodEvent(p) PROVE NodeScanInv'
  BY <1>8 DEF PodEvent, HandlePod, Call, Goto
<1>9. ASSUME NodeBootstrap PROVE NodeScanInv'
  BY <1>9 DEF NodeBootstrap, Goto
<1>10. ASSUME BootstrapSync PROVE NodeScanInv'
  BY <1>10 DEF BootstrapSync, Goto
<1>11. ASSUME NodesUp PROVE NodeScanInv'
  BY <1>11 DEF NodesUp, Goto
<1>12. ASSUME EventSync PROVE NodeScanInv'
  BY <1>12 DEF EventSync, Goto
<1>13. ASSUME NEW n \in Node, NodeItem(n) PROVE NodeScanInv'
  BY <1>13 DEF NodeItem, Upsert
<1>14. ASSUME NEW n \in Node, NodeEvent(n) PROVE NodeScanInv'
  BY <1>14 DEF NodeEvent, Upsert, Goto
<1>15. ASSUME Sweep PROVE NodeScanInv'
  BY <1>15 DEF Sweep
<1>16. ASSUME Evict PROVE NodeScanInv'
  BY <1>16 DEF Evict
<1>17. ASSUME NEW t \in Thread, Place(t) PROVE NodeScanInv'
  BY <1>17 DEF Place, Return, Goto
<1>18. ASSUME NEW t \in Thread, AddRunning(t) PROVE NodeScanInv'
  BY <1>18 DEF AddRunning, Goto
<1>19. ASSUME NEW t \in Thread, AddCtx(t) PROVE NodeScanInv'
  BY <1>19 DEF AddCtx, Return, Goto
<1>20. ASSUME NEW t \in Thread, Rescan(t) PROVE NodeScanInv'
  BY <1>20 DEF Rescan, Goto
<1>21. ASSUME NEW t \in Thread, ReadCache(t) PROVE NodeScanInv'
  BY <1>21 DEF ReadCache, Goto
<1>22. ASSUME NEW t \in Thread, RescanDone(t) PROVE NodeScanInv'
  BY <1>22 DEF RescanDone, Goto
<1>23. ASSUME NEW t \in Thread, NEW p \in Pod, RescanItem(t, p) PROVE NodeScanInv'
  BY <1>23 DEF RescanItem, Call, Goto
<1>24. ASSUME NEW t \in Thread, Expire(t) PROVE NodeScanInv'
  BY <1>24 DEF Expire, Goto
<1>25. ASSUME NEW p \in Pod, PodChanges(p) PROVE NodeScanInv'
  BY <1>25 DEF PodChanges
<1>26. ASSUME NEW n \in Node, NodeChanges(n) PROVE NodeScanInv'
  BY <1>26 DEF NodeChanges
<1>27. ASSUME UNCHANGED vars PROVE NodeScanInv'
  BY <1>27 DEF vars
<1> HIDE DEF WatchesInv, TrackedTypes, Thread, Handling, Upserting, Callers,
             NodeScanInv, cluster, maps, threads, locals, completions, history
<1> QED BY <1>1, <1>2, <1>3, <1>4, <1>5, <1>6, <1>7, <1>8, <1>9, <1>10, <1>11,
           <1>12, <1>13, <1>14, <1>15, <1>16, <1>17, <1>18, <1>19, <1>20,
           <1>21, <1>22, <1>23, <1>24, <1>25, <1>26, <1>27
   DEF Next, PodThread, EitherThread, NodeThread, Thread

(* What a scan skips is counted as long as it runs.                        *)
LEMMA TrackedStep ==
  ASSUME WatchesAssumption, WatchesInv, [Next]_vars
  PROVE  TrackedInv'
<1> USE DEF WatchesInv, TrackedTypes, Thread, Handling, Upserting, Callers,
            TrackedInv, OrderInv, ThreadInv, Counted, Ended, PodState, cluster,
            maps, threads, locals, completions, history
<1>1. ASSUME PodBootstrap PROVE TrackedInv'
  BY <1>1 DEF PodBootstrap, Goto
<1>2. ASSUME PublishCache PROVE TrackedInv'
  BY <1>2 DEF PublishCache, Goto
<1>3. ASSUME CheckNodesUp PROVE TrackedInv'
  BY <1>3 DEF CheckNodesUp, Goto
<1>4. ASSUME Record PROVE TrackedInv'
  BY <1>4 DEF Record, Goto
<1>5. ASSUME RemoveRunning PROVE TrackedInv'
  BY <1>5 DEF RemoveRunning, Goto
<1>6. ASSUME RemoveCtx PROVE TrackedInv'
  BY <1>6 DEF RemoveCtx, Return, Goto
<1>7. ASSUME NEW p \in Pod, PodItem(p) PROVE TrackedInv'
  <2>1. listed[p] \in Listed
    BY <1>7 DEF WatchesInv, FreshInv, PodItem, InItems
  <2>2. /\ pc'["pod"] # "readCache"
        /\ pc'["node"] = pc["node"]
        /\ UNCHANGED <<tracked, running, pods>>
    BY <1>7, <2>1 DEF PodItem, HandlePod, Call, Goto, Listed, WatchesInv, TrackedTypes,
                      Thread, cluster, maps
  <2> QED BY <1>7, <2>2 DEF WatchesInv, TrackedInv, Counted, Ended, Thread
<1>8. ASSUME NEW p \in Pod, PodEvent(p) PROVE TrackedInv'
  <2> HIDE DEF TrackedTypes, OrderInv, ThreadInv, PodState, cluster, maps,
               threads, locals, completions, history
  <2> QED BY <1>8, PodEventDoes
<1>9. ASSUME NodeBootstrap PROVE TrackedInv'
  BY <1>9 DEF NodeBootstrap, Goto
<1>10. ASSUME BootstrapSync PROVE TrackedInv'
  BY <1>10 DEF BootstrapSync, Goto
<1>11. ASSUME NodesUp PROVE TrackedInv'
  BY <1>11 DEF NodesUp, Goto
<1>12. ASSUME EventSync PROVE TrackedInv'
  BY <1>12 DEF EventSync, Goto
<1>13. ASSUME NEW n \in Node, NodeItem(n) PROVE TrackedInv'
  BY <1>13 DEF NodeItem, Upsert
<1>14. ASSUME NEW n \in Node, NodeEvent(n) PROVE TrackedInv'
  BY <1>14 DEF NodeEvent, Upsert, Goto
<1>15. ASSUME Sweep PROVE TrackedInv'
  BY <1>15 DEF Sweep
<1>16. ASSUME Evict PROVE TrackedInv'
  BY <1>16 DEF Evict
<1>17. ASSUME NEW t \in Thread, Place(t) PROVE TrackedInv'
  <2> HIDE DEF TrackedTypes, OrderInv, ThreadInv, PodState, cluster, maps,
               threads, locals, completions, history
  <2> QED BY <1>17, PlaceDoes
<1>18. ASSUME NEW t \in Thread, AddRunning(t) PROVE TrackedInv'
  BY <1>18 DEF AddRunning, Goto
<1>19. ASSUME NEW t \in Thread, AddCtx(t) PROVE TrackedInv'
  BY <1>19 DEF AddCtx, Return, Goto
<1>20. ASSUME NEW t \in Thread, Rescan(t) PROVE TrackedInv'
  <2>1. \A q \in Pod : q \in {x[2] : x \in running} => Counted(q)
    <3> SUFFICES ASSUME NEW x \in running PROVE Counted(x[2])
      OBVIOUS
    <3>1. x \in Lane \X Pod
      BY <1>20 DEF WatchesInv, TrackedTypes
    <3>2. x[1] \in Lane /\ x = <<x[1], x[2]>>
      BY <1>20, <3>1
    <3> QED BY <1>20, <3>2 DEF Counted
  <2>2. /\ tracked' = [tracked EXCEPT ![t] = {x[2] : x \in running}]
        /\ \A u \in Thread \ {t} : pc'[u] = pc[u] /\ tracked'[u] = tracked[u]
        /\ tracked'[t] = {x[2] : x \in running}
        /\ UNCHANGED <<running, pods>>
    BY <1>20 DEF Rescan, Goto, WatchesInv, TrackedTypes, cluster, maps
  <2> QED BY <1>20, <2>1, <2>2 DEF WatchesInv, TrackedInv, Counted, Ended
<1>21. ASSUME NEW t \in Thread, ReadCache(t) PROVE TrackedInv'
  BY <1>21 DEF ReadCache, Goto
<1>22. ASSUME NEW t \in Thread, RescanDone(t) PROVE TrackedInv'
  BY <1>22 DEF RescanDone, Goto
<1>23. ASSUME NEW t \in Thread, NEW p \in Pod, RescanItem(t, p) PROVE TrackedInv'
  BY <1>23 DEF RescanItem, Call, Goto
<1>24. ASSUME NEW t \in Thread, Expire(t) PROVE TrackedInv'
  BY <1>24 DEF Expire, Goto
<1>25. ASSUME NEW p \in Pod, PodChanges(p) PROVE TrackedInv'
  <2> HIDE DEF TrackedTypes, OrderInv, ThreadInv, PodState, cluster, maps,
               threads, locals, completions, history
  <2> QED BY <1>25, PodChangesDoes
<1>26. ASSUME NEW n \in Node, NodeChanges(n) PROVE TrackedInv'
  BY <1>26 DEF NodeChanges
<1>27. ASSUME UNCHANGED vars PROVE TrackedInv'
  BY <1>27 DEF vars
<1> HIDE DEF WatchesInv, TrackedTypes, Thread, Handling, Upserting, Callers,
             TrackedInv, OrderInv, ThreadInv, Counted, Ended, PodState,
             cluster, maps, threads, locals, completions, history
<1> QED BY <1>1, <1>2, <1>3, <1>4, <1>5, <1>6, <1>7, <1>8, <1>9, <1>10, <1>11,
           <1>12, <1>13, <1>14, <1>15, <1>16, <1>17, <1>18, <1>19, <1>20,
           <1>21, <1>22, <1>23, <1>24, <1>25, <1>26, <1>27
   DEF Next, PodThread, EitherThread, NodeThread, Thread

(* A placed node has a lane, and the flag is set by the scan.              *)
LEMMA PlacedStep ==
  ASSUME WatchesAssumption, WatchesInv, [Next]_vars
  PROVE  PlacedInv'
<1> USE DEF WatchesInv, TrackedTypes, Thread, Handling, Upserting, Callers,
            PlacedInv, NodeScanInv, cluster, maps, threads, locals,
            completions, history
<1>1. ASSUME PodBootstrap PROVE PlacedInv'
  BY <1>1 DEF PodBootstrap, Goto
<1>2. ASSUME PublishCache PROVE PlacedInv'
  BY <1>2 DEF PublishCache, Goto
<1>3. ASSUME CheckNodesUp PROVE PlacedInv'
  BY <1>3 DEF CheckNodesUp, Goto
<1>4. ASSUME Record PROVE PlacedInv'
  BY <1>4 DEF Record, Goto
<1>5. ASSUME RemoveRunning PROVE PlacedInv'
  BY <1>5 DEF RemoveRunning, Goto
<1>6. ASSUME RemoveCtx PROVE PlacedInv'
  BY <1>6 DEF RemoveCtx, Return, Goto
<1>7. ASSUME NEW p \in Pod, PodItem(p) PROVE PlacedInv'
  BY <1>7 DEF PodItem, HandlePod, Call, Goto
<1>8. ASSUME NEW p \in Pod, PodEvent(p) PROVE PlacedInv'
  BY <1>8 DEF PodEvent, HandlePod, Call, Goto
<1>9. ASSUME NodeBootstrap PROVE PlacedInv'
  BY <1>9 DEF NodeBootstrap, Goto
<1>10. ASSUME BootstrapSync PROVE PlacedInv'
  BY <1>10 DEF BootstrapSync, Goto
<1>11. ASSUME NodesUp PROVE PlacedInv'
  BY <1>11 DEF NodesUp, Goto
<1>12. ASSUME EventSync PROVE PlacedInv'
  BY <1>12 DEF EventSync, Goto
<1>13. ASSUME NEW n \in Node, NodeItem(n) PROVE PlacedInv'
  BY <1>13 DEF NodeItem, Upsert
<1>14. ASSUME NEW n \in Node, NodeEvent(n) PROVE PlacedInv'
  BY <1>14 DEF NodeEvent, Upsert, Goto
<1>15. ASSUME Sweep PROVE PlacedInv'
  BY <1>15 DEF Sweep
<1>16. ASSUME Evict PROVE PlacedInv'
  BY <1>16 DEF Evict
<1>17. ASSUME NEW t \in Thread, Place(t) PROVE PlacedInv'
  BY <1>17 DEF Place, Return, Goto
<1>18. ASSUME NEW t \in Thread, AddRunning(t) PROVE PlacedInv'
  BY <1>18 DEF AddRunning, Goto
<1>19. ASSUME NEW t \in Thread, AddCtx(t) PROVE PlacedInv'
  BY <1>19 DEF AddCtx, Return, Goto
<1>20. ASSUME NEW t \in Thread, Rescan(t) PROVE PlacedInv'
  BY <1>20 DEF Rescan, Goto
<1>21. ASSUME NEW t \in Thread, ReadCache(t) PROVE PlacedInv'
  BY <1>21 DEF ReadCache, Goto
<1>22. ASSUME NEW t \in Thread, RescanDone(t) PROVE PlacedInv'
  BY <1>22 DEF RescanDone, Goto
<1>23. ASSUME NEW t \in Thread, NEW p \in Pod, RescanItem(t, p) PROVE PlacedInv'
  BY <1>23 DEF RescanItem, Call, Goto
<1>24. ASSUME NEW t \in Thread, Expire(t) PROVE PlacedInv'
  BY <1>24 DEF Expire, Goto
<1>25. ASSUME NEW p \in Pod, PodChanges(p) PROVE PlacedInv'
  BY <1>25 DEF PodChanges
<1>26. ASSUME NEW n \in Node, NodeChanges(n) PROVE PlacedInv'
  BY <1>26 DEF NodeChanges
<1>27. ASSUME UNCHANGED vars PROVE PlacedInv'
  BY <1>27 DEF vars
<1> HIDE DEF WatchesInv, TrackedTypes, Thread, Handling, Upserting, Callers,
             PlacedInv, NodeScanInv, cluster, maps, threads, locals,
             completions, history
<1> QED BY <1>1, <1>2, <1>3, <1>4, <1>5, <1>6, <1>7, <1>8, <1>9, <1>10, <1>11,
           <1>12, <1>13, <1>14, <1>15, <1>16, <1>17, <1>18, <1>19, <1>20,
           <1>21, <1>22, <1>23, <1>24, <1>25, <1>26, <1>27
   DEF Next, PodThread, EitherThread, NodeThread, Thread

(* A running pod on a placed node is counted or will be scanned.           *)
LEMMA ScanStep ==
  ASSUME WatchesAssumption, WatchesInv, [Next]_vars
  PROVE  ScanInv'
<1> USE DEF WatchesInv, TrackedTypes, Thread, Handling, Upserting, Callers,
            ScanInv, OrderInv, TrackedInv, PlacedInv, ThreadInv, NodeScanInv,
            ToScan, InScanOf, Ended, Counted, LaneForPod, PodState, Listed,
            cluster, maps, threads, locals, completions, history
<1>1. ASSUME PodBootstrap PROVE ScanInv'
  BY <1>1 DEF PodBootstrap, Goto
<1>2. ASSUME PublishCache PROVE ScanInv'
  BY <1>2 DEF PublishCache, Goto
<1>3. ASSUME CheckNodesUp PROVE ScanInv'
  BY <1>3 DEF CheckNodesUp, Goto
<1>4. ASSUME Record PROVE ScanInv'
  BY <1>4 DEF Record, Goto
<1>5. ASSUME RemoveRunning PROVE ScanInv'
  BY <1>5 DEF RemoveRunning, Goto
<1>6. ASSUME RemoveCtx PROVE ScanInv'
  BY <1>6 DEF RemoveCtx, Return, Goto
<1>7. ASSUME NEW p \in Pod, PodItem(p) PROVE ScanInv'
  BY <1>7 DEF PodItem, HandlePod, Call, Goto
<1>8. ASSUME NEW p \in Pod, PodEvent(p) PROVE ScanInv'
  BY <1>8 DEF PodEvent, HandlePod, Call, Goto
<1>9. ASSUME Place("pod") PROVE ScanInv'
  <2> HIDE DEF TrackedTypes, OrderInv, TrackedInv, ThreadInv, NodeScanInv,
               Ended, PodState, Listed, cluster, maps, threads, locals,
               completions, history
  <2> QED BY <1>9, PlaceDoes
<1>10. ASSUME AddRunning("pod") PROVE ScanInv'
  BY <1>10 DEF AddRunning, Goto
<1>11. ASSUME AddCtx("pod") PROVE ScanInv'
  BY <1>11 DEF AddCtx, Return, Goto
<1>12. ASSUME Rescan("pod") PROVE ScanInv'
  BY <1>12 DEF Rescan, Goto
<1>13. ASSUME ReadCache("pod") PROVE ScanInv'
  BY <1>13 DEF ReadCache, Goto
<1>14. ASSUME RescanDone("pod") PROVE ScanInv'
  BY <1>14 DEF RescanDone, Goto
<1>15. ASSUME NEW p \in Pod, RescanItem("pod", p) PROVE ScanInv'
  BY <1>15 DEF RescanItem, Call, Goto
<1>16. ASSUME Expire("pod") PROVE ScanInv'
  BY <1>16 DEF Expire, Goto
<1>17. ASSUME NodeBootstrap PROVE ScanInv'
  BY <1>17 DEF NodeBootstrap, Goto
<1>18. ASSUME BootstrapSync PROVE ScanInv'
  BY <1>18 DEF BootstrapSync, Goto
<1>19. ASSUME NodesUp PROVE ScanInv'
  BY <1>19 DEF NodesUp, Goto
<1>20. ASSUME EventSync PROVE ScanInv'
  <2>1. /\ pc["node"] = "sync" /\ pc'["node"] = "watch" /\ pc'["pod"] = pc["pod"]
        /\ UNCHANGED <<pods, placed, cache, running, nodes_bootstrapped, cur, back, todo>>
    BY <1>20 DEF EventSync, Goto, WatchesInv, TrackedTypes, Thread, cluster, locals, history
  <2> QED BY <1>20, <2>1 DEF WatchesInv, ScanInv, Counted, ToScan, InScanOf, Handling, Upserting
<1>21. ASSUME NEW n \in Node, NodeItem(n) PROVE ScanInv'
  BY <1>21 DEF NodeItem, Upsert
<1>22. ASSUME NEW n \in Node, NodeEvent(n) PROVE ScanInv'
  BY <1>22 DEF NodeEvent, Upsert, Goto
<1>23. ASSUME Place("node") PROVE ScanInv'
  <2> HIDE DEF TrackedTypes, OrderInv, TrackedInv, ThreadInv, NodeScanInv,
               Ended, PodState, Listed, cluster, maps, threads, locals,
               completions, history
  <2> QED BY <1>23, PlaceDoes
<1>24. ASSUME AddRunning("node") PROVE ScanInv'
  BY <1>24 DEF AddRunning, Goto
<1>25. ASSUME AddCtx("node") PROVE ScanInv'
  BY <1>25 DEF AddCtx, Return, Goto
<1>26. ASSUME Rescan("node") PROVE ScanInv'
  BY <1>26 DEF Rescan, Goto
<1>27. ASSUME ReadCache("node") PROVE ScanInv'
  BY <1>27 DEF ReadCache, Goto
<1>28. ASSUME RescanDone("node") PROVE ScanInv'
  BY <1>28 DEF RescanDone, Goto
<1>29. ASSUME NEW p \in Pod, RescanItem("node", p) PROVE ScanInv'
  BY <1>29 DEF RescanItem, Call, Goto
<1>30. ASSUME Expire("node") PROVE ScanInv'
  BY <1>30 DEF Expire, Goto
<1>31. ASSUME Sweep PROVE ScanInv'
  BY <1>31 DEF Sweep
<1>32. ASSUME Evict PROVE ScanInv'
  BY <1>32 DEF Evict
<1>33. ASSUME NEW p \in Pod, PodChanges(p) PROVE ScanInv'
  <2> HIDE DEF WatchesInv, TrackedTypes, OrderInv, TrackedInv, PlacedInv, ThreadInv,
               NodeScanInv, Ended, LaneForPod, PodState, Listed, cluster, maps,
               threads, locals, completions, history
  <2>1. /\ UNCHANGED <<pc, cur, back, todo, running, cache, nodes_bootstrapped, placed>>
        /\ \A q \in Pod \ {p} : pods'[q] = pods[q]
        /\ pods'[p] = "running" => pods[p] = "absent"
    BY <1>33, PodChangesDoes
  <2>2. ScanInv /\ (p \in cache => pods[p] # "absent")
    BY DEF WatchesInv, OrderInv
  <2> SUFFICES ASSUME NEW q \in Pod, pods'[q] = "running", q \in cache, NodeOf[q] \in placed
               PROVE  Counted(q)' \/ ToScan("pod", q)' \/ ToScan("node", q)'
    BY <2>1
  <2>3. pods[q] = "running"
    BY <2>1, <2>2
  <2> QED BY <2>1, <2>2, <2>3
<1>34. ASSUME NEW n \in Node, NodeChanges(n) PROVE ScanInv'
  BY <1>34 DEF NodeChanges
<1>35. ASSUME UNCHANGED vars PROVE ScanInv'
  BY <1>35 DEF vars
<1> HIDE DEF WatchesInv, TrackedTypes, Thread, Handling, Upserting, Callers,
             ScanInv, OrderInv, TrackedInv, PlacedInv, ThreadInv, NodeScanInv,
             ToScan, InScanOf, Ended, Counted, LaneForPod, PodState, Listed,
             cluster, maps, threads, locals, completions, history
<1> QED BY <1>1, <1>2, <1>3, <1>4, <1>5, <1>6, <1>7, <1>8, <1>9, <1>10, <1>11,
           <1>12, <1>13, <1>14, <1>15, <1>16, <1>17, <1>18, <1>19, <1>20,
           <1>21, <1>22, <1>23, <1>24, <1>25, <1>26, <1>27, <1>28, <1>29,
           <1>30, <1>31, <1>32, <1>33, <1>34, <1>35
   DEF Next, PodThread, EitherThread, NodeThread, Thread

-----------------------------------------------------------------------------
(* The theorems.                                                           *)

(* The invariant holds in every state that the threads, the sweep and the  *)
(* cluster reach.                                                          *)
THEOREM WatchesInvariant == Spec => []WatchesInv
<1>1. Init => WatchesInv
  BY InitHolds, WatchesAssumption
<1>2. WatchesInv /\ [Next]_vars => WatchesInv'
  <2> SUFFICES ASSUME WatchesInv, [Next]_vars PROVE WatchesInv'
    OBVIOUS
  <2>1. TrackedTypes' /\ ThreadInv' /\ StreamInv' /\ FreshInv'
    BY WatchesAssumption, TypesStep, ThreadStep, StreamStep, FreshStep
  <2>2. NodeScanInv' /\ GhostInv' /\ ContextInv' /\ OrderInv'
    BY WatchesAssumption, NodeScanStep, GhostStep, ContextStep, OrderStep
  <2>3. RecordedInv' /\ LabelInv' /\ TrackedInv' /\ PlacedInv' /\ ScanInv'
    BY WatchesAssumption, RecordedStep, LabelStep, TrackedStep, PlacedStep, ScanStep
  <2> QED BY <2>1, <2>2, <2>3 DEF WatchesInv
<1> QED BY <1>1, <1>2, PTL DEF Spec

(* No running pod is missed, however the two bootstraps, their scans and   *)
(* the events interleave (_bootstrap_pods, _bootstrap_nodes,               *)
(* _rescan_unlaned_running_pods).                                          *)
THEOREM RunningPodsCounted == Spec => []RunningPodCounted
<1>1. WatchesInv => RunningPodCounted
  <2> SUFFICES ASSUME WatchesInv, NEW p \in Pod, Watching("pod"), Watching("node"),
                      pods[p] = "running", podStream[p] = <<>>,
                      label[p] # NoLane \/ (p \in cache /\ NodeOf[p] \in placed)
               PROVE  Counted(p)
    BY DEF RunningPodCounted
  <2>1. CASE label[p] # NoLane
    BY <2>1 DEF WatchesInv, LabelInv, InItems, Handling, Upserting, Watching
  <2>2. CASE p \in cache /\ NodeOf[p] \in placed
    BY <2>2 DEF WatchesInv, ScanInv, ToScan, InScanOf, Handling, Upserting, Watching
  <2> QED BY <2>1, <2>2
<1> QED BY <1>1, WatchesInvariant, PTL

(* A pod that does not run is counted only for the two reasons that        *)
(* NoOtherGhost names (_remove_running, _bootstrap_pods).                  *)
THEOREM GhostsExplained == Spec => []NoOtherGhost
<1>1. WatchesInv => NoOtherGhost
  BY DEF WatchesInv, GhostInv, NoOtherGhost, Watching, EndAhead, InItems, Handling, Upserting
<1> QED BY <1>1, WatchesInvariant, PTL

(* The end of a pod that the pod thread counted is recorded, whatever the  *)
(* sweep takes meanwhile (_record_completion, _sweep_running_ctx).         *)
THEOREM CompletionsKept == Spec => []CompletionNotLost
<1>1. WatchesInv => CompletionNotLost
  <2> SUFFICES ASSUME WatchesInv, NEW p \in Pod, Watching("pod"), pods[p] = "finished",
                      podStream[p] = <<>>, p \in counted
               PROVE  recorded[p] > 0
    BY DEF CompletionNotLost
  <2>1. recorded[p] # 0
    BY DEF WatchesInv, ContextInv, EndAhead, InItems, Handling, Upserting, Watching
  <2>2. recorded[p] \in 0..2
    BY DEF WatchesInv, TrackedTypes
  <2> QED BY <2>1, <2>2
<1> QED BY <1>1, WatchesInvariant, PTL

(* And once, unless a scan of an old cache had brought the context back.   *)
THEOREM CompletedOnce == Spec => []CompletionRecordedOnce
<1>1. WatchesInv => CompletionRecordedOnce
  <2> SUFFICES ASSUME WatchesInv, NEW p \in Pod, recorded[p] > 1, p \notin wasCached
               PROVE  FALSE
    BY DEF CompletionRecordedOnce
  <2>1. recorded[p] \in 0..2
    BY DEF WatchesInv, TrackedTypes
  <2>2. recorded[p] > 0 => recorded[p] = 1
    BY DEF WatchesInv, RecordedInv
  <2> QED BY <2>1, <2>2
<1> QED BY <1>1, WatchesInvariant, PTL
=============================================================================
