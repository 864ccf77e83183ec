------------------------ MODULE EventPublisher_proofs ------------------------
(***************************************************************************)
(* What the publication of queue-position events does while pods come and  *)
(* go, for any pods and names, any estimates and intervals, and a clock of *)
(* any length.  An invariant of ten conjuncts, kept by every step, implies *)
(* the three properties at the end.                                        *)
(***************************************************************************)
EXTENDS EventPublisher, TLAPS

-----------------------------------------------------------------------------
(* The invariant.                                                          *)

(* A schedule that has not advanced is due; a batch pod's counts its       *)
(* milestones while it has a next one.                                     *)
CountOk(p) ==
  LET s == schedules[p]
  IN  /\ s.emit_count = 0 => s.next_emit_at = 0
      /\ p \in Batch /\ s.next_emit_at # Never => s.emit_count < BatchMaxEmits
CountInv == \A p \in DOMAIN schedules : CountOk(p)

(* Snapshots are taken after time 0, and nothing is due outside a          *)
(* publication.                                                            *)
PcInv ==
  /\ pc # "idle" => at > 0
  /\ pc \in {"idle", "collect"} => DOMAIN due = {}

(* A due pod's copy is its schedule; if it has none, the pod is gone for   *)
(* good.                                                                   *)
CopyOk(p) ==
  /\ p \in DOMAIN schedules => due[p] = schedules[p]
  /\ p \notin DOMAIN schedules => place[p] = "gone"
CopyInv == \A p \in DOMAIN due : CopyOk(p)

(* Its time has come, and its earlier events are out.                      *)
DueOk(p) ==
  /\ due[p].next_emit_at <= at
  /\ p \in Batch => due[p].emit_count < BatchMaxEmits
  /\ \A i \in 0..due[p].emit_count - 1 : <<NameOf[p], i>> \in events
DueInv == \A p \in DOMAIN due : DueOk(p)

(* Between an event and its advance, the event is out and the pod's last   *)
(* one.                                                                    *)
AdvanceInv ==
  pc = "advance" =>
    /\ cur \in DOMAIN due
    /\ EventName(cur) \in events
    /\ cur \in DOMAIN schedules => lastEmit[cur] = at

(* The next event of an interactive pod is an interval after its last one. *)
SpacingOk(p) ==
  schedules[p].emit_count > 0 =>
    /\ lastEmit[p] > 0
    /\ \/ p \in Batch
       \/ pc = "advance" /\ cur = p
       \/ schedules[p].next_emit_at = lastEmit[p] + Interval(schedules[p].emit_count)
SpacingInv == \A p \in DOMAIN schedules : SpacingOk(p)

(* A pod that waits has a schedule, unless it was overlooked; and a due    *)
(* pod without an estimate was, or is gone.                                *)
QueueInv ==
  /\ \A p \in waited : place[p] = "queued"
  /\ \A p \in DOMAIN due \ estimates : p \in overlooked \/ place[p] = "gone"
  /\ \A p \in Pod : place[p] \in {"queued", "away"} /\ p \notin overlooked
       => p \in DOMAIN schedules

(* WaitingPodsTold, in the middle of a publication: the pods that do not   *)
(* know yet are due.                                                       *)
Told(p) ==
  /\ lastEmit[p] > 0
  /\ p \in Batch \/ at < lastEmit[p] + Interval(schedules[p].emit_count)
ToldInv ==
  pc # "collect" =>
    \A p \in waited \ (overlooked \cup refused) : p \in DOMAIN due \/ Told(p)

(* The conjunction that every step keeps.                                  *)
PublisherInv ==
  /\ TypeOK /\ NoEventSkipped
  /\ CountInv /\ PcInv /\ CopyInv /\ DueInv /\ AdvanceInv /\ SpacingInv
  /\ QueueInv /\ ToldInv

-----------------------------------------------------------------------------
(* Types, and what the helpers return.                                     *)

(* Times are numbers, and a time of now fits a schedule (_enqueue).        *)
LEMMA TimeType ==
  /\ now \in 1..MaxTime => now \in Nat /\ now \in Time /\ now > 0
  /\ \A t \in Time : t \in Nat
  /\ 0 \in Time
BY PublisherAssumption DEF Time

(* The types that the steps need, as facts about one pod.                  *)
Typed ==
  /\ DOMAIN schedules \subseteq Pod
  /\ \A q \in DOMAIN schedules :
       /\ schedules[q].emit_count \in Nat
       /\ schedules[q].next_emit_at \in Nat \cup {Never}
  /\ DOMAIN due \subseteq Pod
  /\ \A q \in DOMAIN due :
       due[q].emit_count \in Nat /\ due[q].next_emit_at \in Nat
  /\ at \in Nat /\ now \in Nat /\ now > 0
  /\ \A q \in Pod : lastEmit[q] \in Nat
  /\ waited \subseteq Pod
  /\ Never \notin Nat /\ Nobody \notin Pod
  /\ BatchMaxEmits \in Nat /\ BatchMaxEmits > 0

(* The types of the fields that the publication reads.                     *)
LEMMA TypeFacts ==
  ASSUME TypeOK
  PROVE  Typed
<1> USE TimeType, PublisherAssumption DEF TypeOK, Typed
<1>1. ASSUME NEW s \in Schedule
      PROVE  s.emit_count \in Nat /\ s.next_emit_at \in Nat \cup {Never}
  BY DEF Schedule
<1> QED BY <1>1

(* Early or late, an interval is positive (PodEventSchedule.advance).      *)
LEMMA IntervalType ==
  ASSUME NEW n \in Nat PROVE Interval(n) \in Nat \ {0}
BY PublisherAssumption DEF Interval

(* A new registration is a schedule (EventPublisher.register).             *)
LEMMA FreshType ==
  ASSUME now \in 1..MaxTime, NEW p PROVE Fresh(p) \in Schedule
BY TimeType DEF Fresh, Schedule

(* A batch pod's schedule counts one milestone, and has no next one when   *)
(* it has counted them all (PodEventSchedule.advance).                     *)
LEMMA BatchDoes ==
  ASSUME at \in Nat, NEW s \in Schedule, NEW median \in Nat
  PROVE  LET t == AdvanceBatch(s, median)
         IN  /\ t \in Schedule
             /\ t.emit_count = s.emit_count + 1
             /\ t.next_emit_at = Never <=> ~ (s.emit_count + 1 < BatchMaxEmits)
<1> DEFINE n == s.emit_count + 1
           a == IF n = 1 THEN median
                ELSE IF s.anchor_wait > 0 /\ median > 2 * s.anchor_wait THEN median
                ELSE s.anchor_wait
           e == Larger(at, s.enqueued_at + (n * a) \div BatchMaxEmits)
<1>1. n \in Nat /\ a \in Nat /\ s.enqueued_at \in Nat
  BY TimeType DEF Schedule
<1>2. BatchMaxEmits \in Nat \ {0}
  BY PublisherAssumption
<1>3. (n * a) \in Nat
  BY <1>1
<1>4. (n * a) \div BatchMaxEmits \in Nat
  <2> DEFINE m == n * a
  <2> HIDE DEF m, n, a
  <2>1. m \in Nat
    BY <1>3 DEF m
  <2> QED BY <2>1, <1>2 DEF m
<1>5. e \in Nat
  <2> DEFINE d == (n * a) \div BatchMaxEmits
  <2> HIDE DEF d, n, a
  <2> QED BY <1>1, <1>4 DEF d, Larger
<1> DEFINE t == AdvanceBatch(s, median)
<1>6. t = [s EXCEPT !.emit_count = n, !.anchor_wait = a,
                    !.next_emit_at = IF n < BatchMaxEmits THEN e ELSE Never]
  BY DEF AdvanceBatch
<1>7. e # Never
  BY <1>5, PublisherAssumption
<1> DEFINE x == IF n < BatchMaxEmits THEN e ELSE Never
<1>8. x \in Nat \cup {Never} /\ (x = Never <=> ~(n < BatchMaxEmits))
  BY <1>5, <1>7
<1> HIDE DEF t, e, a, n, x
<1>9. /\ t \in Schedule
      /\ t.emit_count = n
      /\ t.next_emit_at = x
  BY ONLY <1>1, <1>6, <1>8, s \in Schedule DEF Schedule, x
<1> QED BY <1>8, <1>9 DEF t, n

(* An interactive pod's schedule counts one event and waits for the        *)
(* interval that its count asks for (PodEventSchedule.advance).            *)
LEMMA InteractiveDoes ==
  ASSUME at \in Nat, NEW s \in Schedule
  PROVE  LET t == AdvanceInteractive(s)
         IN  /\ t \in Schedule
             /\ t.emit_count = s.emit_count + 1
             /\ t.next_emit_at = at + Interval(s.emit_count + 1)
<1>1. Interval(s.emit_count + 1) \in Nat
  BY IntervalType DEF Schedule
<1> DEFINE t == AdvanceInteractive(s)
           n == s.emit_count + 1
           x == at + Interval(n)
<1>2. n \in Nat /\ x \in Nat
  BY <1>1 DEF Schedule
<1>3. t = [s EXCEPT !.emit_count = n, !.next_emit_at = x]
  BY DEF AdvanceInteractive
<1> HIDE DEF t, n, x
<1>4. t \in Schedule /\ t.emit_count = n /\ t.next_emit_at = x
  BY ONLY <1>2, <1>3, s \in Schedule DEF Schedule
<1> QED BY <1>4 DEF t, n, x

(* What an advance does to the schedules, and to nothing else              *)
(* (publish_due).                                                          *)
LEMMA AdvanceDoes ==
  ASSUME TypeOK, Advance
  PROVE  /\ pc = "advance" /\ pc' = "publish" /\ cur' = Nobody
         /\ DOMAIN due' = DOMAIN due \ {cur}
         /\ \A q \in DOMAIN due' : due'[q] = due[q]
         /\ UNCHANGED <<now, place, events, at, estimates, overlooked, refused, waited, lastEmit>>
         /\ DOMAIN schedules' = DOMAIN schedules
         /\ \A q \in DOMAIN schedules : q # cur => schedules'[q] = schedules[q]
         /\ cur \in DOMAIN schedules =>
              /\ schedules'[cur] \in Schedule
              /\ schedules'[cur].emit_count = schedules[cur].emit_count + 1
              /\ cur \notin Batch => schedules'[cur].next_emit_at =
                                       at + Interval(schedules[cur].emit_count + 1)
              /\ cur \in Batch =>
                  (schedules'[cur].next_emit_at = Never
                     <=> ~ (schedules[cur].emit_count + 1 < BatchMaxEmits))
<1> PICK median \in Medians :
       schedules' = IF cur \in DOMAIN schedules
                    THEN [schedules EXCEPT ![cur] = Advanced(cur, @, median)]
                    ELSE schedules
  BY DEF Advance
<1>3. /\ pc = "advance" /\ pc' = "publish" /\ cur' = Nobody
      /\ DOMAIN due' = DOMAIN due \ {cur}
      /\ \A q \in DOMAIN due' : due'[q] = due[q]
      /\ UNCHANGED <<now, place, events, at, estimates, overlooked, refused, waited, lastEmit>>
  BY DEF Advance, Without, history
<1>1. CASE cur \notin DOMAIN schedules
  BY <1>1, <1>3
<1>2. CASE cur \in DOMAIN schedules
  <2>1. schedules[cur] \in Schedule /\ at \in Nat /\ median \in Nat
    BY <1>2, PublisherAssumption, TimeType DEF TypeOK
  <2>2. schedules'[cur] = Advanced(cur, schedules[cur], median)
    BY <1>2
  <2>3. CASE cur \in Batch
    BY <1>2, <1>3, <2>1, <2>2, <2>3, BatchDoes DEF Advanced
  <2>4. CASE cur \notin Batch
    BY <1>2, <1>3, <2>1, <2>2, <2>4, InteractiveDoes DEF Advanced
  <2> QED BY <1>2, <1>3, <2>3, <2>4
<1> QED BY <1>1, <1>2, <1>3

(* A snapshot changes no schedule and finds nothing due (publish_due has   *)
(* returned).                                                              *)
LEMMA SnapshotKeeps ==
  ASSUME PublisherInv, Snapshot
  PROVE  PublisherInv'
<1> USE DEF PublisherInv, Typed
<1>1. Typed
  BY TypeFacts
<1>3. TypeOK'
  BY <1>1, TimeType, FreshType, PublisherAssumption
     DEF TypeOK, Snapshot, Queued, Candidates, thread, history
<1>4. NoEventSkipped'
  BY <1>1 DEF NoEventSkipped, EventName, Snapshot, thread, history, Queued
<1>5. CountInv'
  BY <1>1 DEF CountInv, CountOk, Snapshot, thread, history, Queued
<1>6. PcInv'
  BY <1>1 DEF PcInv, Snapshot, thread, history, Queued
<1>7. CopyInv'
  BY <1>1 DEF CopyInv, PcInv, CopyOk, Snapshot, thread, history, Queued
<1>8. DueInv'
  BY <1>1 DEF DueInv, PcInv, DueOk, Snapshot, thread, history, Queued
<1>9. AdvanceInv'
  BY <1>1 DEF AdvanceInv, PcInv, EventName, Snapshot, thread, history, Queued
<1>10. SpacingInv'
  BY <1>1 DEF SpacingInv, PcInv, SpacingOk, Snapshot, thread, history, Queued
<1>11. QueueInv'
  BY <1>1 DEF QueueInv, PcInv, Snapshot, thread, history, Queued
<1>12. ToldInv'
  BY <1>1 DEF ToldInv, PcInv, QueueInv, Told, Snapshot, thread, history, Queued
<1> QED BY <1>3, <1>4, <1>5, <1>6, <1>7, <1>8, <1>9, <1>10, <1>11, <1>12

(* What is due is copied; a waiting pod that is not due has had its event. *)
LEMMA CollectKeeps ==
  ASSUME PublisherInv, Collect
  PROVE  PublisherInv'
<1> USE DEF PublisherInv, Typed
<1>1. Typed
  BY TypeFacts
<1>2. /\ pc = "collect" /\ pc' = "publish"
      /\ DOMAIN due' \subseteq DOMAIN schedules
      /\ \A q \in DOMAIN schedules :
           q \in DOMAIN due' <=> schedules[q].next_emit_at # Never
                                 /\ at >= schedules[q].next_emit_at
      /\ \A q \in DOMAIN due' : due'[q] = schedules[q]
      /\ overlooked' = overlooked \cup (DOMAIN due' \ estimates)
      /\ UNCHANGED <<now, place, schedules, events, at, estimates, cur,
                     refused, waited, lastEmit>>
  BY DEF TypeOK, Collect, Due
<1>3. TypeOK'
  BY <1>1, TimeType, FreshType, PublisherAssumption DEF TypeOK, Collect, history
<1>4. NoEventSkipped'
  BY <1>1, <1>2 DEF NoEventSkipped, CopyInv, AdvanceInv, CopyOk, EventName
<1>5. CountInv'
  BY <1>1, <1>2 DEF CountInv, CountOk
<1>6. PcInv'
  BY <1>1, <1>2 DEF PcInv
<1>7. CopyInv'
  BY <1>1, <1>2 DEF CopyInv, PcInv, AdvanceInv, CopyOk
<1>8. DueInv'
  BY <1>1, <1>2 DEF DueInv, PcInv, CountInv, NoEventSkipped, DueOk, CountOk
<1>9. AdvanceInv'
  BY <1>1, <1>2 DEF AdvanceInv, PcInv, CopyInv, CopyOk, EventName
<1>10. SpacingInv'
  BY <1>1, <1>2 DEF SpacingInv, PcInv, AdvanceInv, SpacingOk
<1>11. QueueInv'
  BY <1>1, <1>2 DEF QueueInv
<1>12. ToldInv'
  <2> SUFFICES ASSUME NEW q \in waited \ (overlooked \cup refused), q \notin DOMAIN due'
               PROVE  Told(q)'
    BY <1>2 DEF ToldInv
  <2>1. q \in DOMAIN schedules
    BY <1>1 DEF QueueInv
  <2>2. schedules[q].next_emit_at = Never \/ at < schedules[q].next_emit_at
    BY <1>1, <1>2, <2>1
  <2>3. schedules[q].emit_count > 0
    BY <1>1, <2>1, <2>2 DEF CountInv, CountOk
  <2>4. /\ lastEmit[q] > 0
        /\ \/ q \in Batch
           \/ schedules[q].next_emit_at = lastEmit[q] + Interval(schedules[q].emit_count)
    BY <1>2, <2>1, <2>3 DEF SpacingInv, SpacingOk
  <2>5. lastEmit[q] + Interval(schedules[q].emit_count) # Never
    BY <1>1, <2>1, IntervalType
  <2> QED BY <1>2, <2>2, <2>4, <2>5 DEF Told
<1> QED BY <1>3, <1>4, <1>5, <1>6, <1>7, <1>8, <1>9, <1>10, <1>11, <1>12

(* The schedule that advances is the one that was copied, or none          *)
(* (publish_due, PodEventSchedule.advance).                                *)
LEMMA AdvanceKeeps ==
  ASSUME PublisherInv, Advance
  PROVE  PublisherInv'
<1> USE DEF PublisherInv, Typed
<1>1. Typed
  BY TypeFacts
<1>2. /\ pc = "advance" /\ pc' = "publish" /\ cur' = Nobody
      /\ DOMAIN due' = DOMAIN due \ {cur}
      /\ \A q \in DOMAIN due' : due'[q] = due[q]
      /\ UNCHANGED <<now, place, events, at, estimates, overlooked, refused, waited, lastEmit>>
      /\ DOMAIN schedules' = DOMAIN schedules
      /\ \A q \in DOMAIN schedules : q # cur => schedules'[q] = schedules[q]
      /\ cur \in DOMAIN schedules =>
           /\ schedules'[cur] \in Schedule
           /\ schedules'[cur].emit_count = schedules[cur].emit_count + 1
           /\ cur \notin Batch => schedules'[cur].next_emit_at =
                                    at + Interval(schedules[cur].emit_count + 1)
           /\ cur \in Batch =>
               (schedules'[cur].next_emit_at = Never
                  <=> ~ (schedules[cur].emit_count + 1 < BatchMaxEmits))
  BY AdvanceDoes
<1>3. TypeOK'
  <2>1. \A q \in DOMAIN schedules' :
          /\ schedules'[q] \in Schedule
          /\ schedules'[q].next_emit_at = Never
               => q \in Batch /\ schedules'[q].emit_count = BatchMaxEmits
    <3> SUFFICES ASSUME NEW q \in DOMAIN schedules
                 PROVE  /\ schedules'[q] \in Schedule
                        /\ schedules'[q].next_emit_at = Never
                             => q \in Batch /\ schedules'[q].emit_count = BatchMaxEmits
      BY <1>2
    <3>1. CASE q # cur
      BY <1>2, <3>1 DEF TypeOK
    <3>2. CASE q = cur /\ q \in Batch
      <4>1. schedules[q].emit_count < BatchMaxEmits
        BY <1>2, <3>2 DEF AdvanceInv, CopyInv, CopyOk, DueInv, DueOk
      <4> QED BY <1>1, <1>2, <3>2, <4>1
    <3>3. CASE q = cur /\ q \notin Batch
      <4>1. schedules'[q].next_emit_at \in Nat
        BY <1>1, <1>2, <3>3, IntervalType
      <4> QED BY <1>1, <1>2, <3>3, <4>1
    <3> QED BY <3>1, <3>2, <3>3
  <2>2. \A q \in DOMAIN due' : due'[q] = due[q] /\ q \in DOMAIN due
    BY <1>2
  <2> QED BY <1>2, <2>1, <2>2 DEF TypeOK
<1>4. NoEventSkipped'
  <2> SUFFICES ASSUME NEW q \in DOMAIN schedules', NEW i \in 0..schedules'[q].emit_count - 1
               PROVE  <<NameOf[q], i>> \in events'
    BY DEF NoEventSkipped
  <2> QED BY <1>1, <1>2 DEF NoEventSkipped, CopyInv, AdvanceInv, CopyOk, EventName
<1>5. CountInv'
  BY <1>1, <1>2 DEF CountInv, CountOk
<1>6. PcInv'
  BY <1>1, <1>2 DEF PcInv
<1>7. CopyInv'
  BY <1>1, <1>2 DEF CopyInv, PcInv, AdvanceInv, CopyOk
<1>8. DueInv'
  BY <1>1, <1>2 DEF DueInv, PcInv, CountInv, NoEventSkipped, DueOk, CountOk
<1>9. AdvanceInv'
  BY <1>1, <1>2 DEF AdvanceInv, PcInv, CopyInv, CopyOk, EventName
<1>10. SpacingInv'
  BY <1>1, <1>2 DEF SpacingInv, PcInv, AdvanceInv, SpacingOk
<1>11. QueueInv'
  BY <1>1, <1>2 DEF QueueInv
<1>12. ToldInv'
  BY <1>1, <1>2, IntervalType
     DEF ToldInv, PcInv, CopyInv, AdvanceInv, QueueInv, SpacingInv, CountInv, CopyOk,
         SpacingOk, CountOk, Told
<1> QED BY <1>3, <1>4, <1>5, <1>6, <1>7, <1>8, <1>9, <1>10, <1>11, <1>12

(* The publication ends when nothing is due any more.                      *)
LEMMA PublishedKeeps ==
  ASSUME PublisherInv, Published
  PROVE  PublisherInv'
<1> USE DEF PublisherInv, Typed
<1>1. Typed
  BY TypeFacts
<1>3. TypeOK'
  BY <1>1 DEF TypeOK, Published, history
<1>4. NoEventSkipped'
  BY <1>1 DEF NoEventSkipped, EventName, Published, thread, history
<1>5. CountInv'
  BY <1>1 DEF CountInv, CountOk, Published, thread, history
<1>6. PcInv'
  BY <1>1 DEF PcInv, Published, thread, history
<1>7. CopyInv'
  BY <1>1 DEF CopyInv, PcInv, CopyOk, Published, thread, history
<1>8. DueInv'
  BY <1>1 DEF DueInv, PcInv, DueOk, Published, thread, history
<1>9. AdvanceInv'
  BY <1>1 DEF AdvanceInv, PcInv, EventName, Published, thread, history
<1>10. SpacingInv'
  BY <1>1 DEF SpacingInv, PcInv, SpacingOk, Published, thread, history
<1>11. QueueInv'
  BY <1>1 DEF QueueInv, Published, thread, history
<1>12. ToldInv'
  BY <1>1 DEF ToldInv, PcInv, QueueInv, Told, Published, thread, history
<1> QED BY <1>3, <1>4, <1>5, <1>6, <1>7, <1>8, <1>9, <1>10, <1>11, <1>12

(* Time alone changes nothing.                                             *)
LEMMA TickKeeps ==
  ASSUME PublisherInv, Tick
  PROVE  PublisherInv'
<1> USE DEF PublisherInv, Typed
<1>1. Typed
  BY TypeFacts
<1>3. TypeOK'
  BY <1>1, TimeType, FreshType, PublisherAssumption DEF TypeOK, Tick, thread, history
<1>4. NoEventSkipped'
  BY <1>1 DEF NoEventSkipped, EventName, Tick, thread, history
<1>5. CountInv'
  BY <1>1 DEF CountInv, CountOk, Tick, thread, history
<1>6. PcInv'
  BY <1>1 DEF PcInv, Tick, thread, history
<1>7. CopyInv'
  BY <1>1 DEF CopyInv, PcInv, CopyOk, Tick, thread, history
<1>8. DueInv'
  BY <1>1 DEF DueInv, PcInv, DueOk, Tick, thread, history
<1>9. AdvanceInv'
  BY <1>1 DEF AdvanceInv, PcInv, EventName, Tick, thread, history
<1>10. SpacingInv'
  BY <1>1 DEF SpacingInv, PcInv, SpacingOk, Tick, thread, history
<1>11. QueueInv'
  BY <1>1 DEF QueueInv, Tick, thread, history
<1>12. ToldInv'
  BY <1>1 DEF ToldInv, PcInv, QueueInv, Told, Tick, thread, history
<1> QED BY <1>3, <1>4, <1>5, <1>6, <1>7, <1>8, <1>9, <1>10, <1>11, <1>12

(* A pod that is registered again keeps its schedule, and a pod that       *)
(* starts afresh is not due in this publication (EventPublisher.register). *)
LEMMA EnqueueKeeps ==
  ASSUME PublisherInv, NEW p \in Pod, Enqueue(p)
  PROVE  PublisherInv'
<1> USE DEF PublisherInv, Typed
<1>1. Typed
  BY TypeFacts
<1>2. /\ place[p] \in {"new", "away"} /\ place'[p] = "queued"
      /\ \A q \in Pod : q # p => place'[q] = place[q]
      /\ DOMAIN schedules' = DOMAIN schedules \cup {p}
      /\ \A q \in DOMAIN schedules : schedules'[q] = schedules[q]
      /\ p \notin DOMAIN schedules =>
           schedules'[p].emit_count = 0 /\ schedules'[p].next_emit_at = 0
      /\ overlooked' = overlooked \ ({p} \ DOMAIN schedules)
      /\ UNCHANGED <<now, events, pc, at, estimates, due, cur, refused, waited, lastEmit>>
  BY DEF TypeOK, Enqueue, Register, Fresh, Place, thread
<1>3. TypeOK'
  <2>1. \A q : Fresh(q) \in Schedule
    BY FreshType DEF TypeOK
  <2>2. \A q \in DOMAIN schedules' :
          /\ schedules'[q] \in Schedule
          /\ schedules'[q].next_emit_at = Never
               => q \in Batch /\ schedules'[q].emit_count = BatchMaxEmits
    <3>1. ASSUME NEW q \in DOMAIN schedules'
          PROVE  schedules'[q] = Fresh(q) \/ (q \in DOMAIN schedules /\ schedules'[q] = schedules[q])
      BY DEF Enqueue, Register
    <3>2. \A q : Fresh(q).next_emit_at # Never
      BY <1>1 DEF Fresh
    <3> QED BY <2>1, <3>1, <3>2 DEF TypeOK
  <2>3. place' \in [Pod -> Place]
    BY DEF TypeOK, Enqueue, Place
  <2> QED BY <1>2, <2>2, <2>3 DEF TypeOK
<1>4. NoEventSkipped'
  BY <1>1, <1>2 DEF NoEventSkipped, CopyInv, AdvanceInv, CopyOk, EventName
<1>5. CountInv'
  BY <1>1, <1>2 DEF CountInv, CountOk
<1>6. PcInv'
  BY <1>1, <1>2 DEF PcInv
<1>7. CopyInv'
  BY <1>1, <1>2 DEF CopyInv, PcInv, AdvanceInv, CopyOk
<1>8. DueInv'
  BY <1>1, <1>2 DEF DueInv, PcInv, CountInv, NoEventSkipped, DueOk, CountOk
<1>9. AdvanceInv'
  BY <1>1, <1>2 DEF AdvanceInv, PcInv, CopyInv, CopyOk, EventName
<1>10. SpacingInv'
  BY <1>1, <1>2 DEF SpacingInv, PcInv, AdvanceInv, SpacingOk
<1>11. QueueInv'
  <2>1. p \notin DOMAIN schedules => p \notin DOMAIN due
    BY <1>2 DEF CopyInv, CopyOk
  <2> QED BY <1>1, <1>2, <2>1 DEF QueueInv
<1>12. ToldInv'
  BY <1>1, <1>2
     DEF ToldInv, PcInv, CopyInv, AdvanceInv, QueueInv, SpacingInv, CountInv, CopyOk,
         SpacingOk, CountOk, Told
<1> QED BY <1>3, <1>4, <1>5, <1>6, <1>7, <1>8, <1>9, <1>10, <1>11, <1>12

(* A pod that leaves in the middle of a publication never comes back, so   *)
(* its copy is the last one (deregister).                                  *)
LEMMA DequeueKeeps ==
  ASSUME PublisherInv, NEW p \in Pod, Dequeue(p)
  PROVE  PublisherInv'
<1> USE DEF PublisherInv, Typed
<1>1. Typed
  BY TypeFacts
<1>2. /\ place[p] \notin {"new", "gone"} /\ place'[p] = "gone"
      /\ \A q \in Pod : q # p => place'[q] = place[q]
      /\ DOMAIN schedules' = DOMAIN schedules \ {p}
      /\ \A q \in DOMAIN schedules' : schedules'[q] = schedules[q]
      /\ waited' = waited \ {p}
      /\ overlooked' = overlooked \ {p}
      /\ refused' = refused \ {p}
      /\ lastEmit'[p] = 0
      /\ \A q \in Pod : q # p => lastEmit'[q] = lastEmit[q]
      /\ UNCHANGED <<now, events, pc, at, estimates, due, cur>>
  BY DEF TypeOK, Dequeue, Deregister, Without, Place, thread
<1>3. TypeOK'
  BY <1>1, TimeType, FreshType, PublisherAssumption
     DEF TypeOK, Dequeue, Deregister, Without, thread, Place
<1>4. NoEventSkipped'
  BY <1>1, <1>2 DEF NoEventSkipped, CopyInv, AdvanceInv, CopyOk, EventName
<1>5. CountInv'
  BY <1>1, <1>2 DEF CountInv, CountOk
<1>6. PcInv'
  BY <1>1, <1>2 DEF PcInv
<1>7. CopyInv'
  BY <1>1, <1>2 DEF CopyInv, PcInv, AdvanceInv, CopyOk
<1>8. DueInv'
  BY <1>1, <1>2 DEF DueInv, PcInv, CountInv, NoEventSkipped, DueOk, CountOk
<1>9. AdvanceInv'
  BY <1>1, <1>2 DEF AdvanceInv, PcInv, CopyInv, CopyOk, EventName
<1>10. SpacingInv'
  BY <1>1, <1>2 DEF SpacingInv, PcInv, AdvanceInv, SpacingOk
<1>11. QueueInv'
  BY <1>1, <1>2 DEF QueueInv
<1>12. ToldInv'
  BY <1>1, <1>2
     DEF ToldInv, PcInv, CopyInv, AdvanceInv, QueueInv, SpacingInv, CountInv, CopyOk,
         SpacingOk, CountOk, Told
<1> QED BY <1>3, <1>4, <1>5, <1>6, <1>7, <1>8, <1>9, <1>10, <1>11, <1>12

(* The cycle takes a job, which ends what the snapshot promised its pod.   *)
LEMMA CycleStepKeeps ==
  ASSUME PublisherInv, NEW p \in Pod, CycleStep(p)
  PROVE  PublisherInv'
<1> USE DEF PublisherInv, Typed
<1>1. Typed
  BY TypeFacts
<1>3. TypeOK'
  BY <1>1, TimeType, FreshType, PublisherAssumption DEF TypeOK, CycleStep, thread, Place
<1>4. NoEventSkipped'
  BY <1>1 DEF NoEventSkipped, EventName, CycleStep, thread, history
<1>5. CountInv'
  BY <1>1 DEF CountInv, CountOk, CycleStep, thread, history
<1>6. PcInv'
  BY <1>1 DEF PcInv, CycleStep, thread, history
<1>7. CopyInv'
  BY <1>1 DEF CopyInv, PcInv, CopyOk, CycleStep, thread, history
<1>8. DueInv'
  BY <1>1 DEF DueInv, PcInv, DueOk, CycleStep, thread, history
<1>9. AdvanceInv'
  BY <1>1 DEF AdvanceInv, PcInv, EventName, CycleStep, thread, history
<1>10. SpacingInv'
  BY <1>1 DEF SpacingInv, PcInv, SpacingOk, CycleStep, thread, history
<1>11. QueueInv'
  BY <1>1 DEF QueueInv, CycleStep, thread, history
<1>12. ToldInv'
  BY <1>1 DEF ToldInv, PcInv, QueueInv, Told, CycleStep, thread, history
<1> QED BY <1>3, <1>4, <1>5, <1>6, <1>7, <1>8, <1>9, <1>10, <1>11, <1>12

(* A due pod without an estimate is deregistered and dropped               *)
(* (publish_due).                                                          *)
LEMMA SilenceKeeps ==
  ASSUME PublisherInv, NEW p \in Pod, Silence(p)
  PROVE  PublisherInv'
<1> USE DEF PublisherInv, Typed
<1>1. Typed
  BY TypeFacts
<1>2. /\ pc = "publish" /\ p \in DOMAIN due /\ p \notin estimates
      /\ DOMAIN schedules' = DOMAIN schedules \ {p}
      /\ \A q \in DOMAIN schedules' : schedules'[q] = schedules[q]
      /\ DOMAIN due' = DOMAIN due \ {p}
      /\ \A q \in DOMAIN due' : due'[q] = due[q]
      /\ UNCHANGED <<now, place, events, pc, at, estimates, cur, overlooked, refused,
                     waited, lastEmit>>
  BY DEF TypeOK, Silence, Deregister, Without, history
<1>3. TypeOK'
  BY <1>1, TimeType, FreshType, PublisherAssumption
     DEF TypeOK, Silence, Deregister, Without, history
<1>4. NoEventSkipped'
  BY <1>1, <1>2 DEF NoEventSkipped, CopyInv, AdvanceInv, CopyOk, EventName
<1>5. CountInv'
  BY <1>1, <1>2 DEF CountInv, CountOk
<1>6. PcInv'
  BY <1>1, <1>2 DEF PcInv
<1>7. CopyInv'
  BY <1>1, <1>2 DEF CopyInv, PcInv, AdvanceInv, CopyOk
<1>8. DueInv'
  BY <1>1, <1>2 DEF DueInv, PcInv, CountInv, NoEventSkipped, DueOk, CountOk
<1>9. AdvanceInv'
  BY <1>1, <1>2 DEF AdvanceInv, PcInv, CopyInv, CopyOk, EventName
<1>10. SpacingInv'
  BY <1>1, <1>2 DEF SpacingInv, PcInv, AdvanceInv, SpacingOk
<1>11. QueueInv'
  BY <1>1, <1>2 DEF QueueInv
<1>12. ToldInv'
  BY <1>1, <1>2
     DEF ToldInv, PcInv, CopyInv, AdvanceInv, QueueInv, SpacingInv, CountInv, CopyOk,
         SpacingOk, CountOk, Told
<1> QED BY <1>3, <1>4, <1>5, <1>6, <1>7, <1>8, <1>9, <1>10, <1>11, <1>12

(* The event that is created is the next one of the pod.                   *)
LEMMA CreateKeeps ==
  ASSUME PublisherInv, NEW p \in Pod, Create(p)
  PROVE  PublisherInv'
<1> USE DEF PublisherInv, Typed
<1>1. Typed
  BY TypeFacts
<1>2. /\ pc = "publish" /\ p \in DOMAIN due
      /\ EventName(p) \notin events
      /\ events' = events \cup {EventName(p)}
      /\ lastEmit'[p] = at
      /\ \A q \in Pod : q # p => lastEmit'[q] = lastEmit[q]
      /\ cur' = p /\ pc' = "advance"
      /\ UNCHANGED <<now, place, schedules, at, estimates, due, overlooked, refused, waited>>
  BY DEF TypeOK, Create
<1>3. TypeOK'
  <2>1. EventName(p) \in Name \X Nat
    BY <1>1, <1>2, PublisherAssumption DEF EventName
  <2>2. lastEmit' \in [Pod -> Time]
    BY DEF TypeOK, Create
  <2> QED BY <1>2, <2>1, <2>2 DEF TypeOK
<1>4. NoEventSkipped'
  BY <1>1, <1>2 DEF NoEventSkipped, CopyInv, AdvanceInv, CopyOk, EventName
<1>5. CountInv'
  BY <1>1, <1>2 DEF CountInv, CountOk
<1>6. PcInv'
  BY <1>1, <1>2 DEF PcInv
<1>7. CopyInv'
  BY <1>1, <1>2 DEF CopyInv, PcInv, AdvanceInv, CopyOk
<1>8. DueInv'
  BY <1>1, <1>2 DEF DueInv, PcInv, CountInv, NoEventSkipped, DueOk, CountOk, EventName
<1>9. AdvanceInv'
  BY <1>1, <1>2 DEF AdvanceInv, PcInv, CopyInv, CopyOk, EventName
<1>10. SpacingInv'
  BY <1>1, <1>2 DEF SpacingInv, PcInv, AdvanceInv, SpacingOk
<1>11. QueueInv'
  BY <1>1, <1>2 DEF QueueInv
<1>12. ToldInv'
  BY <1>1, <1>2
     DEF ToldInv, PcInv, CopyInv, AdvanceInv, QueueInv, SpacingInv, CountInv, CopyOk,
         SpacingOk, CountOk, Told
<1> QED BY <1>3, <1>4, <1>5, <1>6, <1>7, <1>8, <1>9, <1>10, <1>11, <1>12

(* A failed create leaves the schedule as it was (publish_due).            *)
LEMMA CreateFailsKeeps ==
  ASSUME PublisherInv, NEW p \in Pod, CreateFails(p)
  PROVE  PublisherInv'
<1> USE DEF PublisherInv, Typed
<1>1. Typed
  BY TypeFacts
<1>2. /\ pc = "publish" /\ p \in DOMAIN due
      /\ events \subseteq events' /\ events' \subseteq events \cup {EventName(p)}
      /\ DOMAIN due' = DOMAIN due \ {p}
      /\ \A q \in DOMAIN due' : due'[q] = due[q]
      /\ refused' = refused \cup {p}
      /\ UNCHANGED <<now, place, schedules, pc, at, estimates, cur, overlooked, waited, lastEmit>>
  BY DEF TypeOK, CreateFails, Without
<1>3. TypeOK'
  BY <1>1, TimeType, FreshType, PublisherAssumption
     DEF TypeOK, CreateFails, Without, EventName
<1>4. NoEventSkipped'
  BY <1>1, <1>2 DEF NoEventSkipped, CopyInv, AdvanceInv, CopyOk, EventName
<1>5. CountInv'
  BY <1>1, <1>2 DEF CountInv, CountOk
<1>6. PcInv'
  BY <1>1, <1>2 DEF PcInv
<1>7. CopyInv'
  BY <1>1, <1>2 DEF CopyInv, PcInv, AdvanceInv, CopyOk
<1>8. DueInv'
  BY <1>1, <1>2 DEF DueInv, PcInv, CountInv, NoEventSkipped, DueOk, CountOk, EventName
<1>9. AdvanceInv'
  BY <1>1, <1>2 DEF AdvanceInv, PcInv, CopyInv, CopyOk, EventName
<1>10. SpacingInv'
  BY <1>1, <1>2 DEF SpacingInv, PcInv, AdvanceInv, SpacingOk
<1>11. QueueInv'
  BY <1>1, <1>2 DEF QueueInv
<1>12. ToldInv'
  BY <1>1, <1>2
     DEF ToldInv, PcInv, CopyInv, AdvanceInv, QueueInv, SpacingInv, CountInv, CopyOk,
         SpacingOk, CountOk, Told
<1> QED BY <1>3, <1>4, <1>5, <1>6, <1>7, <1>8, <1>9, <1>10, <1>11, <1>12

(* A step that leaves all variables alone.                                 *)
LEMMA StutterKeeps ==
  ASSUME PublisherInv, UNCHANGED publisherVars
  PROVE  PublisherInv'
<1> USE DEF publisherVars, thread, history, PublisherInv
<1>1. TypeOK' /\ NoEventSkipped' /\ CountInv' /\ PcInv' /\ CopyInv' /\ DueInv'
  BY DEF TypeOK, NoEventSkipped, CountInv, CountOk, PcInv, CopyInv, CopyOk, DueInv, DueOk
<1>2. AdvanceInv' /\ SpacingInv' /\ QueueInv' /\ ToldInv'
  BY DEF AdvanceInv, EventName, SpacingInv, SpacingOk, QueueInv, ToldInv, Told
<1> QED BY <1>1, <1>2

-----------------------------------------------------------------------------
(* The theorems.                                                           *)

(* The invariant holds whatever the watch and the cycle do between the     *)
(* steps of a publication.                                                 *)
THEOREM PublisherInvariant == PublisherSpec => []PublisherInv
<1>1. PublisherInit => PublisherInv
  <2> SUFFICES ASSUME PublisherInit PROVE PublisherInv
    OBVIOUS
  <2>1. DOMAIN schedules = {} /\ DOMAIN due = {}
    BY DEF PublisherInit
  <2>2. MaxTime \in Nat \ {0}
    BY PublisherAssumption
  <2>3. 1 \in 1..MaxTime
    BY <2>2
  <2>4. TypeOK
    BY <2>1, <2>2, <2>3, TimeType DEF PublisherInit, TypeOK, Place
  <2>5. NoEventSkipped /\ CountInv /\ PcInv /\ CopyInv /\ DueInv /\ AdvanceInv /\ SpacingInv
    BY <2>1 DEF PublisherInit, NoEventSkipped, CountInv, PcInv, CopyInv, DueInv, AdvanceInv, SpacingInv
  <2>6. QueueInv /\ ToldInv
    BY <2>1 DEF PublisherInit, QueueInv, ToldInv
  <2> QED BY <2>4, <2>5, <2>6 DEF PublisherInv
<1>2. PublisherInv /\ [PublisherNext]_publisherVars => PublisherInv'
  <2> SUFFICES ASSUME PublisherInv, [PublisherNext]_publisherVars PROVE PublisherInv'
    OBVIOUS
  <2>1. CASE Snapshot \/ Collect \/ Advance \/ Published \/ Tick
    BY <2>1, SnapshotKeeps, CollectKeeps, AdvanceKeeps, PublishedKeeps, TickKeeps
  <2>2. ASSUME NEW p \in Pod, Enqueue(p) \/ Dequeue(p) \/ CycleStep(p)
        PROVE  PublisherInv'
    BY <2>2, EnqueueKeeps, DequeueKeeps, CycleStepKeeps
  <2>3. ASSUME NEW p \in Pod, Silence(p) \/ Create(p) \/ CreateFails(p)
        PROVE  PublisherInv'
    BY <2>3, SilenceKeeps, CreateKeeps, CreateFailsKeeps
  <2>4. CASE UNCHANGED publisherVars
    BY <2>4, StutterKeeps
  <2> QED BY <2>1, <2>2, <2>3, <2>4 DEF PublisherNext
<1> QED BY <1>1, <1>2, PTL DEF PublisherSpec

(* The variables have their types, and only a batch pod whose milestones   *)
(* are all out has no next event (PodEventSchedule).                       *)
THEOREM PublisherTypes == PublisherSpec => []TypeOK
<1>1. PublisherInv => TypeOK
  BY DEF PublisherInv
<1> QED BY <1>1, PublisherInvariant, PTL

(* The events of a pod are numbered without a gap (publish_due).           *)
THEOREM EventsWithoutGap == PublisherSpec => []NoEventSkipped
<1>1. PublisherInv => NoEventSkipped
  BY DEF PublisherInv
<1> QED BY <1>1, PublisherInvariant, PTL

(* A pod that waits knows where it stands when a publication ends, if it   *)
(* was its group's candidate whenever it was due: the pods of a queue      *)
(* behind its candidate are not told (publish_due, WaitingPodsTold).       *)
THEOREM WaitingToldWhenIdle == PublisherSpec => []WaitingPodsTold
<1>1. PublisherInv => WaitingPodsTold
  <2> SUFFICES ASSUME PublisherInv, pc = "idle", NEW p \in waited \ (overlooked \cup refused)
               PROVE  Told(p)
    BY DEF WaitingPodsTold, Told
  <2>1. DOMAIN due = {}
    BY DEF PublisherInv, PcInv
  <2> QED BY <2>1 DEF PublisherInv, ToldInv
<1> QED BY <1>1, PublisherInvariant, PTL
=============================================================================
