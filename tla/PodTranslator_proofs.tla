------------------------ MODULE PodTranslator_proofs ------------------------
(***************************************************************************)
(* The properties of PodTranslator, for any lanes, spellings and effects.  *)
(***************************************************************************)
EXTENDS PodTranslator, TLAPS

(* A field that the patch leaves out keeps its value (the strategic merge  *)
(* of admission_patch).                                                    *)
LEMMA SentNothing == ASSUME NEW value PROVE Sent({}, value) = value
BY DEF Sent

(* And one that it has is set.                                             *)
LEMMA SentOne == ASSUME NEW new, NEW value PROVE Sent({new}, value) = new
BY DEF Sent

-----------------------------------------------------------------------------
(* The invariant.                                                          *)

TranslatorTypeOK ==
  /\ pod \in PodObject \cup {NoPod}
  /\ copy \in PodObject \cup {NoPod}
  /\ patched \in BOOLEAN

(* What was enqueued is a pod of a lane, and its label does not change.    *)
CopyOfPod ==
  copy # NoPod =>
    /\ pod # NoPod
    /\ copy.label \in Spelling
    /\ pod.label = copy.label

(* Until the patch the copy is old only by tolerations.                    *)
OldByTolerations ==
  copy # NoPod /\ ~patched =>
    /\ pod.selector = copy.selector
    /\ copy.tolerations \subseteq pod.tolerations
    /\ pod.tolerations \subseteq copy.tolerations \cup since

(* After it the pod selects its class and tolerates it, for some effect.   *)
PatchedForClass ==
  patched =>
    /\ copy # NoPod
    /\ pod.selector = copy.label
    /\ \/ ClassToleration(copy) \in pod.tolerations
       \/ AlreadyTolerated(copy) /\ copy.tolerations \subseteq pod.tolerations

TranslatorInv ==
  /\ TranslatorTypeOK
  /\ CopyOfPod
  /\ OldByTolerations
  /\ PatchedForClass

-----------------------------------------------------------------------------
(* The patch of a pod whose copy has a class: what admission_patch makes   *)
(* of selector and tolerations.                                            *)
LEMMA PatchOfClass ==
  ASSUME TranslatorAssumption, TranslatorInv, copy # NoPod, ~patched,
         NEW q, q = AdmissionPatch(pod, copy)
  PROVE  /\ q \in PodObject
         /\ q.label = pod.label
         /\ q.gates = pod.gates \ {Ours}
         /\ q.selector = copy.label
         /\ \/ /\ AlreadyTolerated(copy)
               /\ q.tolerations = pod.tolerations
            \/ /\ ~AlreadyTolerated(copy)
               /\ q.tolerations = copy.tolerations \cup {ClassToleration(copy)}
<1>1. /\ pod \in PodObject /\ copy \in PodObject
      /\ copy.label \in Spelling /\ copy.label # NoLabel
      /\ pod.label = copy.label /\ pod.selector = copy.selector
  BY DEF TranslatorAssumption, TranslatorInv, TranslatorTypeOK, CopyOfPod, OldByTolerations
<1>2. Sent(SelectorPatch(copy), pod.selector) = copy.label
  <2>1. CASE copy.selector = copy.label
    <3>1. SelectorPatch(copy) = {}
      BY <2>1 DEF SelectorPatch
    <3> QED BY <3>1, <2>1, <1>1, SentNothing
  <2>2. CASE copy.selector # copy.label
    <3>1. SelectorPatch(copy) = {copy.label}
      BY <2>2, <1>1 DEF SelectorPatch
    <3> QED BY <3>1, SentOne
  <2> QED BY <2>1, <2>2
<1> DEFINE tolerations == Sent(TolerationsPatch(copy), pod.tolerations)
<1>3. IF AlreadyTolerated(copy) THEN tolerations = pod.tolerations
      ELSE tolerations = copy.tolerations \cup {ClassToleration(copy)}
  <2>1. CASE AlreadyTolerated(copy)
    <3>1. TolerationsPatch(copy) = {}
      BY <2>1 DEF TolerationsPatch
    <3> QED BY <3>1, <2>1, SentNothing
  <2>2. CASE ~AlreadyTolerated(copy)
    <3>1. TolerationsPatch(copy) = {copy.tolerations \cup {ClassToleration(copy)}}
      BY <2>2, <1>1 DEF TolerationsPatch
    <3> QED BY <3>1, <2>2, SentOne
  <2> QED BY <2>1, <2>2
<1>4. q = [pod EXCEPT !.gates = @ \ {Ours}, !.selector = copy.label,
                      !.tolerations = tolerations]
  BY <1>2 DEF AdmissionPatch
<1>5. tolerations \in SUBSET Toleration
  <2>1. /\ pod.tolerations \in SUBSET Toleration
        /\ copy.tolerations \in SUBSET Toleration
    BY <1>1 DEF PodObject
  <2>2. ClassToleration(copy) \in Toleration
    BY <1>1 DEF ClassToleration, Toleration, TranslatorAssumption
  <2> QED BY <2>1, <2>2, <1>3
<1>6. /\ q.label = pod.label /\ q.gates = pod.gates \ {Ours}
      /\ q.selector = copy.label /\ q.tolerations = tolerations
  BY <1>1, <1>4 DEF PodObject
<1>7. q \in PodObject
  BY <1>1, <1>4, <1>5 DEF PodObject
<1> QED BY <1>3, <1>6, <1>7

(* A patched pod: its selector is its class and it tolerates the class for *)
(* some effect (admission_patch).                                          *)
LEMMA AdmitKeeps ==
  ASSUME TranslatorAssumption, TranslatorInv, Admit
  PROVE  TranslatorInv'
<1> DEFINE q == AdmissionPatch(pod, copy)
<1>1. /\ copy # NoPod /\ ~patched
      /\ pod' = q /\ patched' = TRUE /\ copy' = copy /\ since' = since
  BY DEF Admit
<1>2. /\ copy.tolerations \subseteq pod.tolerations
      /\ pod # NoPod /\ copy.label \in Spelling /\ pod.label = copy.label
      /\ copy \in PodObject
  BY <1>1 DEF TranslatorInv, TranslatorTypeOK, CopyOfPod, OldByTolerations
<1>3. /\ q \in PodObject /\ q.label = pod.label /\ q.selector = copy.label
      /\ \/ AlreadyTolerated(copy) /\ q.tolerations = pod.tolerations
         \/ q.tolerations = copy.tolerations \cup {ClassToleration(copy)}
  <2> HIDE DEF q
  <2>1. q = AdmissionPatch(pod, copy)
    BY DEF q
  <2> QED BY <1>1, <2>1, PatchOfClass
<1> HIDE DEF q
<1>4. TranslatorTypeOK'
  BY <1>1, <1>2, <1>3 DEF TranslatorTypeOK
<1>5. CopyOfPod'
  BY <1>1, <1>2, <1>3 DEF CopyOfPod, TranslatorAssumption
<1>6. OldByTolerations'
  BY <1>1 DEF OldByTolerations
<1>7. PatchedForClass'
  BY <1>1, <1>2, <1>3 DEF PatchedForClass, AlreadyTolerated, ClassToleration
<1> QED BY <1>4, <1>5, <1>6, <1>7 DEF TranslatorInv

(* What other controllers may add leaves the copy old only by tolerations. *)
LEMMA OtherToleratesKeeps ==
  ASSUME TranslatorAssumption, TranslatorInv,
         NEW t \in Toleration, OtherTolerates(t)
  PROVE  TranslatorInv'
<1> DEFINE q == [pod EXCEPT !.tolerations = @ \cup {t}]
<1>1. /\ pod # NoPod /\ pod' = q /\ copy' = copy /\ patched' = patched
      /\ copy # NoPod => since' = since \cup {t}
  BY DEF OtherTolerates
<1>2. pod \in PodObject
  BY <1>1 DEF TranslatorInv, TranslatorTypeOK
<1>3. /\ q \in PodObject /\ q.label = pod.label /\ q.selector = pod.selector
      /\ q.tolerations = pod.tolerations \cup {t}
  BY <1>2 DEF PodObject
<1> HIDE DEF q
<1>4. TranslatorTypeOK'
  BY <1>1, <1>3 DEF TranslatorInv, TranslatorTypeOK
<1>5. CopyOfPod'
  BY <1>1, <1>3 DEF TranslatorInv, CopyOfPod, TranslatorAssumption
<1>6. OldByTolerations'
  BY <1>1, <1>3 DEF TranslatorInv, OldByTolerations
<1>7. PatchedForClass'
  BY <1>1, <1>3 DEF TranslatorInv, PatchedForClass, AlreadyTolerated, ClassToleration
<1> QED BY <1>4, <1>5, <1>6, <1>7 DEF TranslatorInv

(* The other gate going changes nothing that the patch looks at.           *)
LEMMA OtherUngatesKeeps ==
  ASSUME TranslatorAssumption, TranslatorInv, OtherUngates
  PROVE  TranslatorInv'
<1> DEFINE q == [pod EXCEPT !.gates = @ \ {OtherGate}]
<1>1. /\ pod # NoPod /\ pod' = q /\ copy' = copy /\ patched' = patched /\ since' = since
  BY DEF OtherUngates
<1>2. pod \in PodObject
  BY <1>1 DEF TranslatorInv, TranslatorTypeOK
<1>3. /\ q \in PodObject /\ q.label = pod.label /\ q.selector = pod.selector
      /\ q.tolerations = pod.tolerations
  BY <1>2 DEF PodObject
<1> HIDE DEF q
<1> QED BY <1>1, <1>3 DEF TranslatorInv, TranslatorTypeOK, CopyOfPod, OldByTolerations,
           PatchedForClass, AlreadyTolerated, ClassToleration, TranslatorAssumption

(* A pod taken has a lane, therefore a label (_enqueue, _gpu_lane).        *)
LEMMA TakeKeeps ==
  ASSUME TranslatorAssumption, TranslatorInv, Take
  PROVE  TranslatorInv'
<1>1. /\ pod # NoPod /\ copy = NoPod /\ copy' = pod
      /\ pod' = pod /\ patched' = patched /\ since' = since
      /\ LaneOfPod(pod) # NoLane
  BY DEF Take
<1>2. pod \in PodObject /\ ~patched /\ patched \in BOOLEAN
  BY <1>1 DEF TranslatorInv, TranslatorTypeOK, PatchedForClass
<1>3. pod.label \in Spelling
  BY <1>1, <1>2 DEF LaneOfPod, PodObject
<1> QED BY <1>1, <1>2, <1>3 DEF TranslatorInv, TranslatorTypeOK, CopyOfPod,
           OldByTolerations, PatchedForClass

(* The invariant, from which the three theorems follow.                    *)
THEOREM TranslatorInvariant == TranslatorSpec => []TranslatorInv
<1> USE TranslatorAssumption
<1>1. TranslatorInit => TranslatorInv
  BY DEF TranslatorInit, TranslatorInv, TranslatorTypeOK, CopyOfPod, OldByTolerations,
     PatchedForClass
<1>2. TranslatorInv /\ [TranslatorNext]_translatorVars => TranslatorInv'
  <2> SUFFICES ASSUME TranslatorInv, [TranslatorNext]_translatorVars PROVE TranslatorInv'
    OBVIOUS
  <2>1. CASE Arrive
    <3>1. /\ pod = NoPod /\ copy = NoPod /\ ~patched
          /\ pod' \in PodObject /\ copy' = copy /\ patched' = patched /\ since' = since
      BY <2>1 DEF Arrive, TranslatorInv, CopyOfPod, PatchedForClass
    <3> QED BY <3>1 DEF TranslatorInv, TranslatorTypeOK, CopyOfPod, OldByTolerations,
               PatchedForClass
  <2>2. CASE Take
    BY <2>2, TakeKeeps
  <2>3. CASE Admit
    BY <2>3, AdmitKeeps
  <2>4. CASE OtherUngates
    BY <2>4, OtherUngatesKeeps
  <2>5. CASE \E t \in Toleration : OtherTolerates(t)
    BY <2>5, OtherToleratesKeeps
  <2>6. CASE UNCHANGED translatorVars
    BY <2>6 DEF translatorVars, TranslatorInv, TranslatorTypeOK, CopyOfPod, OldByTolerations,
       PatchedForClass, AlreadyTolerated, ClassToleration
  <2> QED BY <2>1, <2>2, <2>3, <2>4, <2>5, <2>6 DEF TranslatorNext
<1> QED BY <1>1, <1>2, PTL DEF TranslatorSpec

-----------------------------------------------------------------------------
(* The theorems.                                                           *)

(* Whatever selector and tolerations a pod came with, once admitted it     *)
(* fits only nodes of the lane it was charged to (admission_patch).        *)
THEOREM AdmittedStaysInLane == TranslatorSpec => []AdmittedPodStaysInLane
<1>1. TranslatorAssumption /\ TranslatorInv => AdmittedPodStaysInLane
  <2> SUFFICES ASSUME TranslatorAssumption, TranslatorInv, patched,
                      NEW s \in Spelling, Fits(pod, s)
               PROVE  LaneOf[s] = LaneOfPod(copy)
    BY DEF AdmittedPodStaysInLane
  <2>1. pod.selector = copy.label /\ copy.label \in Spelling
    BY DEF TranslatorInv, PatchedForClass, CopyOfPod
  <2>2. s = copy.label
    BY <2>1 DEF Fits, TranslatorAssumption
  <2> QED BY <2>1, <2>2 DEF LaneOfPod, TranslatorAssumption
<1> QED BY <1>1, TranslatorInvariant, TranslatorAssumption, PTL

(* An admitted pod that no other gate holds fits the nodes of its class,   *)
(* unless it came tolerating the class for another effect                  *)
(* (admission_patch).                                                      *)
THEOREM AdmittedLands == TranslatorSpec => []AdmittedPodLands
<1>1. TranslatorInv => AdmittedPodLands
  <2> SUFFICES ASSUME TranslatorInv, patched, pod.gates = {},
                      \A t \in copy.tolerations :
                        t.value = pod.label => t.effect = NoSchedule
               PROVE  Fits(pod, pod.label)
    BY DEF AdmittedPodLands
  <2>1. /\ copy \in PodObject /\ pod.label = copy.label /\ pod.selector = copy.label
        /\ \/ ClassToleration(copy) \in pod.tolerations
           \/ AlreadyTolerated(copy) /\ copy.tolerations \subseteq pod.tolerations
    BY DEF TranslatorInv, TranslatorTypeOK, PatchedForClass, CopyOfPod
  <2>2. ClassToleration(copy) \in pod.tolerations
    <3>1. CASE AlreadyTolerated(copy) /\ copy.tolerations \subseteq pod.tolerations
      <4>1. PICK t \in copy.tolerations : t.value = copy.label
        BY <3>1 DEF AlreadyTolerated
      <4>2. t \in Toleration /\ t.effect = NoSchedule
        BY <2>1, <4>1 DEF PodObject
      <4>3. t = ClassToleration(copy)
        BY <4>1, <4>2 DEF Toleration, ClassToleration
      <4> QED BY <3>1, <4>3
    <3> QED BY <2>1, <3>1
  <2> QED BY <2>1, <2>2 DEF Fits, ClassToleration
<1> QED BY <1>1, TranslatorInvariant, PTL

(* The patch takes nothing from the pod but the gate and tolerations that  *)
(* were added behind the copy's back (admission_patch from _pending).      *)
THEOREM AdmissionKeepsTheRest == TranslatorSpec => PatchKeepsTheRest
<1> USE TranslatorAssumption
<1>1. TranslatorInv /\ [TranslatorNext]_translatorVars =>
        [ patched' # patched =>
            /\ pod.gates \ {Ours} = pod'.gates
            /\ pod.tolerations \ pod'.tolerations \subseteq since ]_translatorVars
  <2> SUFFICES ASSUME TranslatorInv, TranslatorNext, patched' # patched
               PROVE  /\ pod.gates \ {Ours} = pod'.gates
                      /\ pod.tolerations \ pod'.tolerations \subseteq since
    BY DEF translatorVars
  <2>1. Admit
    BY DEF TranslatorNext, Arrive, Take, OtherUngates, OtherTolerates
  <2>2. /\ copy # NoPod /\ ~patched /\ pod' = AdmissionPatch(pod, copy)
        /\ pod.tolerations \subseteq copy.tolerations \cup since
    BY <2>1 DEF Admit, TranslatorInv, OldByTolerations
  <2>3. /\ pod'.gates = pod.gates \ {Ours}
        /\ \/ pod'.tolerations = pod.tolerations
           \/ pod'.tolerations = copy.tolerations \cup {ClassToleration(copy)}
    BY <2>2, PatchOfClass
  <2> QED BY <2>2, <2>3
<1> QED BY <1>1, TranslatorInvariant, PTL DEF TranslatorSpec, PatchKeepsTheRest
=============================================================================
