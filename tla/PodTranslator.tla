---------------------------- MODULE PodTranslator ----------------------------
(***************************************************************************)
(* k8s/pod_translator.py: which pods are taken, the lane of a pod, and the *)
(* patch that admits it, beside the other controllers that may change the  *)
(* pod while it is gated.                                                  *)
(*                                                                         *)
(* A gpu-class label is a Spelling; lanes are made from lower case, so     *)
(* several spellings may name one lane (LaneOf), while the cluster         *)
(* compares selectors, taints and tolerations letter by letter.  The       *)
(* patch is made from the copy of the pod that was enqueued.               *)
(***************************************************************************)
EXTENDS Integers, FiniteSets

CONSTANTS
  Spelling, Lane,
  NoLabel, NoLane, NoPod,
  LaneOf,       \* [Spelling -> Lane \cup {NoLane}], lane_for_gpu_class
  Ours,         \* SCHEDULING_GATE_NAME
  OtherGate,    \* the gate of another controller
  Effect,       \* the effects a toleration may have
  NoSchedule    \* the effect of the gpu-class taint

Toleration == [value : Spelling, effect : Effect]
PodObject ==
  [label : Spelling \cup {NoLabel}, phase : {"Pending", "Running"}, assigned : BOOLEAN,
   gates : SUBSET {Ours, OtherGate}, selector : Spelling \cup {NoLabel},
   tolerations : SUBSET Toleration]

ASSUME TranslatorAssumption ==
  /\ NoLabel \notin Spelling /\ NoLane \notin Lane
  /\ NoPod \notin PodObject
  /\ LaneOf \in [Spelling -> Lane \cup {NoLane}]
  /\ Ours # OtherGate
  /\ NoSchedule \in Effect

VARIABLES
  pod,      \* the pod in the API server; NoPod before it is made
  copy,     \* the pod as it was enqueued, in _pending; NoPod before
  patched,
  since     \* history: the tolerations other controllers added after that

translatorVars == <<pod, copy, patched, since>>

-----------------------------------------------------------------------------
(* The translator.                                                         *)

(* _gpu_lane; a pod without a lane is ignored.                             *)
LaneOfPod(p) == IF p.label = NoLabel THEN NoLane ELSE LaneOf[p.label]

NeedsScheduling(p) == p.phase = "Pending" /\ ~p.assigned /\ Ours \in p.gates

(* Mutant of AlreadyTolerated: looks at the key only.                      *)
ToleratedByKey(p) == p.tolerations # {}

AlreadyTolerated(p) == \E t \in p.tolerations : t.value = p.label

(* The fields of admission_patch: a set of one value, or {} for a field    *)
(* that the patch leaves out.                                              *)

(* Mutant of SelectorPatch: adds an entry but corrects none.               *)
SelectorIfNone(p) == IF p.selector = NoLabel THEN {p.label} \ {NoLabel} ELSE {}

SelectorPatch(p) == IF p.selector # p.label THEN {p.label} \ {NoLabel} ELSE {}

ClassToleration(p) == [value |-> p.label, effect |-> NoSchedule]

(* Mutant of TolerationsPatch: sends the new toleration only.              *)
TolerationAlone(p) ==
  IF p.label # NoLabel /\ ~AlreadyTolerated(p) THEN {{ClassToleration(p)}} ELSE {}

TolerationsPatch(p) ==
  IF p.label # NoLabel /\ ~AlreadyTolerated(p)
    THEN {p.tolerations \cup {ClassToleration(p)}} ELSE {}

(* The strategic merge of the API server: the gate is deleted by name, the *)
(* selector's entry is set, the list of tolerations is replaced.           *)
Sent(field, value) == IF field = {} THEN value ELSE CHOOSE v \in field : TRUE

AdmissionPatch(p, from) ==
  [p EXCEPT !.gates = @ \ {Ours},
            !.selector = Sent(SelectorPatch(from), @),
            !.tolerations = Sent(TolerationsPatch(from), @)]

-----------------------------------------------------------------------------
TranslatorInit ==
  /\ pod = NoPod
  /\ copy = NoPod
  /\ patched = FALSE
  /\ since = {}

(* A pod has gates only as long as it is Pending and on no node.           *)
Arrive ==
  /\ pod = NoPod
  /\ pod' \in {p \in PodObject :
       /\ p.gates # {} => p.phase = "Pending" /\ ~p.assigned
       /\ p.phase = "Running" => p.assigned}
  /\ UNCHANGED <<copy, patched, since>>

(* _handle_pod_event and _enqueue as far as the pod itself decides; what   *)
(* is pending stays the first copy, an update of it returns early.         *)
Take ==
  /\ pod # NoPod /\ copy = NoPod
  /\ NeedsScheduling(pod) /\ LaneOfPod(pod) # NoLane
  /\ copy' = pod
  /\ UNCHANGED <<pod, patched, since>>

(* The dispatch of _run_cycle, with _admit_pod.                            *)
Admit ==
  /\ copy # NoPod /\ ~patched
  /\ pod' = AdmissionPatch(pod, copy)
  /\ patched' = TRUE
  /\ UNCHANGED <<copy, since>>

OtherTolerates(t) ==
  /\ pod # NoPod /\ Ours \in pod.gates
  /\ t \notin pod.tolerations
  /\ pod' = [pod EXCEPT !.tolerations = @ \cup {t}]
  /\ since' = IF copy = NoPod THEN {} ELSE since \cup {t}
  /\ UNCHANGED <<copy, patched>>

OtherUngates ==
  /\ pod # NoPod /\ OtherGate \in pod.gates
  /\ pod' = [pod EXCEPT !.gates = @ \ {OtherGate}]
  /\ UNCHANGED <<copy, patched, since>>

TranslatorNext ==
  \/ Arrive \/ Take \/ Admit \/ OtherUngates
  \/ \E t \in Toleration : OtherTolerates(t)

TranslatorSpec == TranslatorInit /\ [][TranslatorNext]_translatorVars

-----------------------------------------------------------------------------
(* Properties.                                                             *)

(* Kubernetes places p on a node labelled and tainted with spelling s.     *)
Fits(p, s) ==
  /\ p.gates = {}
  /\ p.selector \in {NoLabel, s}
  /\ [value |-> s, effect |-> NoSchedule] \in p.tolerations

(* An admitted pod can be placed once no other controller holds it: on the *)
(* nodes that spell the class as it does, unless it came with a toleration *)
(* of the class for another effect, which admission_patch takes for the    *)
(* one that is needed.  Nothing other controllers do in between makes this *)
(* worse.                                                                  *)
AdmittedPodLands ==
  /\ patched /\ pod.gates = {}
  /\ \A t \in copy.tolerations : t.value = pod.label => t.effect = NoSchedule
  => Fits(pod, pod.label)

(* It takes its GPUs from the lane whose capacity it was charged to,       *)
(* whatever selector and tolerations it came with.                         *)
AdmittedPodStaysInLane ==
  patched => \A s \in Spelling : Fits(pod, s) => LaneOf[s] = LaneOfPod(copy)

(* Admitting takes nothing else from a pod: the gates of others stay, and  *)
(* no toleration goes except one added after the copy was made, which the  *)
(* list made from the copy overwrites.                                     *)
PatchKeepsTheRest ==
  [][ patched' # patched =>
      /\ pod.gates \ {Ours} = pod'.gates
      /\ pod.tolerations \ pod'.tolerations \subseteq since ]_translatorVars
=============================================================================
