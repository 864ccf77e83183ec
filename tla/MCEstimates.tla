----------------------------- MODULE MCEstimates -----------------------------
(* The publication of events and the three parts that work on values share  *)
(* no state.  They are checked side by side: each behaviour uses one.       *)
EXTENDS WaitEstimator, ResidencyStats, PodTranslator, MCEventPublisher

CONSTANTS small, Small, large, lane1, lane2, NoExecute

Jumps(a, b, c) ==
  [t \in 0..TMax |-> IF t >= c THEN 4 ELSE IF t >= b THEN 2 ELSE IF t >= a THEN 1 ELSE 0]
MCCurves == {Jumps(a, b, c) : a, b, c \in {0, 3, 9}}
MCResidencies == {-1, 0, 1, 2, 3}
MCLaneOf == (small :> lane1) @@ (Small :> lane1) @@ (large :> lane2)

Init == EstimatorInit /\ ResidencyInit /\ TranslatorInit /\ PublisherInit

Unused == [estimator |-> estimate = NoEstimate, translator |-> pod = NoPod,
           residency |-> /\ rpc = "idle" /\ seen = <<>> /\ profile = NoProfile
                         /\ prior_weight = 0,
           publisher |-> PublisherInit]

Next ==
  \/ /\ Unused.residency /\ Unused.translator /\ Unused.publisher
     /\ EstimatorNext /\ UNCHANGED <<residencyVars, translatorVars, publisherVars>>
  \/ /\ Unused.estimator /\ Unused.translator /\ Unused.publisher
     /\ ResidencyNext /\ UNCHANGED <<estimate, translatorVars, publisherVars>>
  \/ /\ Unused.estimator /\ Unused.residency /\ Unused.publisher
     /\ TranslatorNext /\ UNCHANGED <<estimate, residencyVars, publisherVars>>
  \/ /\ Unused.estimator /\ Unused.residency /\ Unused.translator
     /\ PublisherNext /\ UNCHANGED <<estimate, residencyVars, translatorVars>>

Spec == Init /\ [][Next]_<<estimate, residencyVars, translatorVars, publisherVars>>
=============================================================================
