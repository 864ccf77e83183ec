-------------------------- MODULE MCEventPublisher --------------------------
(* A small instance of EventPublisher for TLC: two pods in one queue, one   *)
(* of them batch, and a namesake of the other in another queue.             *)
EXTENDS EventPublisher, TLC

CONSTANTS q1, q2, q3, here, there

MCNameOf == (q1 :> here) @@ (q2 :> there) @@ (q3 :> here)
MCQueueOf == (q1 :> here) @@ (q2 :> here) @@ (q3 :> there)
=============================================================================
