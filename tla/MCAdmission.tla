----------------------------- MODULE MCAdmission -----------------------------
(* Small instances of Admission for TLC: two pods of one lane that holds    *)
(* one of them at a time, each in a scheduling group of its own.            *)
EXTENDS Admission, TLC

CONSTANTS p, q, lane

MCLaneOf == [x \in Pod |-> lane]
MCGroupOf == [x \in Pod |-> x]
MCUnits == [x \in Pod |-> 1]
MCCapacity == [l \in Lane |-> 1]

Pods == Permutations(Pod)
=============================================================================
