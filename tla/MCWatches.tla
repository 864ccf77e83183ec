----------------------------- MODULE MCWatches ------------------------------
(* Small instances of Watches for TLC: every pod runs on the first node.    *)
EXTENDS Watches, TLC

CONSTANTS p, m, n, x, y

MCNodeOf == [r \in Pod |-> n]
(* Ready in a lane, drained, relabelled for the other lane or for none.     *)
MCNodeStates ==
  {[lane |-> l, active |-> TRUE] : l \in Lane \cup {NoLane}} \cup
  {[lane |-> x, active |-> FALSE]}
MCGpuCount == [r \in Node |-> IF r = n THEN 2 ELSE 1]
=============================================================================
