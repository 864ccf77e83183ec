----------------------------- MODULE MCScheduler -----------------------------
(* Small instances of Scheduler for TLC: one lane, three groups, two users. *)
EXTENDS Scheduler, TLC

CONSTANTS j1, j2, j3, j4, lane, f, g, h, u, v

(* Three groups compete for the two places of a cycle, and in group h two   *)
(* users for its one; j1 needs the whole lane, and j2 is a batch job.       *)
MCLaneOf == [j \in JobId |-> lane]
MCGroupOf == j1 :> f @@ j2 :> g @@ j3 :> h @@ j4 :> h
MCUserOf == j1 :> u @@ j2 :> v @@ j3 :> u @@ j4 :> v
MCUnits == j1 :> 2 @@ j2 :> 1 @@ j3 :> 1 @@ j4 :> 1

(* One group, two users: u's first job asks for more than the lane holds    *)
(* (its node is down, say), v's job fits.                                   *)
OneGroup == j1 :> g @@ j2 :> g
TwoUsers == j1 :> u @@ j2 :> v
Oversize == j1 :> 3 @@ j2 :> 1

(* mode_weight: 1 for interactive jobs, 0.3 for batch jobs.                 *)
MCModeWeight == FALSE :> 10 @@ TRUE :> 3

(* 100 * (1 + ln(1 + w)) for interactive jobs and 100 * (1 + ln(1 + w/12))  *)
(* for batch jobs, the ratio of the half-lives being 12; w counts steps of  *)
(* ten minutes.                                                             *)
MCAgeBoost ==
  FALSE :> (0 :> 100 @@ 1 :> 169 @@ 2 :> 210) @@
  TRUE  :> (0 :> 100 @@ 1 :> 108 @@ 2 :> 115)
=============================================================================
