------------------------------- MODULE JobPool -------------------------------
(***************************************************************************)
(* The abstract specification of the scheduler: a bag of jobs.  Submitting *)
(* adds a copy, removing takes one away, and a cycle hands its caller a    *)
(* selection of the queued jobs, one copy each, and nothing else.  No job  *)
(* is created, lost or handed out twice; which of them goes first is left  *)
(* to the policy that Scheduler adds.                                      *)
(***************************************************************************)
EXTENDS DispatchRule

VARIABLES
  pool,    \* how many copies of each job are queued
  out      \* the jobs the last cycle returned and the caller has not answered

vars == <<pool, out>>

Queued == {j \in JobId : pool[j] > 0}

TypeOK ==
  /\ pool \in [JobId -> Nat]
  /\ out \subseteq JobId

Init ==
  /\ pool = [j \in JobId |-> 0]
  /\ out = {}

(* A job may be submitted again while a copy is queued: submit() does not  *)
(* look for one.                                                           *)
Submit(j) ==
  /\ pool' = [pool EXCEPT ![j] = @ + 1]
  /\ UNCHANGED out

Remove(j) ==
  /\ pool[j] > 0
  /\ pool' = [pool EXCEPT ![j] = @ - 1]
  /\ UNCHANGED out

Dispatch ==
  /\ out = {}
  /\ Queued # {}
  /\ \E D \in Selections(Queued) :
       /\ out' = D
       /\ pool' = [j \in JobId |-> pool[j] - (IF j \in D THEN 1 ELSE 0)]

(* The caller admits (or drops) a job it was handed, or puts it back.      *)
Accept(j) ==
  /\ j \in out
  /\ out' = out \ {j}
  /\ UNCHANGED pool

PutBack(j) ==
  /\ j \in out
  /\ out' = out \ {j}
  /\ pool' = [pool EXCEPT ![j] = @ + 1]

(* An exception ends the caller's loop: what it held is never answered.    *)
Abandon ==
  /\ out' = {}
  /\ UNCHANGED pool

Next ==
  \/ Dispatch \/ Abandon
  \/ \E j \in JobId : Submit(j) \/ Remove(j) \/ Accept(j) \/ PutBack(j)

Spec == Init /\ [][Next]_vars
=============================================================================
