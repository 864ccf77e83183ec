--------------------------- MODULE Scheduler_proofs ---------------------------
(***************************************************************************)
(* The scheduler (core/scheduler.py) for every set of jobs, lanes, groups  *)
(* and users, every capacity and every clock: the bookkeeping of its       *)
(* queues, the implementation of JobPool and the order of its scores.      *)
(*                                                                         *)
(* TypeOK lets a job stand in two lists, or twice in what a cycle handed   *)
(* out; answering one of two copies would then leave the job handed out,   *)
(* which is no step of JobPool.  SchedulerInv adds that every list and the *)
(* answer of a cycle are free of repetitions, that a job waits where its   *)
(* labels say and nowhere else, and that only the (finitely many) pods     *)
(* seen so far wait.  ScoreInv adds what the score reads:                  *)
(* no submit_time lies ahead of the clock, and only those pods run.        *)
(***************************************************************************)
EXTENDS Scheduler, FiniteSetTheorems, TLAPS

-----------------------------------------------------------------------------
(* Lists of jobs.                                                          *)

Jobs(s) == {s[i].job : i \in DOMAIN s}
Distinct(s) == \A i, k \in DOMAIN s : s[i].job = s[k].job => i = k

(* What a queued entry holds.                                              *)
LEMMA EntryJob == \A e \in Entry : e.job \in JobId /\ e.submit_time \in 0..MaxTime
BY DEF Entry

(* A list of jobs holds nothing but jobs.                                  *)
LEMMA EntriesOf ==
  ASSUME NEW s \in Seq(Entry), NEW e \in ToSet(s)
  PROVE  e \in Entry /\ e.submit_time \in Int
<1>1. e \in Entry
  BY DEF ToSet
<1>2. e.submit_time \in 0..MaxTime
  BY <1>1, EntryJob
<1> QED BY <1>1, <1>2

(* The list a pruned key stands for.                                       *)
LEMMA NoJobs == Jobs(<<>>) = {} /\ Distinct(<<>>) /\ <<>> \in Seq(Entry)
BY DEF Jobs, Distinct

(* submit() appends the job at the end of its user's list.                 *)
LEMMA AppendJobs ==
  ASSUME NEW s \in Seq(Entry), NEW e \in Entry
  PROVE  /\ Append(s, e) \in Seq(Entry)
         /\ ToSet(Append(s, e)) = ToSet(s) \cup {e}
         /\ Jobs(Append(s, e)) = Jobs(s) \cup {e.job}
         /\ Distinct(s) /\ e.job \notin Jobs(s) => Distinct(Append(s, e))
<1> DEFINE t == Append(s, e)
<1>1. /\ t \in Seq(Entry) /\ Len(t) = Len(s) + 1 /\ Len(s) \in Nat
      /\ DOMAIN s = 1..Len(s) /\ DOMAIN t = 1..Len(t)
      /\ \A i \in 1..Len(s) : t[i] = s[i]
      /\ t[Len(s) + 1] = e
  OBVIOUS
<1> HIDE DEF t
<1>2. Jobs(t) = Jobs(s) \cup {e.job}
  BY <1>1 DEF Jobs
<1>3. Distinct(s) /\ e.job \notin Jobs(s) => Distinct(t)
  BY <1>1 DEF Jobs, Distinct
<1>4. ToSet(t) = ToSet(s) \cup {e}
  BY <1>1 DEF ToSet
<1> QED BY <1>1, <1>2, <1>3, <1>4 DEF t

(* cycle() pops the head of a list, and the gate answers the first job it  *)
(* got.                                                                    *)
LEMMA TailJobs ==
  ASSUME NEW s \in Seq(Entry), s # <<>>
  PROVE  /\ Head(s) \in Entry /\ Head(s).job \in Jobs(s) /\ Head(s) \in ToSet(s)
         /\ Tail(s) \in Seq(Entry) /\ ToSet(Tail(s)) \subseteq ToSet(s)
         /\ Distinct(s) => /\ Jobs(Tail(s)) = Jobs(s) \ {Head(s).job}
                           /\ Distinct(Tail(s))
<1> DEFINE t == Tail(s)
<1>1. /\ t \in Seq(Entry) /\ Len(t) = Len(s) - 1 /\ Len(s) \in Nat /\ Len(s) > 0
      /\ DOMAIN s = 1..Len(s) /\ DOMAIN t = 1..Len(t)
      /\ \A i \in 1..Len(t) : t[i] = s[i + 1]
      /\ Head(s) = s[1] /\ s[1] \in Entry
  OBVIOUS
<1> HIDE DEF t
<1>2. Head(s).job \in Jobs(s)
  BY <1>1 DEF Jobs
<1>3. ASSUME Distinct(s)
      PROVE  Jobs(t) = Jobs(s) \ {Head(s).job} /\ Distinct(t)
  <2>1. Jobs(t) \subseteq Jobs(s) \ {s[1].job}
    BY <1>1, <1>3 DEF Jobs, Distinct
  <2>2. ASSUME NEW i \in 1..Len(s), s[i].job # s[1].job
        PROVE  s[i].job \in Jobs(t)
    <3>1. i # 1
      BY <2>2
    <3>2. i - 1 \in 1..Len(t) /\ i - 1 + 1 = i
      BY <1>1, <3>1
    <3>3. t[i - 1] = s[i]
      BY <1>1, <3>2
    <3>4. t[i - 1].job \in Jobs(t)
      BY <1>1, <3>2 DEF Jobs
    <3> QED BY <3>3, <3>4
  <2>3. Distinct(t)
    <3> SUFFICES ASSUME NEW i \in 1..Len(t), NEW m \in 1..Len(t), t[i].job = t[m].job
                 PROVE  i = m
      BY <1>1 DEF Distinct
    <3>1. i + 1 \in DOMAIN s /\ m + 1 \in DOMAIN s /\ s[i + 1].job = s[m + 1].job
      BY <1>1
    <3> QED BY <1>3, <3>1 DEF Distinct
  <2>4. Jobs(s) \ {s[1].job} \subseteq Jobs(t)
    BY <1>1, <2>2 DEF Jobs
  <2> QED BY <1>1, <2>1, <2>3, <2>4
<1>4. Head(s) \in ToSet(s)
  BY <1>1 DEF ToSet
<1>5. ToSet(t) \subseteq ToSet(s)
  <2>1. \A i \in 1..Len(t) : i + 1 \in 1..Len(s)
    BY <1>1
  <2> QED BY <1>1, <2>1 DEF ToSet
<1> QED BY <1>1, <1>2, <1>3, <1>4, <1>5 DEF t

(* The entries of two lists, one after the other.                          *)
LEMMA ConcatOf ==
  ASSUME NEW S, NEW a \in Seq(S), NEW b \in Seq(S)
  PROVE  /\ a \o b \in Seq(S) /\ Len(a \o b) = Len(a) + Len(b)
         /\ \A i \in 1..Len(a) : (a \o b)[i] = a[i]
         /\ \A i \in 1..Len(b) : (a \o b)[Len(a) + i] = b[i]
OBVIOUS

(* The entries of a stretch of a list.                                     *)
LEMMA SubSeqOf ==
  ASSUME NEW S, NEW s \in Seq(S), NEW m \in Int, NEW n \in Int,
         1 <= m, m <= n + 1, n <= Len(s)
  PROVE  /\ SubSeq(s, m, n) \in Seq(S) /\ Len(SubSeq(s, m, n)) = n - m + 1
         /\ \A i \in 1..n - m + 1 : SubSeq(s, m, n)[i] = s[m + i - 1]
OBVIOUS

(* remove_job keeps a user's list but for the one entry of the job.        *)
LEMMA RemoveJobs ==
  ASSUME NEW s \in Seq(Entry), NEW j \in Jobs(s), Distinct(s)
  PROVE  LET t == RemoveFirstMatch(s, LAMBDA e : e.job = j)
         IN  /\ t \in Seq(Entry) /\ ToSet(t) \subseteq ToSet(s)
             /\ Jobs(t) = Jobs(s) \ {j} /\ Distinct(t)
<1>1. PICK k \in 1..Len(s) : s[k].job = j
  BY DEF Jobs
<1> DEFINE I == {i \in 1..Len(s) : s[i].job = j}
<1>2. I = {k}
  BY <1>1 DEF Distinct
<1>3. Min(I) = k
  BY <1>2 DEF Min
<1> DEFINE a == SubSeq(s, 1, k - 1)
           b == SubSeq(s, k + 1, Len(s))
           t == a \o b
<1>4. RemoveFirstMatch(s, LAMBDA e : e.job = j) = t
  BY <1>1, <1>2, <1>3 DEF RemoveFirstMatch, SelectInSeq, RemoveAt
<1>5. /\ a \in Seq(Entry) /\ Len(a) = k - 1 /\ \A i \in 1..k - 1 : a[i] = s[i]
      /\ b \in Seq(Entry) /\ Len(b) = Len(s) - k /\ \A i \in 1..Len(s) - k : b[i] = s[k + i]
      /\ Len(s) \in Nat
  <2>1. k \in Int /\ 1 <= k /\ k <= Len(s) /\ Len(s) \in Nat
    OBVIOUS
  <2>2. /\ a \in Seq(Entry) /\ Len(a) = k - 1 - 1 + 1
        /\ \A i \in 1..k - 1 - 1 + 1 : a[i] = s[1 + i - 1]
    <3>1. 1 \in Int /\ k - 1 \in Int /\ 1 <= 1 /\ 1 <= k - 1 + 1 /\ k - 1 <= Len(s)
      BY <2>1
    <3> QED BY ONLY <3>1, s \in Seq(Entry), SubSeqOf
  <2>3. /\ b \in Seq(Entry) /\ Len(b) = Len(s) - (k + 1) + 1
        /\ \A i \in 1..Len(s) - (k + 1) + 1 : b[i] = s[k + 1 + i - 1]
    <3>1. /\ k + 1 \in Int /\ Len(s) \in Int /\ 1 <= k + 1
          /\ k + 1 <= Len(s) + 1 /\ Len(s) <= Len(s)
      BY <2>1
    <3> QED BY ONLY <3>1, s \in Seq(Entry), SubSeqOf
  <2> HIDE DEF a, b
  <2>4. k - 1 - 1 + 1 = k - 1 /\ Len(s) - (k + 1) + 1 = Len(s) - k
    BY <2>1
  <2>5. /\ \A i \in 1..k - 1 : 1 + i - 1 = i
        /\ \A i \in 1..Len(s) - k : k + 1 + i - 1 = k + i
    BY <2>1
  <2> QED BY <2>1, <2>2, <2>3, <2>4, <2>5
<1>6. /\ t \in Seq(Entry) /\ DOMAIN t = 1..Len(s) - 1
      /\ \A i \in 1..k - 1 : t[i] = s[i]
      /\ \A i \in k..Len(s) - 1 : t[i] = s[i + 1]
  <2>1. k \in Nat /\ k >= 1 /\ k <= Len(s) /\ Len(s) \in Nat
    BY <1>5
  <2> HIDE DEF a, b
  <2>2. /\ t \in Seq(Entry) /\ Len(t) = Len(a) + Len(b)
        /\ \A i \in 1..Len(a) : t[i] = a[i]
        /\ \A i \in 1..Len(b) : t[Len(a) + i] = b[i]
    <3>1. a \in Seq(Entry) /\ b \in Seq(Entry)
      BY <1>5
    <3> QED BY <3>1, ConcatOf
  <2>3. DOMAIN t = 1..Len(s) - 1
    BY <1>5, <2>1, <2>2
  <2>4. ASSUME NEW i \in k..Len(s) - 1 PROVE t[i] = s[i + 1]
    <3>1. i - (k - 1) \in 1..Len(s) - k
      BY <2>1
    <3>2. k - 1 + (i - (k - 1)) = i /\ k + (i - (k - 1)) = i + 1
      BY <2>1
    <3>3. b[i - (k - 1)] = s[i + 1]
      BY <1>5, <3>1, <3>2
    <3>4. t[k - 1 + (i - (k - 1))] = b[i - (k - 1)]
      BY <1>5, <2>1, <2>2, <3>1
    <3> QED BY <3>2, <3>3, <3>4
  <2> QED BY <1>5, <2>2, <2>3, <2>4
<1> HIDE DEF t, a, b, I
<1> DEFINE g(i) == IF i < k THEN i ELSE i + 1
(* t lists s without its k-th entry: t[i] is s[g(i)].                       *)
<1>7. ASSUME NEW i \in DOMAIN t
      PROVE  i \in Int /\ g(i) \in 1..Len(s) /\ g(i) # k /\ t[i] = s[g(i)]
  <2>1. i \in Int /\ 1 <= i /\ i <= Len(s) - 1 /\ Len(s) \in Int
        /\ k \in Int /\ 1 <= k /\ k <= Len(s)
    BY <1>5, <1>6
  <2>2. CASE i < k
    <3>1. g(i) = i /\ i \in 1..k - 1
      BY <2>1, <2>2
    <3> QED BY <1>6, <2>1, <2>2, <3>1
  <2>3. CASE i >= k
    <3>1. g(i) = i + 1 /\ i \in k..Len(s) - 1
      BY <2>1, <2>3
    <3> QED BY <1>6, <2>1, <2>3, <3>1
  <2> QED BY <2>1, <2>2, <2>3
<1>8. ASSUME NEW i \in 1..Len(s), i # k
      PROVE  \E m \in DOMAIN t : t[m] = s[i]
  <2>1. i \in Int /\ k \in Int /\ 1 <= k /\ k <= Len(s) /\ Len(s) \in Int
    BY <1>5
  <2>2. CASE i < k
    <3>1. i \in DOMAIN t /\ i \in 1..k - 1
      BY <1>6, <2>1, <2>2
    <3> QED BY <1>6, <3>1
  <2>3. CASE i > k
    <3>1. i - 1 \in k..Len(s) - 1 /\ i - 1 \in DOMAIN t /\ i - 1 + 1 = i
      BY <1>6, <2>1, <2>3
    <3> QED BY <1>6, <3>1
  <2> QED BY <1>8, <2>1, <2>2, <2>3
<1>9. DOMAIN s = 1..Len(s)
  OBVIOUS
<1>10. Jobs(t) \subseteq Jobs(s) \ {j} /\ ToSet(t) \subseteq ToSet(s)
  <2>1. \A i \in DOMAIN t : g(i) \in DOMAIN s /\ g(i) # k /\ t[i] = s[g(i)]
    BY <1>7, <1>9
  <2>2. \A i \in DOMAIN s : s[i].job = j => i = k
    BY <1>1, <1>9 DEF Distinct
  <2> HIDE DEF g
  <2> QED BY <2>1, <2>2 DEF Jobs, ToSet
<1>11. Jobs(s) \ {j} \subseteq Jobs(t)
  BY <1>1, <1>8, <1>9 DEF Jobs
<1>12. Distinct(t)
  <2> SUFFICES ASSUME NEW i \in DOMAIN t, NEW m \in DOMAIN t, t[i].job = t[m].job
               PROVE  i = m
    BY DEF Distinct
  <2>1. g(i) = g(m)
    <3>1. /\ g(i) \in DOMAIN s /\ t[i] = s[g(i)]
          /\ g(m) \in DOMAIN s /\ t[m] = s[g(m)]
      BY <1>7, <1>9
    <3> HIDE DEF g
    <3> QED BY <3>1 DEF Distinct
  <2>2. i \in Int /\ m \in Int /\ k \in Int
    BY <1>7
  <2> QED BY <2>1, <2>2
<1> QED BY <1>4, <1>6, <1>10, <1>11, <1>12

(* The jobs of a list, as the refinement of JobPool reads them.            *)
LEMMA JobsAreOut ==
  ASSUME NEW s \in Seq(Entry)
  PROVE  {e.job : e \in ToSet(s)} = Jobs(s)
BY DEF ToSet, Jobs

(* In a list without repetition, JobPool counts a job once or not at all.  *)
LEMMA CopiesOf ==
  ASSUME NEW s, NEW j, Distinct(s)
  PROVE  Cardinality({i \in DOMAIN s : s[i].job = j}) = IF j \in Jobs(s) THEN 1 ELSE 0
<1> DEFINE I == {i \in DOMAIN s : s[i].job = j}
<1>1. CASE j \in Jobs(s)
  <2>1. PICK k \in DOMAIN s : s[k].job = j
    BY <1>1 DEF Jobs
  <2>2. I = {k}
    BY <2>1 DEF Distinct
  <2> QED BY <1>1, <2>2, FS_Singleton
<1>2. CASE j \notin Jobs(s)
  <2>1. I = {}
    BY <1>2 DEF Jobs
  <2> QED BY <1>2, <2>1, FS_EmptySet
<1> QED BY <1>1, <1>2

-----------------------------------------------------------------------------
(* The bookkeeping of the queues.                                          *)

JobInv(q, out, came) ==
  /\ IsFiniteSet(came)
  /\ \A s \in Slot : Distinct(q[s])
  /\ \A s \in Slot : \A j \in Jobs(q[s]) : j \in came /\ SlotOf(j) = s
  /\ Distinct(out)
  /\ \A j \in Jobs(out) : j \in came /\ j \notin Jobs(q[SlotOf(j)])

SchedulerInv == TypeOK /\ JobInv(queues, dispatched, arrived)

(* A job's labels name a list of the scheduler.                            *)
LEMMA SlotType == ASSUME NEW j \in JobId PROVE SlotOf(j) \in Slot
BY JobAssumption DEF SlotOf, Slot

-----------------------------------------------------------------------------
(* The refinement of JobPool, operation by operation.                      *)

Pooled(q) ==
  [j \in JobId |-> Cardinality({i \in DOMAIN q[SlotOf(j)] : q[SlotOf(j)][i].job = j})]

(* The pool of a state whose lists are free of repetitions.                *)
LEMMA PooledIs ==
  ASSUME NEW q, \A s \in Slot : Distinct(q[s])
  PROVE  Pooled(q) = [j \in JobId |-> IF j \in Jobs(q[SlotOf(j)]) THEN 1 ELSE 0]
BY SlotType, CopiesOf DEF Pooled

(* submit() of a job that is not queued adds one copy of it and no other   *)
(* (Append1).                                                              *)
LEMMA AppendKeeps ==
  ASSUME NEW q \in [Slot -> Seq(Entry)], NEW e \in Entry,
         \A s \in Slot : Distinct(q[s]), e.job \notin Jobs(q[SlotOf(e.job)])
  PROVE  LET r == Append1(q, e)
         IN  /\ r \in [Slot -> Seq(Entry)]
             /\ \A s \in Slot : Distinct(r[s])
             /\ Jobs(r[SlotOf(e.job)]) = Jobs(q[SlotOf(e.job)]) \cup {e.job}
             /\ \A s \in Slot : s # SlotOf(e.job) => Jobs(r[s]) = Jobs(q[s])
             /\ Pooled(r) = [Pooled(q) EXCEPT ![e.job] = @ + 1]
<1> DEFINE r == Append1(q, e)
           k == SlotOf(e.job)
<1>1. e.job \in JobId /\ k \in Slot
  BY EntryJob, SlotType
<1>2. q[k] \in Seq(Entry)
  BY <1>1
<1>3. r = [q EXCEPT ![k] = Append(q[k], e)]
  BY DEF Append1
<1>4. /\ Append(q[k], e) \in Seq(Entry)
      /\ Jobs(Append(q[k], e)) = Jobs(q[k]) \cup {e.job}
      /\ Distinct(Append(q[k], e))
  BY <1>1, <1>2, AppendJobs
<1> HIDE DEF r
<1>5. /\ r \in [Slot -> Seq(Entry)]
      /\ r[k] = Append(q[k], e)
      /\ \A s \in Slot : s # k => r[s] = q[s]
  BY <1>1, <1>3, <1>4
<1>6. \A s \in Slot : Distinct(r[s])
  BY <1>4, <1>5
<1>7. /\ Pooled(q) = [j \in JobId |-> IF j \in Jobs(q[SlotOf(j)]) THEN 1 ELSE 0]
      /\ Pooled(r) = [j \in JobId |-> IF j \in Jobs(r[SlotOf(j)]) THEN 1 ELSE 0]
  BY <1>6, PooledIs
<1>8. \A j \in JobId : j \in Jobs(r[SlotOf(j)]) <=> j \in Jobs(q[SlotOf(j)]) \/ j = e.job
  BY <1>1, <1>4, <1>5, SlotType
<1>9. Pooled(r) = [Pooled(q) EXCEPT ![e.job] = @ + 1]
  BY <1>1, <1>7, <1>8
<1> QED BY <1>4, <1>5, <1>6, <1>9 DEF r

(* A waiting job is found in the list its labels name (remove_job).        *)
LEMMA SlotOfJob ==
  ASSUME SchedulerInv, NEW j \in JobsIn(queues)
  PROVE  j \in Jobs(queues[SlotOf(j)]) /\ SlotOf(j) \in Slot /\ j \in arrived /\ j \in JobId
<1>1. PICK s \in Slot : \E e \in ToSet(queues[s]) : e.job = j
  BY DEF JobsIn, Entries
<1>2. queues[s] \in Seq(Entry)
  BY DEF SchedulerInv, TypeOK
<1>3. j \in Jobs(queues[s])
  BY <1>1, <1>2, JobsAreOut
<1>4. j \in arrived /\ SlotOf(j) = s
  BY <1>3 DEF SchedulerInv, JobInv
<1>5. arrived \subseteq JobId
  BY DEF SchedulerInv, TypeOK
<1> QED BY <1>3, <1>4, <1>5

(* _enqueue is JobPool's Submit.                                           *)
LEMMA EnqueueDoes ==
  ASSUME SchedulerInv, NEW j \in JobId, Enqueue(j)
  PROVE  SchedulerInv' /\ Pool!Submit(j)
<1> USE DEF SchedulerInv
<1> DEFINE e == [job |-> j, submit_time |-> now]
<1>1. e \in Entry /\ e.job = j
  BY DEF TypeOK, Entry
<1>2. /\ queues' = Append1(queues, e) /\ dispatched' = dispatched
      /\ arrived' = arrived \cup {j} /\ j \notin JobsIn(queues)
  BY DEF Enqueue
<1> HIDE DEF e
<1>3. /\ SlotOf(j) \in Slot /\ queues \in [Slot -> Seq(Entry)]
      /\ j \notin Jobs(queues[SlotOf(j)])
      /\ j \notin Jobs(dispatched)
  <2>1. SlotOf(j) \in Slot /\ queues \in [Slot -> Seq(Entry)] /\ dispatched \in Seq(Entry)
    BY SlotType DEF TypeOK
  <2>2. j \notin Jobs(queues[SlotOf(j)])
    BY <1>2, <2>1 DEF JobsIn, Entries, ToSet, Jobs
  <2>3. j \notin Jobs(dispatched)
    BY <2>1, JobsAreOut DEF Enqueue
  <2> QED BY <2>1, <2>2, <2>3
<1>4. /\ queues' \in [Slot -> Seq(Entry)]
      /\ \A s \in Slot : Distinct(queues'[s])
      /\ Jobs(queues'[SlotOf(j)]) = Jobs(queues[SlotOf(j)]) \cup {j}
      /\ \A s \in Slot : s # SlotOf(j) => Jobs(queues'[s]) = Jobs(queues[s])
      /\ Pooled(queues') = [Pooled(queues) EXCEPT ![j] = @ + 1]
  <2>1. /\ e \in Entry /\ queues \in [Slot -> Seq(Entry)]
        /\ \A s \in Slot : Distinct(queues[s])
        /\ e.job \notin Jobs(queues[SlotOf(e.job)])
    BY <1>1, <1>3 DEF JobInv
  <2>2. /\ Append1(queues, e) \in [Slot -> Seq(Entry)]
        /\ \A s \in Slot : Distinct(Append1(queues, e)[s])
        /\ Jobs(Append1(queues, e)[SlotOf(e.job)]) =
             Jobs(queues[SlotOf(e.job)]) \cup {e.job}
        /\ \A s \in Slot :
             s # SlotOf(e.job) => Jobs(Append1(queues, e)[s]) = Jobs(queues[s])
        /\ Pooled(Append1(queues, e)) = [Pooled(queues) EXCEPT ![e.job] = @ + 1]
    BY ONLY <2>1, AppendKeeps
  <2> QED BY <1>1, <1>2, <2>2
<1>5. TypeOK'
  BY <1>4, JobAssumption DEF TypeOK, Enqueue, pods
<1>6. IsFiniteSet(arrived')
  <2>1. IsFiniteSet(arrived)
    BY DEF JobInv
  <2>2. IsFiniteSet(arrived \cup {j})
    BY ONLY <2>1, FS_AddElement
  <2> QED BY ONLY <1>2, <2>2
<1>7. JobInv(queues, dispatched, arrived)'
  <2>1. \A s \in Slot : \A i \in Jobs(queues'[s]) : i \in arrived' /\ SlotOf(i) = s
    BY <1>2, <1>3, <1>4 DEF JobInv
  <2>2. \A i \in Jobs(dispatched) : i \in arrived /\ i # j /\ i \in JobId
    BY <1>3, EntryJob DEF JobInv, TypeOK, Jobs
  <2>3. \A i \in Jobs(dispatched) : i \notin Jobs(queues'[SlotOf(i)])
    <3> SUFFICES ASSUME NEW i \in Jobs(dispatched) PROVE i \notin Jobs(queues'[SlotOf(i)])
      OBVIOUS
    <3>1. SlotOf(i) \in Slot /\ i # j /\ i \notin Jobs(queues[SlotOf(i)])
      BY <2>2, SlotType DEF JobInv
    <3> QED BY <1>4, <3>1
  <2>4. Distinct(dispatched)
    BY DEF JobInv
  <2> QED BY ONLY <1>2, <1>4, <1>6, <2>1, <2>2, <2>3, <2>4 DEF JobInv
<1>8. Pool!Submit(j)
  BY <1>2, <1>4 DEF Pool!Submit, Pooled
<1> QED BY <1>5, <1>7, <1>8

(* remove_job is JobPool's Remove.                                         *)
LEMMA RemoveJobDoes ==
  ASSUME SchedulerInv, NEW j \in JobId, RemoveJob(j)
  PROVE  SchedulerInv' /\ Pool!Remove(j)
<1> USE DEF SchedulerInv
<1> DEFINE k == SlotOf(j)
           t == RemoveFirstMatch(queues[k], LAMBDA e : e.job = j)
<1>1. j \in Jobs(queues[k]) /\ k \in Slot /\ queues \in [Slot -> Seq(Entry)]
  BY SlotOfJob DEF RemoveJob, TypeOK
<1>2. /\ queues' = [queues EXCEPT ![k] = t]
      /\ dispatched' = dispatched /\ arrived' = arrived
  BY DEF RemoveJob
<1>3. queues[k] \in Seq(Entry) /\ Distinct(queues[k])
  BY <1>1 DEF JobInv
<1>4. t \in Seq(Entry) /\ Jobs(t) = Jobs(queues[k]) \ {j} /\ Distinct(t)
  BY <1>1, <1>3, RemoveJobs
<1> HIDE DEF t
<1>5. /\ queues' \in [Slot -> Seq(Entry)]
      /\ queues'[k] = t
      /\ \A s \in Slot : s # k => queues'[s] = queues[s]
  BY <1>1, <1>2, <1>4
<1>6. TypeOK'
  BY <1>5 DEF TypeOK, RemoveJob, pods
<1>7. JobInv(queues, dispatched, arrived)'
  BY <1>1, <1>2, <1>4, <1>5 DEF JobInv
<1>8. /\ Pooled(queues) = [i \in JobId |-> IF i \in Jobs(queues[SlotOf(i)]) THEN 1 ELSE 0]
      /\ Pooled(queues') = [i \in JobId |-> IF i \in Jobs(queues'[SlotOf(i)]) THEN 1 ELSE 0]
  BY <1>7, PooledIs DEF JobInv
<1>9. \A i \in JobId :
        i \in Jobs(queues'[SlotOf(i)]) <=> i \in Jobs(queues[SlotOf(i)]) /\ i # j
  BY <1>1, <1>4, <1>5, SlotType
<1>10. Pooled(queues)[j] > 0 /\ Pooled(queues') = [Pooled(queues) EXCEPT ![j] = @ - 1]
  BY <1>1, <1>8, <1>9
<1> QED BY <1>2, <1>6, <1>7, <1>10 DEF Pool!Remove, Pooled

(* A ranking of the picks without repetition lists all of them (cycle's    *)
(* return value).                                                          *)
LEMMA RankingListsAll ==
  ASSUME NEW D, IsFiniteSet(D), NEW order \in SetToSeqs(D)
  PROVE  /\ order \in Seq(D) /\ DOMAIN order = 1..Len(order)
         /\ \A i, k \in DOMAIN order : order[i] = order[k] => i = k
         /\ {order[i] : i \in DOMAIN order} = D
<1> DEFINE N == 1..Cardinality(D)
<1>1. Cardinality(D) \in Nat
  BY FS_CardinalityType
<1>2. order \in [N -> D] /\ \A i, k \in N : i # k => order[i] # order[k]
  BY DEF SetToSeqs
<1>3. order \in Seq(D) /\ Len(order) = Cardinality(D) /\ DOMAIN order = N
  BY <1>1, <1>2
<1>4. order \in Injection(N, D)
  BY <1>2 DEF Injection, IsInjective
<1>5. IsFiniteSet(N) /\ Cardinality(N) = Cardinality(D)
  BY <1>1, FS_Interval
<1> HIDE DEF N
<1>6. order \in Surjection(N, D)
  BY <1>4, <1>5, FS_Injection
<1>7. {order[i] : i \in N} = D
  BY <1>2, <1>6 DEF Surjection
<1> QED BY <1>2, <1>3, <1>5, <1>7 DEF N

(* The head job of a list that is not empty is known and belongs there.    *)
LEMMA HeadOfActive ==
  ASSUME SchedulerInv, NEW s \in Active(queues)
  PROVE  /\ s \in Slot /\ queues[s] \in Seq(Entry) /\ queues[s] # <<>>
         /\ Head(queues[s]) \in Entry
         /\ Head(queues[s]).job \in JobId
         /\ Head(queues[s]).job \in Jobs(queues[s])
         /\ Head(queues[s]).job \in arrived
         /\ SlotOf(Head(queues[s]).job) = s
         /\ Distinct(queues[s])
<1>1. s \in Slot /\ queues[s] \in Seq(Entry) /\ queues[s] # <<>>
  BY DEF SchedulerInv, TypeOK, Active
<1>2. Head(queues[s]) \in Entry /\ Head(queues[s]).job \in Jobs(queues[s])
  BY <1>1, TailJobs
<1> QED BY <1>1, <1>2, EntryJob DEF SchedulerInv, JobInv

(* cycle() has finitely many candidates.                                   *)
LEMMA ActiveIsFinite ==
  ASSUME SchedulerInv
  PROVE  IsFiniteSet(Active(queues))
<1> DEFINE f == [s \in Active(queues) |-> Head(queues[s]).job]
<1>1. \A s \in Active(queues) : f[s] \in arrived /\ SlotOf(f[s]) = s
  BY HeadOfActive
<1>2. f \in Injection(Active(queues), arrived)
  <2>1. f \in [Active(queues) -> arrived]
    BY <1>1
  <2> HIDE DEF f
  <2> QED BY <1>1, <2>1 DEF Injection, IsInjective
<1>3. IsFiniteSet(arrived)
  BY DEF SchedulerInv, JobInv
<1> QED BY <1>2, <1>3, FS_Injection

(* A waiting job makes its list a candidate.                               *)
LEMMA QueuedSlot ==
  ASSUME SchedulerInv, NEW j \in JobId, j \in Jobs(queues[SlotOf(j)])
  PROVE  SlotOf(j) \in Active(queues)
<1>1. SlotOf(j) \in Slot /\ queues[SlotOf(j)] # <<>>
  BY SlotType, NoJobs
<1> QED BY <1>1 DEF Active

(* Which groups of a lane wait can be read off the head jobs, as cycle()   *)
(* does.                                                                   *)
LEMMA HeadsShowGroups ==
  ASSUME SchedulerInv, NEW l \in Lane, NEW Q,
         Q = {j \in JobId : j \in Jobs(queues[SlotOf(j)])}
  PROVE  GroupsIn(Q, l) = GroupsIn({Head(queues[s]).job : s \in Active(queues)}, l)
<1> DEFINE H == {Head(queues[s]).job : s \in Active(queues)}
<1>1. H \subseteq Q
  BY HeadOfActive
<1>2. ASSUME NEW j \in Q, LaneOf[j] = l
      PROVE  \E h \in H : LaneOf[h] = l /\ GroupOf[h] = GroupOf[j]
  <2>1. SlotOf(j) \in Active(queues)
    BY QueuedSlot
  <2> DEFINE h == Head(queues[SlotOf(j)]).job
  <2>2. h \in H /\ SlotOf(h) = SlotOf(j)
    BY <2>1, HeadOfActive
  <2> QED BY <1>2, <2>2 DEF SlotOf
<1> HIDE DEF H
<1>3. GroupsIn(Q, l) \subseteq GroupsIn(H, l)
  BY <1>2 DEF GroupsIn, InLane
<1>4. GroupsIn(H, l) \subseteq GroupsIn(Q, l)
  BY <1>1 DEF GroupsIn, InLane
<1> QED BY <1>3, <1>4 DEF H

(* JobPool's queued jobs are the jobs of the lists.                        *)
LEMMA PoolQueued ==
  ASSUME SchedulerInv
  PROVE  Pool!Queued = {j \in JobId : j \in Jobs(queues[SlotOf(j)])}
<1>1. Pool!Queued = {j \in JobId : Pooled(queues)[j] > 0}
  BY DEF Pool!Queued, Pooled
<1>2. Pooled(queues) = [j \in JobId |-> IF j \in Jobs(queues[SlotOf(j)]) THEN 1 ELSE 0]
  BY PooledIs DEF SchedulerInv, JobInv
<1> QED BY <1>1, <1>2

(* JobPool's instance of the dispatch rule is the rule of this module.     *)
LEMMA SameRule ==
  ASSUME NEW S
  PROVE  Pool!Selections(S) = Selections(S)
<1>1. \A D, l : Pool!InLane(D, l) = InLane(D, l)
  BY DEF InLane, Pool!InLane
<1>2. \A D, l : Pool!GroupsIn(D, l) = GroupsIn(D, l)
  BY <1>1 DEF GroupsIn, Pool!GroupsIn
<1>0. \A A : Pool!Cardinality(A) = Cardinality(A)
  BY DEF Cardinality, Pool!Cardinality
<1>3. \A D : Pool!IsSelection(D, S) <=> IsSelection(D, S)
  BY <1>0, <1>1, <1>2 DEF IsSelection, Pool!IsSelection
<1> QED BY <1>3 DEF Selections, Pool!Selections

(* cycle() is JobPool's Dispatch: what it returns was queued, is so no     *)
(* longer, and is a selection of dispatch_k groups per lane.               *)
LEMMA CycleDoes ==
  ASSUME SchedulerInv, Cycle
  PROVE  SchedulerInv' /\ Pool!Dispatch
<1>1. PICK D \in Picks : \E order \in SetToSeqs(D) :
        /\ dispatched' = [i \in 1..Len(order) |-> Head(queues[order[i]])]
        /\ queues' = [s \in Slot |-> IF s \in D THEN Tail(queues[s]) ELSE queues[s]]
  BY DEF Cycle
<1>2. PICK order \in SetToSeqs(D) :
        /\ dispatched' = [i \in 1..Len(order) |-> Head(queues[order[i]])]
        /\ queues' = [s \in Slot |-> IF s \in D THEN Tail(queues[s]) ELSE queues[s]]
  BY <1>1
<1>3. /\ D \subseteq Active(queues)
      /\ IsSelection({Head(queues[s]).job : s \in D},
                     {Head(queues[s]).job : s \in Active(queues)})
  BY DEF Picks, TopUsers
<1>4. IsFiniteSet(D)
  BY <1>3, ActiveIsFinite, FS_Subset
<1>5. /\ order \in Seq(D) /\ DOMAIN order = 1..Len(order)
      /\ \A i, k \in DOMAIN order : order[i] = order[k] => i = k
      /\ {order[i] : i \in DOMAIN order} = D
  BY <1>4, RankingListsAll
<1> DEFINE H == {Head(queues[s]).job : s \in D}
           h(s) == Head(queues[s])
<1>6. \A s \in D : /\ s \in Slot /\ queues[s] \in Seq(Entry) /\ queues[s] # <<>>
                   /\ h(s) \in Entry /\ h(s).job \in JobId
                   /\ h(s).job \in Jobs(queues[s]) /\ h(s).job \in arrived
                   /\ SlotOf(h(s).job) = s /\ Distinct(queues[s])
  BY <1>3, HeadOfActive
<1>7. /\ dispatched' \in Seq(Entry)
      /\ DOMAIN dispatched' = DOMAIN order
      /\ \A i \in DOMAIN order : order[i] \in D /\ dispatched'[i] = h(order[i])
  <2>1. Len(order) \in Nat /\ \A i \in DOMAIN order : order[i] \in D
    BY <1>5
  <2> HIDE DEF h
  <2>2. dispatched' = [i \in 1..Len(order) |-> h(order[i])]
    BY <1>2 DEF h
  <2>3. \A i \in 1..Len(order) : h(order[i]) \in Entry
    BY <1>5, <1>6, <2>1
  <2> QED BY <1>5, <2>1, <2>2, <2>3
<1>8. H = {h(s).job : s \in D}
  OBVIOUS
<1> HIDE DEF h, H
<1>9. Jobs(dispatched') = H /\ Distinct(dispatched')
  BY <1>5, <1>6, <1>7, <1>8 DEF Jobs, Distinct
<1>10. /\ queues' \in [Slot -> Seq(Entry)]
       /\ \A s \in Slot : Distinct(queues'[s])
       /\ \A s \in D : Jobs(queues'[s]) = Jobs(queues[s]) \ {h(s).job}
       /\ \A s \in Slot : s \notin D => Jobs(queues'[s]) = Jobs(queues[s])
  <2>1. /\ \A s \in D : Tail(queues[s]) \in Seq(Entry) /\ Distinct(Tail(queues[s]))
        /\ \A s \in D : Jobs(Tail(queues[s])) = Jobs(queues[s]) \ {h(s).job}
    BY <1>6, TailJobs DEF h
  <2>2. /\ queues \in [Slot -> Seq(Entry)]
        /\ \A s \in Slot : Distinct(queues[s])
    BY DEF SchedulerInv, TypeOK, JobInv
  <2>3. /\ \A s \in D : queues'[s] = Tail(queues[s])
        /\ \A s \in Slot : s \notin D => queues'[s] = queues[s]
    BY <1>2, <1>6
  <2>4. queues' \in [Slot -> Seq(Entry)]
    BY <1>2, <2>1, <2>2
  <2> QED BY <2>1, <2>2, <2>3, <2>4
<1>11. \A j \in JobId :
         j \in Jobs(queues'[SlotOf(j)]) <=> j \in Jobs(queues[SlotOf(j)]) /\ j \notin H
  <2> SUFFICES ASSUME NEW j \in JobId
               PROVE  j \in Jobs(queues'[SlotOf(j)]) <=>
                        j \in Jobs(queues[SlotOf(j)]) /\ j \notin H
    OBVIOUS
  <2>1. SlotOf(j) \in Slot
    BY SlotType
  <2>2. CASE SlotOf(j) \in D
    <3>1. j \in H <=> j = h(SlotOf(j)).job
      BY <1>6, <1>8, <2>2
    <3> QED BY <1>10, <2>2, <3>1
  <2>3. CASE SlotOf(j) \notin D
    <3>1. j \notin H
      BY <1>6, <1>8, <2>3
    <3> QED BY <1>10, <2>1, <2>3, <3>1
  <2> QED BY <2>2, <2>3
<1>12. TypeOK'
  <2>1. busier' \subseteq Lane \X SchedGroup \X SchedGroup
    BY DEF TypeOK, Cycle, Busier, SchedulerInv
  <2> QED BY <1>7, <1>10, <2>1 DEF TypeOK, Cycle, SchedulerInv, pods
<1>13. JobInv(queues, dispatched, arrived)'
  <2>1. \A s \in Slot : \A j \in Jobs(queues'[s]) : j \in arrived /\ SlotOf(j) = s
    BY <1>10 DEF SchedulerInv, JobInv
  <2>2. \A j \in H : j \in JobId /\ j \in arrived
    BY <1>6, <1>8
  <2>3. \A j \in H : j \notin Jobs(queues'[SlotOf(j)])
    BY <1>11, <2>2
  <2>4. IsFiniteSet(arrived) /\ arrived' = arrived
    BY DEF SchedulerInv, JobInv, Cycle
  <2> QED BY <1>9, <1>10, <2>1, <2>2, <2>3, <2>4 DEF JobInv
<1> DEFINE Q == {j \in JobId : j \in Jobs(queues[SlotOf(j)])}
<1>14. H \subseteq Q /\ Q # {}
  <2>1. H \subseteq Q
    BY <1>6, <1>8
  <2>2. PICK s \in Active(queues) : TRUE
    BY DEF Cycle
  <2>3. Head(queues[s]).job \in Q
    BY HeadOfActive
  <2> QED BY <2>1, <2>3
<1>15. IsSelection(H, Q)
  <2> DEFINE A == {Head(queues[s]).job : s \in Active(queues)}
  <2>1. IsSelection(H, A)
    BY <1>3 DEF H
  <2>2. \A l \in Lane : GroupsIn(Q, l) = GroupsIn(A, l)
    BY HeadsShowGroups
  <2> HIDE DEF A, Q
  <2> QED BY <2>1, <2>2 DEF IsSelection
<1> DEFINE out == {e.job : e \in ToSet(dispatched)}
<1>16. out = {} /\ out' = H
  <2>1. dispatched = <<>> /\ dispatched \in Seq(Entry)
    BY DEF Cycle, SchedulerInv, TypeOK
  <2>2. out = Jobs(dispatched)
    BY <2>1, JobsAreOut
  <2>3. out' = Jobs(dispatched')
    BY <1>7, JobsAreOut
  <2> QED BY <1>9, <2>1, <2>2, <2>3, NoJobs
<1>17. Pooled(queues') = [j \in JobId |-> Pooled(queues)[j] - (IF j \in H THEN 1 ELSE 0)]
  <2>1. /\ Pooled(queues) = [i \in JobId |-> IF i \in Jobs(queues[SlotOf(i)]) THEN 1 ELSE 0]
        /\ Pooled(queues') =
             [i \in JobId |-> IF i \in Jobs(queues'[SlotOf(i)]) THEN 1 ELSE 0]
    BY <1>10, PooledIs DEF SchedulerInv, JobInv
  <2>2. \A j \in H : j \in Jobs(queues[SlotOf(j)])
    BY <1>14
  <2> QED BY <1>11, <2>1, <2>2
<1>18. Pool!Queued = Q
  BY PoolQueued
<1>19. H \in Pool!Selections(Q)
  BY <1>14, <1>15, SameRule DEF Selections
<1> HIDE DEF out, Q
<1>20. Pool!Dispatch
  <2>1. out = {} /\ Pool!Queued # {} /\ H \in Pool!Selections(Pool!Queued) /\ out' = H
    BY <1>14, <1>16, <1>18, <1>19
  <2>2. \E D1 \in Pool!Selections(Pool!Queued) :
          /\ out' = D1
          /\ Pooled(queues') =
               [j \in JobId |-> Pooled(queues)[j] - (IF j \in D1 THEN 1 ELSE 0)]
    BY ONLY <1>17, <2>1
  <2> QED BY ONLY <2>1, <2>2 DEF Pool!Dispatch, Pooled, out
<1> QED BY <1>12, <1>13, <1>20 DEF SchedulerInv

OutJobs(d) == {e.job : e \in ToSet(d)}

(* The gate takes the first job it was handed off its list.                *)
LEMMA AnsweredDoes ==
  ASSUME SchedulerInv, dispatched # <<>>
  PROVE  LET e == Head(dispatched)
         IN  /\ e \in Entry /\ e.job \in JobId /\ e.job \in arrived
             /\ SlotOf(e.job) \in Slot
             /\ e.job \notin Jobs(queues[SlotOf(e.job)])
             /\ Tail(dispatched) \in Seq(Entry) /\ Distinct(Tail(dispatched))
             /\ Jobs(Tail(dispatched)) = Jobs(dispatched) \ {e.job}
             /\ OutJobs(Tail(dispatched)) = OutJobs(dispatched) \ {e.job}
             /\ e.job \in OutJobs(dispatched)
<1> DEFINE e == Head(dispatched)
           t == Tail(dispatched)
<1>1. dispatched \in Seq(Entry) /\ Distinct(dispatched)
  BY DEF SchedulerInv, TypeOK, JobInv
<1>2. /\ e \in Entry /\ e.job \in Jobs(dispatched)
      /\ t \in Seq(Entry) /\ Distinct(t) /\ Jobs(t) = Jobs(dispatched) \ {e.job}
  BY <1>1, TailJobs
<1> HIDE DEF e, t
<1>3. OutJobs(dispatched) = Jobs(dispatched) /\ OutJobs(t) = Jobs(t)
  BY <1>1, <1>2, JobsAreOut DEF OutJobs
<1>4. e.job \in JobId /\ SlotOf(e.job) \in Slot
  BY <1>2, EntryJob, SlotType
<1>5. e.job \in arrived /\ e.job \notin Jobs(queues[SlotOf(e.job)])
  BY <1>2 DEF SchedulerInv, JobInv
<1> QED BY <1>2, <1>3, <1>4, <1>5 DEF e, t

(* The gate admits a job, or finds it deleted: JobPool's Accept.           *)
LEMMA AcceptDoes ==
  ASSUME SchedulerInv, Admit \/ Drop
  PROVE  SchedulerInv' /\ \E j \in JobId : Pool!Accept(j)
<1> DEFINE e == Head(dispatched)
<1>1. /\ dispatched # <<>> /\ dispatched' = Tail(dispatched)
      /\ queues' = queues /\ arrived' = arrived /\ groups' = groups
      /\ now' = now /\ lane_capacity' = lane_capacity /\ running' = running
      /\ busier' = busier
      /\ counted' \in {{}, counted, counted \cup {e.job}}
      /\ placed' \in {placed, placed \cup {e.job}}
      /\ caps' \in {caps, [l \in Lane |-> 0]}
  BY DEF Admit, Drop, Answered, pods
<1>2. /\ e \in Entry /\ e.job \in JobId /\ e.job \in OutJobs(dispatched)
      /\ Tail(dispatched) \in Seq(Entry) /\ Distinct(Tail(dispatched))
      /\ Jobs(Tail(dispatched)) = Jobs(dispatched) \ {e.job}
      /\ OutJobs(Tail(dispatched)) = OutJobs(dispatched) \ {e.job}
  BY <1>1, AnsweredDoes
<1> HIDE DEF e
<1>3. TypeOK'
  BY <1>1, <1>2 DEF SchedulerInv, TypeOK
<1>4. JobInv(queues, dispatched, arrived)'
  BY <1>1, <1>2 DEF SchedulerInv, JobInv
<1>5. \E j \in JobId : Pool!Accept(j)
  BY <1>1, <1>2 DEF Pool!Accept, OutJobs
<1> QED BY <1>3, <1>4, <1>5 DEF SchedulerInv, e

(* The gate submits a job again: JobPool's PutBack.                        *)
LEMMA DeferDoes ==
  ASSUME SchedulerInv, Defer
  PROVE  SchedulerInv' /\ \E j \in JobId : Pool!PutBack(j)
<1> DEFINE e == Head(dispatched)
           k == SlotOf(e.job)
<1>1. /\ dispatched # <<>> /\ dispatched' = Tail(dispatched)
      /\ queues' = Append1(queues, e) /\ arrived' = arrived /\ groups' = groups
      /\ now' = now /\ lane_capacity' = lane_capacity /\ running' = running
      /\ busier' = busier
      /\ counted' \in {{}, counted} /\ placed' = placed
      /\ caps' \in {caps, [l \in Lane |-> 0]}
  BY DEF Defer, Answered, pods
<1>2. /\ e \in Entry /\ e.job \in JobId /\ e.job \in OutJobs(dispatched)
      /\ e.job \in arrived /\ k \in Slot /\ e.job \notin Jobs(queues[k])
      /\ Tail(dispatched) \in Seq(Entry) /\ Distinct(Tail(dispatched))
      /\ Jobs(Tail(dispatched)) = Jobs(dispatched) \ {e.job}
      /\ OutJobs(Tail(dispatched)) = OutJobs(dispatched) \ {e.job}
  BY <1>1, AnsweredDoes
<1> HIDE DEF e
<1>3. /\ queues' \in [Slot -> Seq(Entry)]
      /\ \A s \in Slot : Distinct(queues'[s])
      /\ Jobs(queues'[k]) = Jobs(queues[k]) \cup {e.job}
      /\ \A s \in Slot : s # k => Jobs(queues'[s]) = Jobs(queues[s])
      /\ Pooled(queues') = [Pooled(queues) EXCEPT ![e.job] = @ + 1]
  <2>1. /\ queues \in [Slot -> Seq(Entry)]
        /\ \A s \in Slot : Distinct(queues[s])
    BY DEF SchedulerInv, TypeOK, JobInv
  <2>2. /\ Append1(queues, e) \in [Slot -> Seq(Entry)]
        /\ \A s \in Slot : Distinct(Append1(queues, e)[s])
        /\ Jobs(Append1(queues, e)[SlotOf(e.job)]) =
             Jobs(queues[SlotOf(e.job)]) \cup {e.job}
        /\ \A s \in Slot :
             s # SlotOf(e.job) => Jobs(Append1(queues, e)[s]) = Jobs(queues[s])
        /\ Pooled(Append1(queues, e)) = [Pooled(queues) EXCEPT ![e.job] = @ + 1]
    BY ONLY <1>2, <2>1, AppendKeeps
  <2> QED BY <1>1, <2>2
<1>4. TypeOK'
  BY <1>1, <1>2, <1>3 DEF SchedulerInv, TypeOK
<1>5. JobInv(queues, dispatched, arrived)'
  <2>1. \A s \in Slot : \A i \in Jobs(queues'[s]) : i \in arrived' /\ SlotOf(i) = s
    BY <1>1, <1>2, <1>3 DEF SchedulerInv, JobInv
  <2>2. \A i \in Jobs(dispatched') : i \in arrived /\ i # e.job /\ i \in JobId
    BY <1>1, <1>2 DEF SchedulerInv, JobInv, TypeOK
  <2>3. \A i \in Jobs(dispatched') : i \notin Jobs(queues'[SlotOf(i)])
    <3> SUFFICES ASSUME NEW i \in Jobs(dispatched') PROVE i \notin Jobs(queues'[SlotOf(i)])
      OBVIOUS
    <3>1. SlotOf(i) \in Slot /\ i # e.job /\ i \notin Jobs(queues[SlotOf(i)])
      BY <1>1, <1>2, <2>2, SlotType DEF SchedulerInv, JobInv
    <3> QED BY <1>3, <3>1
  <2>4. IsFiniteSet(arrived)
    BY DEF SchedulerInv, JobInv
  <2> QED BY ONLY <1>1, <1>2, <1>3, <2>1, <2>2, <2>3, <2>4 DEF JobInv
<1>6. \E j \in JobId : Pool!PutBack(j)
  <2>1. /\ OutJobs(dispatched') = OutJobs(dispatched) \ {e.job}
        /\ e.job \in OutJobs(dispatched) /\ e.job \in JobId
    BY <1>1, <1>2
  <2> QED BY ONLY <2>1, <1>3 DEF Pool!PutBack, OutJobs, Pooled
<1> QED BY <1>4, <1>5, <1>6 DEF SchedulerInv, e

(* The cluster, the clock, the node watch and a cycle without jobs do not  *)
(* touch a job of the scheduler.                                           *)
LEMMA OthersDo ==
  ASSUME SchedulerInv,
         \/ IdleCycle
         \/ Tick
         \/ \E j \in JobId : Start(j) \/ Finish(j)
         \/ \E l \in Lane, c \in Capacities : SetLaneCapacity(l, c)
         \/ UNCHANGED vars
  PROVE  SchedulerInv' /\ UNCHANGED Pool!vars
<1>1. queues' = queues /\ dispatched' = dispatched /\ arrived' = arrived
  BY DEF IdleCycle, Tick, Start, Finish, SetLaneCapacity, vars
<1>2. TypeOK'
  <2> USE DEF SchedulerInv, TypeOK
  <2>1. CASE Tick
    BY <2>1, JobAssumption DEF Tick, pods
  <2>2. ASSUME NEW j \in JobId, Start(j) \/ Finish(j) PROVE TypeOK'
    BY <2>2 DEF Start, Finish
  <2>3. ASSUME NEW l \in Lane, NEW c \in Capacities, SetLaneCapacity(l, c)
        PROVE  TypeOK'
    BY <2>3, JobAssumption DEF SetLaneCapacity, pods
  <2>4. CASE UNCHANGED vars
    BY <2>4 DEF vars, pods
  <2>5. CASE IdleCycle
    BY <2>5 DEF IdleCycle, Busier, pods
  <2> QED BY <2>1, <2>2, <2>3, <2>4, <2>5
<1>3. JobInv(queues, dispatched, arrived)'
  BY <1>1 DEF SchedulerInv
<1>4. UNCHANGED Pool!vars
  BY <1>1 DEF Pool!vars
<1> QED BY <1>2, <1>3, <1>4 DEF SchedulerInv

(* A new scheduler holds no job, as an empty pool.                         *)
LEMMA InitDoes ==
  ASSUME Init
  PROVE  SchedulerInv /\ Pool!Init
<1>1. \A s \in Slot : queues[s] = <<>>
  BY DEF Init
<1>2. TypeOK
  BY JobAssumption DEF Init, TypeOK
<1>3. JobInv(queues, dispatched, arrived)
  BY <1>1, NoJobs, FS_EmptySet DEF Init, JobInv
<1>4. Pooled(queues) = [j \in JobId |-> 0]
  <2>1. Pooled(queues) = [j \in JobId |-> IF j \in Jobs(queues[SlotOf(j)]) THEN 1 ELSE 0]
    BY <1>3, PooledIs DEF JobInv
  <2> QED BY <1>1, <2>1, NoJobs, SlotType
<1>5. OutJobs(dispatched) = {}
  BY NoJobs, JobsAreOut DEF Init, OutJobs
<1>6. Pool!Init
  BY ONLY <1>4, <1>5 DEF Pool!Init, Pooled, OutJobs
<1> QED BY <1>2, <1>3, <1>6 DEF SchedulerInv

(* Every step keeps the bookkeeping and is a step of JobPool or none.      *)
LEMMA StepDoes ==
  ASSUME SchedulerInv, [Next]_vars
  PROVE  SchedulerInv' /\ [Pool!Next]_(Pool!vars)
<1>1. CASE Cycle
  BY <1>1, CycleDoes DEF Pool!Next
<1>2. CASE Admit \/ Drop
  BY <1>2, AcceptDoes DEF Pool!Next
<1>3. CASE Defer
  BY <1>3, DeferDoes DEF Pool!Next
<1>4. ASSUME NEW j \in JobId, Enqueue(j)
      PROVE  SchedulerInv' /\ [Pool!Next]_(Pool!vars)
  BY <1>4, EnqueueDoes DEF Pool!Next
<1>5. ASSUME NEW j \in JobId, RemoveJob(j)
      PROVE  SchedulerInv' /\ [Pool!Next]_(Pool!vars)
  BY <1>5, RemoveJobDoes DEF Pool!Next
<1>6. CASE \/ IdleCycle
           \/ Tick
           \/ \E j \in JobId : Start(j) \/ Finish(j)
           \/ \E l \in Lane, c \in Capacities : SetLaneCapacity(l, c)
           \/ UNCHANGED vars
  BY <1>6, OthersDo
<1> QED BY <1>1, <1>2, <1>3, <1>4, <1>5, <1>6 DEF Next

(* The bookkeeping of the queues holds in every reachable state.           *)
THEOREM SchedulerInvariant == Spec => []SchedulerInv
<1>1. Init => SchedulerInv
  BY InitDoes
<1>2. SchedulerInv /\ [Next]_vars => SchedulerInv'
  BY StepDoes
<1> QED BY <1>1, <1>2, PTL DEF Spec

(* The variables keep their types (Scheduler.submit, remove_job, cycle and *)
(* the gate).                                                              *)
THEOREM SchedulerTypes == Spec => []TypeOK
<1>1. SchedulerInv => TypeOK
  BY DEF SchedulerInv
<1> QED BY <1>1, SchedulerInvariant, PTL

(* The scheduler is a bag of jobs: no step of submit, remove_job, cycle or *)
(* the gate creates, loses or doubles a job, and cycle() hands out at most *)
(* one job per group and dispatch_k per lane (ImplementsJobPool).          *)
THEOREM SchedulerIsAJobPool == Spec => ImplementsJobPool
<1>1. Init => Pool!Init
  BY InitDoes
<1>2. SchedulerInv /\ [Next]_vars => [Pool!Next]_(Pool!vars)
  BY StepDoes
<1> QED BY <1>1, <1>2, SchedulerInvariant, PTL DEF Spec, Pool!Spec, ImplementsJobPool

(* What cycle() returns, without the order it does so in.                  *)
LEMMA CycleTakes ==
  ASSUME SchedulerInv, Cycle
  PROVE  \E D \in Picks :
           /\ D \subseteq Active(queues)
           /\ ToSet(dispatched') = {Head(queues[s]) : s \in D}
           /\ queues' = [s \in Slot |-> IF s \in D THEN Tail(queues[s]) ELSE queues[s]]
<1>1. PICK D \in Picks : \E order \in SetToSeqs(D) :
        /\ dispatched' = [i \in 1..Len(order) |-> Head(queues[order[i]])]
        /\ queues' = [s \in Slot |-> IF s \in D THEN Tail(queues[s]) ELSE queues[s]]
  BY DEF Cycle
<1>2. PICK order \in SetToSeqs(D) :
        dispatched' = [i \in 1..Len(order) |-> Head(queues[order[i]])]
  BY <1>1
<1>3. D \subseteq Active(queues)
  BY DEF Picks, TopUsers
<1>4. IsFiniteSet(D)
  BY <1>3, ActiveIsFinite, FS_Subset
<1>5. DOMAIN order = 1..Len(order) /\ {order[i] : i \in DOMAIN order} = D
  BY <1>4, RankingListsAll
<1>6. ToSet(dispatched') = {Head(queues[s]) : s \in D}
  <2> DEFINE h(s) == Head(queues[s])
  <2>1. dispatched' = [i \in 1..Len(order) |-> h(order[i])]
    BY <1>2
  <2> HIDE DEF h
  <2>2. ToSet(dispatched') = {h(s) : s \in D}
    BY <1>5, <2>1 DEF ToSet
  <2> QED BY <2>2 DEF h
<1> QED BY <1>1, <1>3, <1>6

-----------------------------------------------------------------------------
(* What the score reads.                                                   *)

PodsArrived == placed \cup running \subseteq arrived

Submitted(q, out, t) ==
  /\ \A s \in Slot : \A e \in ToSet(q[s]) : e.submit_time <= t
  /\ \A e \in ToSet(out) : e.submit_time <= t

ScoreInv == PodsArrived /\ Submitted(queues, dispatched, now)

(* A new scheduler has nothing to age.                                     *)
LEMMA SubmittedInit ==
  ASSUME Init
  PROVE  ScoreInv
<1>1. ToSet(<<>>) = {}
  BY DEF ToSet
<1> QED BY <1>1 DEF Init, ScoreInv, PodsArrived, Submitted

(* Every step keeps the pods placed and running among those seen           *)
(* (_enqueue, and the gate that admits what cycle() returned).             *)
LEMMA PodsKeepArrived ==
  ASSUME SchedulerInv, PodsArrived, [Next]_vars
  PROVE  PodsArrived'
<1> USE DEF PodsArrived
<1>1. CASE Cycle \/ IdleCycle \/ Defer \/ Drop \/ Tick \/ UNCHANGED vars
  BY <1>1 DEF Cycle, IdleCycle, Defer, Drop, Tick, vars, pods
<1>2. CASE Admit
  <2>1. Head(dispatched).job \in arrived
    BY <1>2, AnsweredDoes DEF Admit
  <2> QED BY <1>2, <2>1 DEF Admit
<1>3. ASSUME NEW j \in JobId, Enqueue(j) \/ RemoveJob(j) \/ Start(j) \/ Finish(j)
      PROVE  PodsArrived'
  BY <1>3 DEF Enqueue, RemoveJob, Start, Finish, pods
<1>4. ASSUME NEW l \in Lane, NEW c \in Capacities, SetLaneCapacity(l, c)
      PROVE  PodsArrived'
  BY <1>4 DEF SetLaneCapacity, pods
<1> QED BY <1>1, <1>2, <1>3, <1>4 DEF Next

(* submit() of a job submitted by now (_enqueue, and the gate's second     *)
(* submit).                                                                *)
LEMMA AppendSubmitted ==
  ASSUME SchedulerInv, Submitted(queues, dispatched, now),
         NEW e \in Entry, e.submit_time <= now,
         queues' = Append1(queues, e), now' = now,
         ToSet(dispatched') \subseteq ToSet(dispatched)
  PROVE  Submitted(queues, dispatched, now)'
<1> DEFINE k == SlotOf(e.job)
<1>1. k \in Slot /\ queues \in [Slot -> Seq(Entry)]
  BY EntryJob, SlotType DEF SchedulerInv, TypeOK
<1>2. ToSet(Append(queues[k], e)) = ToSet(queues[k]) \cup {e}
  BY <1>1, AppendJobs
<1>3. /\ queues'[k] = Append(queues[k], e)
      /\ \A s \in Slot : s # k => queues'[s] = queues[s]
  BY <1>1 DEF Append1
<1> QED BY <1>1, <1>2, <1>3 DEF Submitted

(* A step that only moves or removes jobs brings none with a later         *)
(* submit_time.                                                            *)
LEMMA ShrinkSubmitted ==
  ASSUME Submitted(queues, dispatched, now), now' = now,
         \A s \in Slot : ToSet(queues'[s]) \subseteq ToSet(queues[s]),
         \A e \in ToSet(dispatched') :
           e \in ToSet(dispatched) \/ \E s \in Slot : e \in ToSet(queues[s])
  PROVE  Submitted(queues, dispatched, now)'
BY DEF Submitted

(* cycle() only moves jobs.                                                *)
LEMMA CycleSubmitted ==
  ASSUME SchedulerInv, Submitted(queues, dispatched, now), Cycle
  PROVE  Submitted(queues, dispatched, now)'
<1>1. PICK D \in Picks :
        /\ D \subseteq Active(queues)
        /\ ToSet(dispatched') = {Head(queues[s]) : s \in D}
        /\ queues' = [s \in Slot |-> IF s \in D THEN Tail(queues[s]) ELSE queues[s]]
  BY CycleTakes
<1>2. \A s \in D : /\ s \in Slot
                   /\ Head(queues[s]) \in ToSet(queues[s])
                   /\ ToSet(Tail(queues[s])) \subseteq ToSet(queues[s])
  BY <1>1, HeadOfActive, TailJobs
<1>3. \A s \in Slot : ToSet(queues'[s]) \subseteq ToSet(queues[s])
  BY <1>1, <1>2
<1>4. \A e \in ToSet(dispatched') : \E s \in Slot : e \in ToSet(queues[s])
  BY <1>1, <1>2
<1>5. now' = now
  BY DEF Cycle
<1> QED BY <1>3, <1>4, <1>5, ShrinkSubmitted

(* No step makes a job younger than the clock: the gate submits it again   *)
(* with the submit_time it had.                                            *)
LEMMA SubmittedKept ==
  ASSUME SchedulerInv, Submitted(queues, dispatched, now), [Next]_vars
  PROVE  Submitted(queues, dispatched, now)'
<1>1. CASE Cycle
  BY <1>1, CycleSubmitted
<1>2. CASE Admit \/ Drop
  <2>1. /\ dispatched \in Seq(Entry) /\ dispatched # <<>>
        /\ dispatched' = Tail(dispatched) /\ queues' = queues /\ now' = now
    BY <1>2 DEF SchedulerInv, TypeOK, Admit, Drop, Answered
  <2>2. ToSet(dispatched') \subseteq ToSet(dispatched)
    BY <2>1, TailJobs
  <2> QED BY <2>1, <2>2 DEF Submitted
<1>3. CASE Defer
  <2>1. /\ dispatched \in Seq(Entry) /\ dispatched # <<>>
        /\ dispatched' = Tail(dispatched) /\ now' = now
        /\ queues' = Append1(queues, Head(dispatched))
    BY <1>3 DEF SchedulerInv, TypeOK, Defer, Answered
  <2>2. /\ ToSet(dispatched') \subseteq ToSet(dispatched)
        /\ Head(dispatched) \in Entry /\ Head(dispatched) \in ToSet(dispatched)
    BY <2>1, TailJobs
  <2>3. Head(dispatched).submit_time <= now
    BY <2>2 DEF Submitted
  <2> QED BY <2>1, <2>2, <2>3, AppendSubmitted
<1>4. ASSUME NEW j \in JobId, Enqueue(j)
      PROVE  Submitted(queues, dispatched, now)'
  <2> DEFINE e == [job |-> j, submit_time |-> now]
  <2>1. /\ e \in Entry /\ e.submit_time <= now
        /\ queues' = Append1(queues, e) /\ now' = now /\ dispatched' = dispatched
    BY <1>4 DEF SchedulerInv, TypeOK, Entry, Enqueue
  <2> HIDE DEF e
  <2> QED BY <2>1, AppendSubmitted
<1>5. ASSUME NEW j \in JobId, RemoveJob(j)
      PROVE  Submitted(queues, dispatched, now)'
  <2> DEFINE k == SlotOf(j)
             t == RemoveFirstMatch(queues[k], LAMBDA e : e.job = j)
  <2>1. /\ j \in Jobs(queues[k]) /\ k \in Slot /\ queues \in [Slot -> Seq(Entry)]
        /\ Distinct(queues[k])
    BY <1>5, SlotOfJob DEF RemoveJob, SchedulerInv, TypeOK, JobInv
  <2>2. queues[k] \in Seq(Entry)
    BY <2>1
  <2>3. ToSet(t) \subseteq ToSet(queues[k])
    BY <2>1, <2>2, RemoveJobs
  <2>4. queues' = [queues EXCEPT ![k] = t] /\ now' = now /\ dispatched' = dispatched
    BY <1>5 DEF RemoveJob
  <2> HIDE DEF t
  <2>5. \A s \in Slot : ToSet(queues'[s]) \subseteq ToSet(queues[s])
    BY <2>1, <2>3, <2>4
  <2> QED BY <2>4, <2>5, ShrinkSubmitted
<1>6. CASE Tick
  <2>1. \A s \in Slot : queues[s] \in Seq(Entry)
    BY DEF SchedulerInv, TypeOK
  <2>2. /\ \A s \in Slot : \A e \in ToSet(queues[s]) : e.submit_time \in Int
        /\ \A e \in ToSet(dispatched) : e.submit_time \in Int
    <3>1. dispatched \in Seq(Entry)
      BY DEF SchedulerInv, TypeOK
    <3> QED BY <2>1, <3>1, EntriesOf
  <2>3. queues' = queues /\ dispatched' = dispatched /\ now' = now + 1 /\ now \in Int
    BY <1>6 DEF Tick, SchedulerInv, TypeOK
  <2> QED BY <2>2, <2>3 DEF Submitted
<1>7. CASE UNCHANGED vars \/ IdleCycle \/ \E j \in JobId : Start(j) \/ Finish(j)
  BY <1>7 DEF vars, IdleCycle, Start, Finish, Submitted
<1>8. ASSUME NEW l \in Lane, NEW c \in Capacities, SetLaneCapacity(l, c)
      PROVE  Submitted(queues, dispatched, now)'
  BY <1>8 DEF SetLaneCapacity, Submitted
<1> QED BY <1>1, <1>2, <1>3, <1>4, <1>5, <1>6, <1>7, <1>8 DEF Next

(* What the score reads is well-formed in every reachable state            *)
(* (ScoreInv).                                                             *)
LEMMA ScoreInvariant == Spec => []ScoreInv
<1>1. Init => ScoreInv
  BY SubmittedInit
<1>2. SchedulerInv /\ ScoreInv /\ [Next]_vars => ScoreInv'
  BY PodsKeepArrived, SubmittedKept DEF ScoreInv
<1> QED BY <1>1, <1>2, SchedulerInvariant, PTL DEF Spec

-----------------------------------------------------------------------------
(* The score.                                                              *)

(* Finitely many pods ask for finitely many GPUs.                          *)
LEMMA UnitsType ==
  ASSUME NEW S \in SUBSET JobId, IsFiniteSet(S)
  PROVE  UnitsOf(S) \in Nat
<1>1. ASSUME NEW j \in S PROVE IsFiniteSet({j} \X (1..Units[j]))
  <2>1. 1 \in Int /\ Units[j] \in Int
    BY JobAssumption
  <2>2. IsFiniteSet(1..Units[j]) /\ IsFiniteSet({j})
    BY ONLY <2>1, FS_Interval, FS_Singleton
  <2> QED BY ONLY <2>2, FS_Product
<1> DEFINE T == {{j} \X (1..Units[j]) : j \in S}
           f == [j \in S |-> {j} \X (1..Units[j])]
<1>2. IsFiniteSet(T)
  <2>1. f \in Surjection(S, T)
    BY DEF Surjection
  <2> HIDE DEF T, f
  <2> QED BY ONLY <2>1, IsFiniteSet(S), FS_Surjection
<1>3. IsFiniteSet(GPUs(S))
  BY <1>1, <1>2, FS_UNION DEF GPUs
<1> QED BY <1>3, FS_CardinalityType DEF UnitsOf

(* The GPUs a group holds in a lane (the utilization pushed before a       *)
(* cycle).                                                                 *)
LEMMA GroupUnitsType ==
  ASSUME SchedulerInv, ScoreInv, NEW l, NEW g
  PROVE  GroupUnits(l, g) \in Nat
<1> DEFINE S == {k \in running : LaneOf[k] = l /\ GroupOf[k] = g}
<1>1. IsFiniteSet(arrived) /\ S \in SUBSET arrived
  BY DEF SchedulerInv, JobInv, ScoreInv, PodsArrived
<1>2. IsFiniteSet(S)
  BY ONLY <1>1, FS_Subset
<1>3. S \in SUBSET JobId
  BY <1>1 DEF SchedulerInv, TypeOK
<1> HIDE DEF S
<1>4. UnitsOf(S) \in Nat
  BY <1>2, <1>3, UnitsType
<1> QED BY <1>4 DEF S, GroupUnits

(* Two fractions compared by cross-multiplying, as Outscores does.         *)
LEMMA MoreWorthLessLoad ==
  ASSUME NEW a \in Nat, NEW b \in Nat, NEW x \in Nat, NEW y \in Nat,
         b <= a, x <= y, 0 < b, 0 < x, b < a \/ x < y
  PROVE  a * y > b * x
<1>1. a * y - b * x = (a - b) * y + b * (y - x)
  OBVIOUS
<1>2. (a - b) * y >= 0 /\ b * (y - x) >= 0
  OBVIOUS
<1>3. b < a => (a - b) * y > 0
  OBVIOUS
<1>4. x < y => b * (y - x) > 0
  OBVIOUS
<1>5. (a - b) * y \in Int /\ b * (y - x) \in Int /\ a * y \in Int /\ b * x \in Int
  OBVIOUS
<1> DEFINE p == (a - b) * y
           r == b * (y - x)
           m == a * y
           n == b * x
<1>6. m - n = p + r /\ p >= 0 /\ r >= 0 /\ (p > 0 \/ r > 0)
      /\ p \in Int /\ r \in Int /\ m \in Int /\ n \in Int
  BY <1>1, <1>2, <1>3, <1>4, <1>5
<1> HIDE DEF p, r, m, n
<1>7. m > n
  BY <1>6
<1> QED BY <1>7 DEF m, n

(* A product grows with its factors.                                       *)
LEMMA ProductOrder ==
  ASSUME NEW a \in Nat, NEW b \in Nat, NEW x \in Nat, NEW y \in Nat,
         b <= a, y <= x, 0 < b, 0 < y
  PROVE  /\ a * x \in Nat /\ b * y \in Nat /\ 0 < b * y /\ b * y <= a * x
         /\ b < a \/ y < x => b * y < a * x
<1>1. a * x \in Nat /\ b * y \in Nat
  OBVIOUS
<1>2. 0 < b * y
  OBVIOUS
<1>3. b < a \/ y < x => a * x > b * y
  BY MoreWorthLessLoad
<1>4. b = a /\ y = x => b * y = a * x
  OBVIOUS
<1> DEFINE m == a * x
           n == b * y
<1> HIDE DEF m, n
<1>5. /\ m \in Nat /\ n \in Nat /\ 0 < n
      /\ (b < a \/ y < x => m > n) /\ (b = a /\ y = x => n = m)
  BY <1>1, <1>2, <1>3, <1>4 DEF m, n
<1>6. 0 < n /\ n <= m /\ (b < a \/ y < x => n < m)
  BY <1>5
<1> QED BY <1>1, <1>6 DEF m, n

(* The weights and the ageing curves are positive.                         *)
LEMMA ScoreTypes ==
  ASSUME NEW b \in BOOLEAN, NEW v \in 0..MaxTime
  PROVE  /\ ModeWeight[b] \in Nat /\ 0 < ModeWeight[b]
         /\ AgeBoost[b][v] \in Nat /\ 0 < AgeBoost[b][v]
<1>1. ModeWeight[b] \in Nat \ {0}
  BY ScoreAssumption, Zenon
<1>2. AgeBoost[b] \in [0..MaxTime -> Nat \ {0}]
  BY ScoreAssumption, Zenon
<1>3. AgeBoost[b][v] \in Nat \ {0}
  BY ONLY <1>2, v \in 0..MaxTime
<1>4. \A n \in Nat \ {0} : n \in Nat /\ 0 < n
  OBVIOUS
<1> QED BY ONLY <1>1, <1>3, <1>4, Zenon

(* A job does not lose worth as it ages (age_boost).                       *)
LEMMA AgeingKeeps ==
  ASSUME NEW b \in BOOLEAN, NEW v \in 0..MaxTime, NEW w \in 0..MaxTime, w <= v
  PROVE  /\ ModeWeight[b] * AgeBoost[b][v] \in Nat
         /\ ModeWeight[b] * AgeBoost[b][w] \in Nat
         /\ 0 < ModeWeight[b] * AgeBoost[b][w]
         /\ ModeWeight[b] * AgeBoost[b][w] <= ModeWeight[b] * AgeBoost[b][v]
         /\ AgesCount /\ w < v =>
              ModeWeight[b] * AgeBoost[b][w] < ModeWeight[b] * AgeBoost[b][v]
<1>1. /\ ModeWeight[b] \in Nat /\ 0 < ModeWeight[b]
      /\ AgeBoost[b][v] \in Nat /\ AgeBoost[b][w] \in Nat /\ 0 < AgeBoost[b][w]
  BY ScoreTypes
<1>2. AgeBoost[b][w] <= AgeBoost[b][v]
  BY ONLY ScoreAssumption, b \in BOOLEAN, v \in 0..MaxTime, w \in 0..MaxTime, w <= v, Zenon
<1>3. AgesCount /\ w < v => AgeBoost[b][w] < AgeBoost[b][v]
  BY ONLY b \in BOOLEAN, v \in 0..MaxTime, w \in 0..MaxTime, Zenon DEF AgesCount
<1>4. ModeWeight[b] <= ModeWeight[b]
  BY <1>1
<1> QED BY <1>1, <1>2, <1>3, <1>4, ProductOrder

(* The numerator of the score: a job that has waited no less is worth      *)
(* more, if it is of the same mode and has waited longer, and ages count,  *)
(* or if the other is batch and batch jobs rank lower (mode_weight,        *)
(* age_boost).                                                             *)
LEMMA OlderIsWorthier ==
  ASSUME NEW b \in BOOLEAN, NEW c \in BOOLEAN,
         NEW v \in 0..MaxTime, NEW w \in 0..MaxTime, w <= v,
         \/ AgesCount /\ w < v /\ b = c
         \/ BatchRanksLower /\ b = FALSE /\ c = TRUE
  PROVE  /\ ModeWeight[b] * AgeBoost[b][v] \in Nat
         /\ ModeWeight[c] * AgeBoost[c][w] \in Nat
         /\ 0 < ModeWeight[c] * AgeBoost[c][w]
         /\ ModeWeight[c] * AgeBoost[c][w] < ModeWeight[b] * AgeBoost[b][v]
<1>1. CASE AgesCount /\ w < v /\ b = c
  BY <1>1, AgeingKeeps
<1>2. CASE BatchRanksLower /\ b = FALSE /\ c = TRUE
  <2> DEFINE m == ModeWeight[c] * AgeBoost[c][w]
             n == ModeWeight[b] * AgeBoost[b][w]
             p == ModeWeight[b] * AgeBoost[b][v]
  <2>1. m < n
    BY ONLY <1>2, w \in 0..MaxTime, Zenon DEF BatchRanksLower
  <2>2. w <= w
    BY JobAssumption
  <2>3. m \in Nat /\ 0 < m
    BY <2>2, AgeingKeeps
  <2>4. n \in Nat /\ p \in Nat /\ n <= p
    BY AgeingKeeps
  <2> HIDE DEF m, n, p
  <2>5. m < p
    BY <2>1, <2>3, <2>4
  <2> QED BY <2>3, <2>4, <2>5 DEF m, p
<1> QED BY <1>1, <1>2

(* The same for the head jobs of two candidates.                           *)
LEMMA WorthOf ==
  ASSUME SchedulerInv, ScoreInv, NEW s \in Active(queues), NEW t \in Active(queues),
         Deserves(Head(queues[t]), Head(queues[s]))
  PROVE  Worth(t) \in Nat /\ Worth(s) \in Nat /\ 0 < Worth(s) /\ Worth(s) < Worth(t)
<1> DEFINE d == Head(queues[s])
           e == Head(queues[t])
           b == e.job \in Batch
           c == d.job \in Batch
           v == now - e.submit_time
           w == now - d.submit_time
<1>1. /\ s \in Slot /\ queues[s] \in Seq(Entry) /\ queues[s] # <<>> /\ d \in Entry
      /\ t \in Slot /\ queues[t] \in Seq(Entry) /\ queues[t] # <<>> /\ e \in Entry
  BY HeadOfActive
<1>2. d \in ToSet(queues[s]) /\ e \in ToSet(queues[t])
  BY <1>1, TailJobs
<1>3. d.submit_time <= now /\ e.submit_time <= now
  BY <1>1, <1>2 DEF ScoreInv, Submitted
<1> HIDE DEF d, e
<1>4. d.submit_time \in 0..MaxTime /\ e.submit_time \in 0..MaxTime
  BY <1>1, EntryJob
<1>5. now \in 0..MaxTime /\ MaxTime \in Nat
  BY JobAssumption DEF SchedulerInv, TypeOK
<1>6. /\ e.submit_time <= d.submit_time
      /\ \/ AgesCount /\ e.submit_time < d.submit_time /\ (b <=> c)
         \/ BatchRanksLower /\ ~b /\ c
  BY DEF d, e, Deserves
<1>7. v \in 0..MaxTime /\ w \in 0..MaxTime /\ w <= v
  BY <1>3, <1>4, <1>5, <1>6
<1>8. e.submit_time < d.submit_time => w < v
  BY <1>4, <1>5
<1>9. Worth(t) = ModeWeight[b] * AgeBoost[b][v] /\ Worth(s) = ModeWeight[c] * AgeBoost[c][w]
  BY DEF Worth, d, e
<1>10. b \in BOOLEAN /\ c \in BOOLEAN
  OBVIOUS
<1> HIDE DEF b, c, v, w
<1>11. \/ AgesCount /\ w < v /\ b = c
       \/ BatchRanksLower /\ b = FALSE /\ c = TRUE
  <2>1. CASE b
    <3>1. b = TRUE
      BY <1>10, <2>1
    <3>2. AgesCount /\ e.submit_time < d.submit_time /\ c
      BY <1>6, <2>1
    <3> QED BY <1>8, <1>10, <3>1, <3>2
  <2>2. CASE ~b
    <3>1. b = FALSE
      BY <1>10, <2>2
    <3>2. CASE c
      <4>1. c = TRUE
        BY <1>10, <3>2
      <4> QED BY <1>6, <2>2, <3>1, <3>2, <4>1
    <3>3. CASE ~c
      <4>1. c = FALSE
        BY <1>10, <3>3
      <4> QED BY <1>6, <1>8, <3>1, <3>3, <4>1
    <3> QED BY <3>2, <3>3
  <2> QED BY <2>1, <2>2
<1> QED BY <1>7, <1>9, <1>10, <1>11, OlderIsWorthier

(* The denominator of the score, with its floor EPSILON and without        *)
(* capacity: a group no busier weighs no more in the lane.                 *)
LEMMA LoadOf ==
  ASSUME SchedulerInv, ScoreInv, NEW s \in Active(queues), NEW t \in Active(queues),
         s[1] = t[1], GroupUnits(t[1], t[2]) <= GroupUnits(s[1], s[2])
  PROVE  Load(t) \in Nat /\ Load(s) \in Nat /\ 0 < Load(t) /\ Load(t) <= Load(s)
<1> DEFINE cap == lane_capacity[s[1]]
           x == GroupUnits(t[1], t[2])
           y == GroupUnits(s[1], s[2])
<1>1. x \in Nat /\ y \in Nat /\ x <= y
  BY GroupUnitsType
<1>2. cap \in Nat
  <2>1. s[1] \in Lane
    BY HeadOfActive DEF Slot
  <2> QED BY <2>1 DEF SchedulerInv, TypeOK
<1>3. /\ Load(t) = IF cap > 0 /\ 100 * x > cap THEN 100 * x ELSE IF cap > 0 THEN cap ELSE 1
      /\ Load(s) = IF cap > 0 /\ 100 * y > cap THEN 100 * y ELSE IF cap > 0 THEN cap ELSE 1
  BY DEF Load
<1> HIDE DEF cap, x, y
<1> DEFINE p == 100 * x
           r == 100 * y
<1>4. p \in Nat /\ r \in Nat /\ p <= r
  BY <1>1
<1> HIDE DEF p, r
<1>5. /\ Load(t) = IF cap > 0 /\ p > cap THEN p ELSE IF cap > 0 THEN cap ELSE 1
      /\ Load(s) = IF cap > 0 /\ r > cap THEN r ELSE IF cap > 0 THEN cap ELSE 1
  BY <1>3 DEF p, r
<1>6. CASE cap = 0
  <2>1. Load(t) = 1 /\ Load(s) = 1
    BY <1>5, <1>6
  <2> QED BY <2>1
<1>7. CASE cap > 0
  <2>1. /\ Load(t) = IF p > cap THEN p ELSE cap
        /\ Load(s) = IF r > cap THEN r ELSE cap
    BY <1>5, <1>7
  <2> QED BY <1>2, <1>4, <1>7, <2>1
<1> QED BY <1>2, <1>6, <1>7

(* A candidate that deserves to go first has the higher score              *)
(* (PriorityScorer.score).                                                 *)
LEMMA DeservingOutscores ==
  ASSUME SchedulerInv, ScoreInv, Cycle,
         NEW s \in Active(queues), NEW t \in Active(queues),
         s[1] = t[1], Deserves(Head(queues[t]), Head(queues[s]))
  PROVE  Outscores(t, s)
<1> DEFINE d == Head(queues[s])
           e == Head(queues[t])
<1>1. /\ LaneOf[e.job] = t[1] /\ GroupOf[e.job] = t[2]
      /\ LaneOf[d.job] = s[1] /\ GroupOf[d.job] = s[2]
      /\ t[1] \in Lane /\ t[2] \in SchedGroup /\ s[2] \in SchedGroup
  BY HeadOfActive, JobAssumption DEF SlotOf, Slot
<1>2. Worth(t) \in Nat /\ Worth(s) \in Nat /\ 0 < Worth(s) /\ Worth(s) < Worth(t)
  BY WorthOf
<1>3. <<t[1], t[2], s[2]>> \notin busier'
  BY <1>1 DEF Deserves
<1>4. ~(GroupUnits(t[1], t[2]) > GroupUnits(t[1], s[2]))
  BY <1>1, <1>3 DEF Cycle, Busier
<1>5. GroupUnits(t[1], t[2]) <= GroupUnits(s[1], s[2])
  <2>1. GroupUnits(t[1], t[2]) \in Nat /\ GroupUnits(t[1], s[2]) \in Nat
    BY GroupUnitsType
  <2>2. GroupUnits(t[1], t[2]) <= GroupUnits(t[1], s[2])
    BY <1>4, <2>1
  <2> QED BY <2>2
<1>6. Load(t) \in Nat /\ Load(s) \in Nat /\ 0 < Load(t) /\ Load(t) <= Load(s)
  BY <1>5, LoadOf
<1>7. Worth(t) * Load(s) > Worth(s) * Load(t)
  BY <1>2, <1>6, MoreWorthLessLoad
<1> QED BY <1>7 DEF Outscores

(* A cycle never passes over a group for a job of its lane whose group has *)
(* never run less and that was submitted no earlier, if the group's job is *)
(* older and of the same mode and ages count, or is interactive, the other *)
(* batch and batch jobs rank lower (PriorityScorer.score;                  *)
(* NoPriorityInversion).  With alpha = 0 or a penalty that does not make   *)
(* batch jobs worth less, the case that needs it promises nothing.         *)
THEOREM SchedulerNeverInverts == Spec => NoPriorityInversion
<1> DEFINE Fair == \A f \in ToSet(dispatched') : \A g \in PassedOver(LaneOf[f.job]) :
                     \E s \in Contenders(LaneOf[f.job], g) : ~Deserves(Head(queues[s]), f)
<1>1. SchedulerInv /\ ScoreInv /\ Cycle => Fair
  <2> SUFFICES ASSUME SchedulerInv, ScoreInv, Cycle,
                      NEW f \in ToSet(dispatched'), NEW g \in PassedOver(LaneOf[f.job])
               PROVE  \E s \in Contenders(LaneOf[f.job], g) : ~Deserves(Head(queues[s]), f)
    OBVIOUS
  <2> DEFINE l == LaneOf[f.job]
             rest == Contenders(l, g)
  <2>1. PICK D \in Picks :
          /\ D \subseteq Active(queues)
          /\ ToSet(dispatched') = {Head(queues[s]) : s \in D}
    BY CycleTakes
  <2>2. PICK s \in D : f = Head(queues[s])
    BY <2>1
  <2>3. s \in Active(queues) /\ s \in Slot /\ SlotOf(f.job) = s /\ f.job \in JobId
    BY <2>1, <2>2, HeadOfActive
  <2>4. l = s[1] /\ l \in Lane
    BY <2>3, JobAssumption DEF SlotOf
  <2>5. /\ g \in SchedGroup /\ rest # {}
        /\ \A e \in ToSet(dispatched') : LaneOf[e.job] = l => GroupOf[e.job] # g
    BY DEF PassedOver
  <2>6. rest \cap D = {}
    <3> SUFFICES ASSUME NEW t \in D, t \in rest PROVE FALSE
      OBVIOUS
    <3>1. t[1] = l /\ t[2] = g
      BY DEF Contenders
    <3>2. SlotOf(Head(queues[t]).job) = t
      BY <2>1, HeadOfActive
    <3>3. LaneOf[Head(queues[t]).job] = l /\ GroupOf[Head(queues[t]).job] = g
      BY <3>1, <3>2 DEF SlotOf
    <3> QED BY <2>1, <2>5, <3>3
  <2>7. PICK t \in rest : ~Outscores(t, s)
    BY <2>4, <2>5, <2>6 DEF Picks, Contenders
  <2>8. t \in Active(queues) /\ t[1] = s[1]
    BY <2>4 DEF Contenders, TopUsers
  <2>9. ~Deserves(Head(queues[t]), f)
    BY <2>2, <2>3, <2>7, <2>8, DeservingOutscores
  <2> QED BY <2>9
<1>2. Next /\ dispatched = <<>> /\ dispatched' # <<>> => Cycle
  BY DEF Next, IdleCycle, Admit, Defer, Drop, Tick, Enqueue, RemoveJob, Start, Finish, SetLaneCapacity
<1>3. SchedulerInv /\ ScoreInv /\ [Next]_vars =>
        [dispatched = <<>> /\ dispatched' # <<>> => Fair]_vars
  BY <1>1, <1>2
<1> QED BY <1>3, SchedulerInvariant, ScoreInvariant, PTL DEF Spec, NoPriorityInversion
=============================================================================
