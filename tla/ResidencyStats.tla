--------------------------- MODULE ResidencyStats ---------------------------
(***************************************************************************)
(* estimation/residency_stats.py: how long the pods of a group ran, as a   *)
(* fraction of their deadline, and the profile that the wait estimates are *)
(* made from.                                                              *)
(*                                                                         *)
(* The pod watch records a completion under the lock, statement by         *)
(* statement here, because profile_for takes only the reference to the     *)
(* accumulator under it and reads the numbers after.  One stratum (group,  *)
(* lane, mode): strata share nothing but the lock.  Fractions are integers *)
(* over One, squares over One * One.  Each update divides by AlphaDen once *)
(* more, so with that many powers of it in One every value is exact.       *)
(***************************************************************************)
EXTENDS Integers, Sequences

CONSTANTS
  MaxRecords,    \* bound: completions recorded
  AlphaNum, AlphaDen,   \* ewma_alpha, between 0 and 1
  Unit,          \* residencies are fractions over Unit
  Residencies,   \* what the callers pass, also outside 0..Unit
  PriorMean, PriorVar,   \* the prior, over One and One * One
  PriorWeights   \* the values --prior-weight may have

Scale == AlphaDen ^ (MaxRecords - 1)
One == Unit * Scale

(* The third conjunct is for the provers, which know nothing of ^.         *)
ASSUME ResidencyAssumption ==
  /\ MaxRecords \in Nat \ {0} /\ Unit \in Nat \ {0} /\ Residencies \subseteq Int
  /\ AlphaDen \in Nat /\ AlphaNum \in 1..(AlphaDen - 1)
  /\ \A b \in {AlphaDen, AlphaDen - AlphaNum} :
       b ^ 0 = 1 /\ \A k \in 0..MaxRecords : b ^ (k + 1) = b * b ^ k
  /\ PriorMean \in 1..(One - 1) /\ PriorVar \in Nat \ {0}
  /\ PriorWeights \subseteq Nat

VARIABLES
  prior_weight,
  acc,       \* the _EWMA of the stratum: n, mean, var; exists if in _strata
  wpc,       \* where record is
  x, diff,   \* its locals
  rpc,       \* where profile_for is
  got,       \* what it has read: n, mean, var
  profile,   \* the last result, [mean, var] as fractions <<num, den>>
  \* history
  seen,      \* the residencies recorded or being recorded, clamped
  torn       \* a record ran while the numbers were read

residencyVars == <<prior_weight, acc, wpc, x, diff, rpc, got, profile, seen, torn>>

Nothing == [n |-> 0, mean |-> 0, var |-> 0]
NoProfile == [mean |-> <<0, 0>>, var |-> <<0, 0>>]
PriorProfile == [mean |-> <<PriorMean, One>>, var |-> <<PriorVar, One * One>>]

ResidencyInit ==
  /\ prior_weight \in PriorWeights
  /\ acc = [exists |-> FALSE, n |-> 0, mean |-> 0, var |-> 0]
  /\ wpc = "idle" /\ x = 0 /\ diff = 0
  /\ rpc = "idle" /\ got = Nothing /\ profile = NoProfile
  /\ seen = <<>> /\ torn = FALSE

-----------------------------------------------------------------------------
(* record and _EWMA.update, under the lock until the last step.            *)

Clamped(v) == (IF v < 0 THEN 0 ELSE IF v > Unit THEN Unit ELSE v) * Scale

(* The lock is free, a stratum without an entry gets one.                  *)
Record(v) ==
  /\ wpc = "idle"
  /\ Len(seen) < MaxRecords
  /\ x' = Clamped(v)
  /\ seen' = Append(seen, Clamped(v))
  /\ acc' = [acc EXCEPT !.exists = TRUE]
  /\ wpc' = "count"
  /\ torn' = (rpc # "idle")
  /\ UNCHANGED <<prior_weight, diff, rpc, got, profile>>

Count ==
  /\ wpc = "count"
  /\ acc' = [acc EXCEPT !.n = @ + 1]
  /\ diff' = x - acc.mean
  /\ wpc' = "mean"
  /\ UNCHANGED <<prior_weight, x, rpc, got, profile, seen, torn>>

(* The first residency is the mean; later ones move it by alpha * diff.    *)
SetMean ==
  /\ wpc = "mean"
  /\ acc' = [acc EXCEPT !.mean = IF acc.n = 1 THEN x ELSE @ + (AlphaNum * diff) \div AlphaDen]
  /\ wpc' = IF acc.n = 1 THEN "idle" ELSE "var"
  /\ UNCHANGED <<prior_weight, x, diff, rpc, got, profile, seen, torn>>

(* (1 - alpha) * (var + alpha * d ** 2)                                    *)
Discounted(var, d) ==
  ((AlphaDen - AlphaNum) * (var + (AlphaNum * d * d) \div AlphaDen)) \div AlphaDen

(* Mutant of SetVar: takes the difference to the mean it has just moved.   *)
SetVarLate ==
  /\ wpc = "var"
  /\ acc' = [acc EXCEPT !.var = Discounted(@, x - acc.mean)]
  /\ wpc' = "idle"
  /\ UNCHANGED <<prior_weight, x, diff, rpc, got, profile, seen, torn>>

SetVar ==
  /\ wpc = "var"
  /\ acc' = [acc EXCEPT !.var = Discounted(@, diff)]
  /\ wpc' = "idle"
  /\ UNCHANGED <<prior_weight, x, diff, rpc, got, profile, seen, torn>>

-----------------------------------------------------------------------------
(* profile_for: the accumulator is fetched under the lock, n, mean and     *)
(* variance are read without it.                                           *)

(* Mutant of Fetch: the lock is not taken.                                 *)
FetchUnlocked ==
  /\ rpc = "idle"
  /\ IF acc.exists /\ acc.n > 0
       THEN rpc' = "n" /\ UNCHANGED profile
       ELSE rpc' = "idle" /\ profile' = PriorProfile
  /\ torn' = (wpc # "idle")
  /\ UNCHANGED <<prior_weight, acc, wpc, x, diff, got, seen>>

(* Without an entry the prior is the answer.  One that exists has n > 0:   *)
(* it was made and updated under one hold of the lock.                     *)
Fetch ==
  /\ rpc = "idle" /\ wpc = "idle"
  /\ IF acc.exists /\ acc.n > 0
       THEN rpc' = "n" /\ UNCHANGED profile
       ELSE rpc' = "idle" /\ profile' = PriorProfile
  /\ torn' = FALSE
  /\ UNCHANGED <<prior_weight, acc, wpc, x, diff, got, seen>>

ReadCount ==
  /\ rpc = "n"
  /\ got' = [got EXCEPT !.n = acc.n]
  /\ rpc' = "mean"
  /\ UNCHANGED <<prior_weight, acc, wpc, x, diff, profile, seen, torn>>

ReadMean ==
  /\ rpc = "mean"
  /\ got' = [got EXCEPT !.mean = acc.mean]
  /\ rpc' = "var"
  /\ UNCHANGED <<prior_weight, acc, wpc, x, diff, profile, seen, torn>>

(* The property variance looks at n again.                                 *)
ReadVariance ==
  /\ rpc = "var"
  /\ got' = [got EXCEPT !.var = IF acc.n >= 2 THEN acc.var ELSE 0]
  /\ rpc' = "blend"
  /\ UNCHANGED <<prior_weight, acc, wpc, x, diff, profile, seen, torn>>

(* post_mean and post_var of _posterior, as fractions.                     *)
PosteriorMean(w, a) == <<w * PriorMean + a.n * a.mean, (w + a.n) * One>>

(* Mutant of PosteriorVar: the means' distance is not weighted by n_eff.   *)
PosteriorVarWide(w, a) ==
  LET d == PriorMean - a.mean IN
  <<(w + a.n) * (w * PriorVar + a.n * a.var) + w * a.n * d * d * (w + a.n),
    (w + a.n) * (w + a.n) * One * One>>

PosteriorVar(w, a) ==
  LET d == PriorMean - a.mean IN
  <<(w + a.n) * (w * PriorVar + a.n * a.var) + w * a.n * d * d,
    (w + a.n) * (w + a.n) * One * One>>

(* Mutant of InsideOpen: no clamp.                                         *)
InsideWherever(f) == f

(* The mean is kept in [0.01, 0.99], the deviation at 0.01 or more.        *)
InsideOpen(f) ==
  IF 100 * f[1] < f[2] THEN <<1, 100>>
  ELSE IF 100 * f[1] > 99 * f[2] THEN <<99, 100>> ELSE f
AtLeastTiny(f) == IF 10000 * f[1] < f[2] THEN <<1, 10000>> ELSE f

Blend ==
  /\ rpc = "blend"
  /\ profile' = [mean |-> InsideOpen(PosteriorMean(prior_weight, got)),
                 var |-> AtLeastTiny(PosteriorVar(prior_weight, got))]
  /\ got' = Nothing
  /\ rpc' = "idle"
  /\ UNCHANGED <<prior_weight, acc, wpc, x, diff, seen, torn>>

ResidencyNext ==
  \/ \E v \in Residencies : Record(v)
  \/ Count \/ SetMean \/ SetVar
  \/ Fetch \/ ReadCount \/ ReadMean \/ ReadVariance \/ Blend

ResidencySpec == ResidencyInit /\ [][ResidencyNext]_residencyVars

-----------------------------------------------------------------------------
(* Properties.                                                             *)

(* The weights of n observations over AlphaDen ^ (n - 1): each has alpha of *)
(* what the later ones leave, the first all that is left.                  *)
Weights(n) ==
  LET left(i) == (AlphaDen - AlphaNum) ^ (n - i)
  IN  [i \in 1..n |-> IF i = 1 THEN left(1) ELSE AlphaNum * AlphaDen ^ (i - 2) * left(i)]

SumUpTo(t, n) ==
  LET sum[k \in 0..n] == IF k = 0 THEN 0 ELSE sum[k - 1] + t[k]
  IN  sum[n]

(* What _EWMA keeps statement by statement is the mean and the variance of *)
(* the observations under those weights: each update uses the difference   *)
(* to the mean before it (_EWMA.update).                                   *)
Squares(m) == [i \in DOMAIN seen |-> (seen[i] - m) * (seen[i] - m)]
Weighted(t, n) == SumUpTo([i \in 1..n |-> Weights(n)[i] * t[i]], n)

EwmaIsWeightedMoments ==
  wpc = "idle" /\ seen # <<>> =>
    LET n == Len(seen) IN
    /\ acc.n = n
    /\ AlphaDen ^ (n - 1) * acc.mean = Weighted(seen, n)
    /\ AlphaDen ^ (n - 1) * acc.var = Weighted(Squares(acc.mean), n)

Leq(f, g) == f[1] * g[2] <= g[1] * f[2]
Observed == {seen[i] : i \in DOMAIN seen}

(* Although n and the mean are read outside the lock and may belong to     *)
(* different updates, the mean of a profile never leaves the range of the  *)
(* prior and what the group's pods showed, unless the clamp moves it: an   *)
(* entry is never visible before its first update is complete              *)
(* (profile_for, record).                                                  *)
ProfileBetweenPriorAndObserved ==
  profile # NoProfile =>
    \/ profile.mean \in {<<1, 100>>, <<99, 100>>}
    \/ /\ \E v \in Observed \cup {PriorMean} : Leq(<<v, One>>, profile.mean)
       /\ \E v \in Observed \cup {PriorMean} : Leq(profile.mean, <<v, One>>)

(* Every profile is one that ResidencyProfile accepts, with a mean inside  *)
(* (0, 1) and a deviation above 0, also without a prior and when every pod *)
(* ran to its deadline; an exception here would end the refresh of all     *)
(* estimates (_posterior, ResidencyProfile.__post_init__).                 *)
ProfileIsValid ==
  profile # NoProfile =>
    /\ 0 < profile.mean[1] /\ profile.mean[1] < profile.mean[2]
    /\ 0 < profile.var[1]

(* A read that no record overlapped gives the mean and the variance of the *)
(* mixture of the prior, weighing prior_weight, and the group, weighing n: *)
(* the variance around the common mean (_posterior).                       *)
PosteriorIsMixture ==
  [][ rpc = "blend" /\ ~torn =>
      LET w == prior_weight
          n == acc.n
          mean == w * PriorMean + n * acc.mean     \* over (w + n) * One
          off(m) == ((w + n) * m - mean) * ((w + n) * m - mean)
          var == (w + n) * (w + n) * (w * PriorVar + n * acc.var)
                   + w * off(PriorMean) + n * off(acc.mean)
      IN  rpc' = "idle" =>
            /\ profile'.mean = InsideOpen(<<mean, (w + n) * One>>)
            /\ LET full == AtLeastTiny(<<var, (w + n) * (w + n) * (w + n) * One * One>>)
               IN  Leq(full, profile'.var) /\ Leq(profile'.var, full)
    ]_residencyVars
=============================================================================
