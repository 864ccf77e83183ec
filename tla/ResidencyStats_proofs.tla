------------------------ MODULE ResidencyStats_proofs ------------------------
(***************************************************************************)
(* What profile_for may return although it reads outside the lock, for any *)
(* number of completions, any residencies, priors and prior weights.       *)
(***************************************************************************)
EXTENDS ResidencyStats, WellFoundedInduction, TLAPS

(* The mean of two values, weighing w and n, is not below what neither of  *)
(* them is below (post_mean of _posterior).                                *)
LEMMA MeanAbove ==
  ASSUME NEW v \in Int, NEW p \in Int, NEW m \in Int,
         NEW w \in Nat, NEW n \in Nat, NEW one \in Nat, v <= p, v <= m
  PROVE  v * ((w + n) * one) <= (w * p + n * m) * one
<1>1. v * w <= w * p /\ v * n <= n * m
  OBVIOUS
<1>2. v * w + v * n <= w * p + n * m
  BY <1>1
<1>3. (v * w + v * n) * one <= (w * p + n * m) * one
  BY <1>2
<1>4. v * ((w + n) * one) = (v * w + v * n) * one
  OBVIOUS
<1> QED BY <1>3, <1>4

(* Nor above what neither of them is above.                                *)
LEMMA MeanBelow ==
  ASSUME NEW v \in Int, NEW p \in Int, NEW m \in Int,
         NEW w \in Nat, NEW n \in Nat, NEW one \in Nat, p <= v, m <= v
  PROVE  (w * p + n * m) * one <= v * ((w + n) * one)
<1>1. w * p <= v * w /\ n * m <= v * n
  OBVIOUS
<1>2. w * p + n * m <= v * w + v * n
  BY <1>1
<1>3. (w * p + n * m) * one <= (v * w + v * n) * one
  BY <1>2
<1>4. v * ((w + n) * one) = (v * w + v * n) * one
  OBVIOUS
<1> QED BY <1>3, <1>4

(* Division by a positive number.                                          *)
LEMMA DivBound ==
  ASSUME NEW a \in Int, NEW b \in Nat, b > 0
  PROVE  a \div b \in Int /\ b * (a \div b) <= a /\ a < b * (a \div b) + b
OBVIOUS

(* A fraction a / b of the way d does not pass its end (_EWMA.update).     *)
LEMMA Toward ==
  ASSUME NEW d \in Int, NEW b \in Nat, NEW a \in 1..(b - 1)
  PROVE  /\ (a * d) \div b \in Int
         /\ 0 <= d => 0 <= (a * d) \div b /\ (a * d) \div b <= d
         /\ d <= 0 => d <= (a * d) \div b /\ (a * d) \div b <= 0
<1> DEFINE q == (a * d) \div b
<1>1. a * d \in Int /\ b > 0
  OBVIOUS
<1>2. q \in Int /\ b * q <= a * d /\ a * d < b * q + b
  BY <1>1, DivBound
<1> HIDE DEF q
<1>3. CASE 0 <= d
  <2>1. 0 <= a * d /\ a * d <= b * d
    BY <1>3
  <2>2. 0 <= q 
    <3> SUFFICES ASSUME q <= -1 PROVE FALSE
      BY <1>2
    <3>1. b * q <= b * (-1)
      BY <1>2
    <3> QED BY <1>1, <1>2, <2>1, <3>1
  <2>3. q <= d
    <3> SUFFICES ASSUME d + 1 <= q PROVE FALSE
      BY <1>2
    <3>1. b * (d + 1) <= b * q
      BY <1>2
    <3>2. b * (d + 1) = b * d + b
      OBVIOUS
    <3> QED BY <1>1, <1>2, <2>1, <3>1, <3>2
  <2> QED BY <1>3, <2>2, <2>3, <1>2 DEF q
<1>4. CASE d <= 0
  <2>1. a * d <= 0 /\ b * d <= a * d
    BY <1>4
  <2>2. q <= 0
    <3> SUFFICES ASSUME 1 <= q PROVE FALSE
      BY <1>2
    <3>1. b * 1 <= b * q
      BY <1>2
    <3> QED BY <1>1, <1>2, <2>1, <3>1
  <2>3. d <= q
    <3> SUFFICES ASSUME q <= d - 1 PROVE FALSE
      BY <1>2
    <3>1. b * q <= b * (d - 1)
      BY <1>2
    <3>2. b * (d - 1) = b * d - b
      OBVIOUS
    <3> QED BY <1>1, <1>2, <2>1, <3>1, <3>2
  <2> QED BY <1>4, <2>2, <2>3, <1>2 DEF q
<1> QED BY <1>3, <1>4 DEF q

(* A step of alpha from m towards x0 stays between them.                   *)
LEMMA AlphaStep ==
  ASSUME ResidencyAssumption, NEW m \in Int, NEW x0 \in Int
  PROVE  LET m2 == m + (AlphaNum * (x0 - m)) \div AlphaDen
         IN  /\ m2 \in Int
             /\ \/ m <= m2 /\ m2 <= x0
                \/ x0 <= m2 /\ m2 <= m
<1> DEFINE s == (AlphaNum * (x0 - m)) \div AlphaDen
<1>1. /\ s \in Int
      /\ 0 <= x0 - m => 0 <= s /\ s <= x0 - m
      /\ x0 - m <= 0 => x0 - m <= s /\ s <= 0
  <2>1. x0 - m \in Int /\ AlphaDen \in Nat /\ AlphaNum \in 1..(AlphaDen - 1)
    BY DEF ResidencyAssumption
  <2> QED BY <2>1, Toward
<1> HIDE DEF s
<1>2. /\ m + s \in Int
      /\ \/ m <= m + s /\ m + s <= x0
         \/ x0 <= m + s /\ m + s <= m
  BY <1>1
<1> QED BY <1>2 DEF s

-----------------------------------------------------------------------------
(* Powers, and sums of integers.                                           *)

(* A set with 0 and with every successor up to n has all numbers up to n:  *)
(* the smallest number that it lacks (WFMin) cannot exist.                 *)
LEMMA UpTo ==
  ASSUME NEW n \in Nat, NEW T, 0 \in T,
         \A k \in 0..n : k \in T /\ k < n => k + 1 \in T
  PROVE  0..n \subseteq T
<1> DEFINE R == {ss \in Nat \X Nat : ss[1] < ss[2]}
           B == {k \in 0..n : k \notin T}
<1> SUFFICES ASSUME B # {} PROVE FALSE
  OBVIOUS
<1>1. IsWellFoundedOn(R, Nat) /\ B \subseteq Nat
  BY NatLessThanWellFounded DEF OpToRel
<1>2. PICK k \in B : \A i \in B : ~ (<<i, k>> \in R)
  <2> HIDE DEF R, B
  <2> QED BY <1>1, WFMin
<1>3. k \in 1..n
  OBVIOUS
<1>4. k - 1 \in 0..n /\ k - 1 < k /\ k - 1 < n
  BY <1>3
<1>5. k - 1 \notin B
  <2>1. <<k - 1, k>> \in R
    BY <1>3, <1>4
  <2> QED BY <1>2, <2>1
<1>6. k - 1 + 1 \in T
  BY <1>4, <1>5
<1> QED BY <1>3, <1>6

(* The powers that the weights and the scale are made of.                  *)
LEMMA Powers ==
  ASSUME ResidencyAssumption, NEW b \in {AlphaDen, AlphaDen - AlphaNum}
  PROVE  \A k \in 0..MaxRecords : b ^ k \in Nat /\ b ^ k > 0
<1> DEFINE T == {k \in 0..MaxRecords : b ^ k \in Nat /\ b ^ k > 0}
<1>1. b \in Nat /\ b > 0 /\ MaxRecords \in Nat
  BY DEF ResidencyAssumption
<1>2. 0 \in T
  BY <1>1 DEF ResidencyAssumption
<1>3. ASSUME NEW k \in 0..MaxRecords, k \in T, k < MaxRecords
      PROVE  k + 1 \in T
  <2>1. b ^ (k + 1) = b * b ^ k
    BY DEF ResidencyAssumption
  <2>2. b ^ k \in Nat /\ b ^ k > 0 /\ k + 1 \in 0..MaxRecords
    BY <1>3
  <2>3. b * b ^ k \in Nat /\ b * b ^ k > 0
    BY <1>1, <2>2
  <2> QED BY <2>1, <2>2, <2>3
<1>4. 0..MaxRecords \subseteq T
  <2> HIDE DEF T
  <2> QED BY ONLY <1>1, <1>2, <1>3, UpTo
<1> QED BY <1>4

(* What the fractions are over.                                            *)
LEMMA Numbers ==
  ASSUME ResidencyAssumption
  PROVE  Scale \in Nat /\ Scale > 0 /\ One \in Nat /\ One > 0
<1>1. MaxRecords - 1 \in 0..MaxRecords /\ Unit \in Nat /\ Unit > 0
  BY DEF ResidencyAssumption
<1>2. Scale \in Nat /\ Scale > 0
  BY <1>1, Powers DEF Scale
<1>3. Unit * Scale \in Nat /\ Unit * Scale > 0
  BY <1>1, <1>2
<1> QED BY <1>2, <1>3 DEF One

(* h[k] is the sum of the first k numbers of t.                            *)
AreSums(h, t, n) ==
  /\ h \in [0..n -> Int] /\ h[0] = 0
  /\ \A k \in 1..n : h[k] = h[k - 1] + t[k]

LEMMA SumsExist ==
  ASSUME NEW n \in Nat, NEW t, \A i \in 1..n : t[i] \in Int
  PROVE  \E h : AreSums(h, t, n)
<1> DEFINE T == {k \in 0..n : \E h : AreSums(h, t, k)}
<1>1. 0 \in T
  <2>1. AreSums([k \in 0..0 |-> 0], t, 0)
    BY DEF AreSums
  <2> QED BY <2>1
<1>2. ASSUME NEW k \in 0..n, k \in T, k < n
      PROVE  k + 1 \in T
  <2>1. PICK h : AreSums(h, t, k)
    BY <1>2
  <2> DEFINE h2 == [i \in 0..(k + 1) |-> IF i = k + 1 THEN h[k] + t[k + 1] ELSE h[i]]
  <2>2. h[k] \in Int /\ t[k + 1] \in Int
    BY <1>2, <2>1 DEF AreSums
  <2>3. h2 \in [0..(k + 1) -> Int]
    <3>1. \A i \in 0..k : h[i] \in Int
      BY <2>1 DEF AreSums
    <3> QED BY <2>2, <3>1
  <2>4. \A i \in 0..k : h2[i] = h[i]
    OBVIOUS
  <2>5. h2[k + 1] = h[k] + t[k + 1]
    OBVIOUS
  <2> HIDE DEF h2
  <2>6. ASSUME NEW i \in 1..(k + 1) PROVE h2[i] = h2[i - 1] + t[i]
    <3>1. CASE i = k + 1
      BY <2>4, <2>5, <3>1
    <3>2. CASE i \in 1..k
      BY <2>1, <2>4, <3>2 DEF AreSums
    <3> QED BY <3>1, <3>2
  <2>7. h2[0] = 0
    BY <2>1, <2>4 DEF AreSums
  <2>8. AreSums(h2, t, k + 1)
    BY <2>3, <2>6, <2>7 DEF AreSums
  <2> QED BY <1>2, <2>8
<1>3. 0..n \subseteq T
  <2> HIDE DEF T
  <2> QED BY ONLY <1>1, <1>2, n \in Nat, UpTo
<1> QED BY <1>3

(* SumUpTo is the last of them, whatever follows in t.                     *)
LEMMA SumIs ==
  ASSUME NEW n \in Nat, NEW t, NEW h, AreSums(h, t, n)
  PROVE  SumUpTo(t, n) = h[n]
<1> DEFINE Sums(f) == f = [k \in 0..n |-> IF k = 0 THEN 0 ELSE f[k - 1] + t[k]]
           it == CHOOSE f : Sums(f)
           T == {k \in 0..n : it[k] = h[k]}
<1>1. Sums(h)
  BY DEF AreSums
<1>2. Sums(it)
  <2> HIDE DEF Sums
  <2> QED BY <1>1
<1>3. SumUpTo(t, n) = it[n]
  BY DEF SumUpTo
<1> HIDE DEF it
<1>4. 0 \in T
  BY <1>1, <1>2
<1>5. ASSUME NEW k \in 0..n, k \in T, k < n PROVE k + 1 \in T
  <2>1. k + 1 \in 0..n /\ k + 1 # 0 /\ k + 1 - 1 = k /\ it[k] = h[k]
    BY <1>5
  <2>2. it[k + 1] = it[k] + t[k + 1] /\ h[k + 1] = h[k] + t[k + 1]
    BY <1>1, <1>2, <2>1
  <2> QED BY <2>1, <2>2
<1>6. 0..n \subseteq T
  <2> HIDE DEF T
  <2> QED BY ONLY <1>4, <1>5, n \in Nat, UpTo
<1> QED BY <1>3, <1>6

(* One number more.                                                        *)
LEMMA SumStep ==
  ASSUME NEW n \in Nat, NEW t, \A i \in 1..(n + 1) : t[i] \in Int
  PROVE  /\ SumUpTo(t, n) \in Int
         /\ SumUpTo(t, n + 1) = SumUpTo(t, n) + t[n + 1]
<1>1. n + 1 \in Nat
  OBVIOUS
<1>2. PICK h : AreSums(h, t, n + 1)
  BY <1>1, SumsExist
<1> DEFINE g == [k \in 0..n |-> h[k]]
<1>3. AreSums(g, t, n)
  <2>1. \A k \in 0..n : k \in 0..(n + 1)
    OBVIOUS
  <2>2. g \in [0..n -> Int] /\ g[0] = 0
    BY <1>2, <2>1 DEF AreSums
  <2>3. ASSUME NEW k \in 1..n PROVE g[k] = g[k - 1] + t[k]
    BY <1>2, <2>3 DEF AreSums
  <2> QED BY <2>2, <2>3 DEF AreSums
<1>4. g[n] = h[n] /\ h[n] \in Int /\ h[n + 1] = h[n] + t[n + 1]
  BY <1>2 DEF AreSums
<1> HIDE DEF g
<1>5. SumUpTo(t, n) = g[n] /\ SumUpTo(t, n + 1) = h[n + 1]
  BY <1>1, <1>2, <1>3, SumIs
<1> QED BY <1>4, <1>5

(* A sum of combinations is the combination of the sums.                   *)
LEMMA SumLinear ==
  ASSUME NEW n \in Nat, NEW t, NEW u, NEW v, NEW w,
         NEW a \in Int, NEW b \in Int, NEW c \in Int,
         \A i \in 1..n : /\ u[i] \in Int /\ v[i] \in Int /\ w[i] \in Int
                         /\ t[i] = a * u[i] + b * v[i] + c * w[i]
  PROVE  /\ SumUpTo(u, n) \in Int /\ SumUpTo(v, n) \in Int /\ SumUpTo(w, n) \in Int
         /\ SumUpTo(t, n) = a * SumUpTo(u, n) + b * SumUpTo(v, n) + c * SumUpTo(w, n)
<1>1. \A i \in 1..n : t[i] \in Int
  OBVIOUS
<1>2. PICK hu : AreSums(hu, u, n)
  BY SumsExist
<1>3. PICK hv : AreSums(hv, v, n)
  BY SumsExist
<1>4. PICK hw : AreSums(hw, w, n)
  BY SumsExist
<1>5. PICK ht : AreSums(ht, t, n)
  BY <1>1, SumsExist
<1> DEFINE T == {k \in 0..n : ht[k] = a * hu[k] + b * hv[k] + c * hw[k]}
<1>6. 0 \in T
  BY <1>2, <1>3, <1>4, <1>5 DEF AreSums
<1>7. ASSUME NEW k \in 0..n, k \in T, k < n PROVE k + 1 \in T
  <2>1. k + 1 \in 1..n /\ k + 1 - 1 = k /\ k + 1 \in 0..n
    BY <1>7
  <2>2. /\ hu[k + 1] = hu[k] + u[k + 1] /\ hv[k + 1] = hv[k] + v[k + 1]
        /\ hw[k + 1] = hw[k] + w[k + 1] /\ ht[k + 1] = ht[k] + t[k + 1]
        /\ hu[k] \in Int /\ hv[k] \in Int /\ hw[k] \in Int
    <3>1. hu[k + 1] = hu[k] + u[k + 1] /\ hu[k] \in Int
      BY <1>2, <2>1 DEF AreSums
    <3>2. hv[k + 1] = hv[k] + v[k + 1] /\ hv[k] \in Int
      BY <1>3, <2>1 DEF AreSums
    <3>3. hw[k + 1] = hw[k] + w[k + 1] /\ hw[k] \in Int
      BY <1>4, <2>1 DEF AreSums
    <3>4. ht[k + 1] = ht[k] + t[k + 1]
      BY <1>5, <2>1 DEF AreSums
    <3> QED BY <3>1, <3>2, <3>3, <3>4
  <2>3. /\ u[k + 1] \in Int /\ v[k + 1] \in Int /\ w[k + 1] \in Int
        /\ t[k + 1] = a * u[k + 1] + b * v[k + 1] + c * w[k + 1]
    BY <2>1
  <2>4. ht[k] = a * hu[k] + b * hv[k] + c * hw[k]
    BY <1>7
  <2>5. ht[k + 1] = a * (hu[k] + u[k + 1]) + b * (hv[k] + v[k + 1]) + c * (hw[k] + w[k + 1])
    <3>1. /\ a * (hu[k] + u[k + 1]) = a * hu[k] + a * u[k + 1]
          /\ b * (hv[k] + v[k + 1]) = b * hv[k] + b * v[k + 1]
          /\ c * (hw[k] + w[k + 1]) = c * hw[k] + c * w[k + 1]
      BY <2>2, <2>3
    <3>2. /\ a * hu[k] \in Int /\ b * hv[k] \in Int /\ c * hw[k] \in Int
          /\ a * u[k + 1] \in Int /\ b * v[k + 1] \in Int /\ c * w[k + 1] \in Int
      BY <2>2, <2>3
    <3> QED BY <2>2, <2>3, <2>4, <3>1, <3>2
  <2> QED BY <2>1, <2>2, <2>5
<1>8. 0..n \subseteq T
  <2> HIDE DEF T
  <2> QED BY ONLY <1>6, <1>7, n \in Nat, UpTo
<1>9. ht[n] = a * hu[n] + b * hv[n] + c * hw[n]
  BY <1>8
<1>10. /\ SumUpTo(u, n) = hu[n] /\ SumUpTo(v, n) = hv[n]
       /\ SumUpTo(w, n) = hw[n] /\ SumUpTo(t, n) = ht[n]
  BY <1>2, <1>3, <1>4, <1>5, SumIs
<1>11. hu[n] \in Int /\ hv[n] \in Int /\ hw[n] \in Int
  BY <1>2, <1>3, <1>4 DEF AreSums
<1> QED BY <1>9, <1>10, <1>11

-----------------------------------------------------------------------------
(* The invariant.                                                          *)

ResidencyTypeOK ==
  /\ prior_weight \in Nat
  /\ acc \in [exists : BOOLEAN, n : Nat, mean : Int, var : Int]
  /\ wpc \in {"idle", "count", "mean", "var"}
  /\ x \in Int /\ diff \in Int
  /\ rpc \in {"idle", "n", "mean", "var", "blend"}
  /\ got \in [n : Nat, mean : Int, var : Int]
  /\ seen \in Seq(Int)

(* The entry has a mean: an update of it was completed.                    *)
Complete == acc.n >= 1 /\ ~(wpc = "mean" /\ acc.n = 1)

BetweenObserved(m) == \E a, b \in Observed : a <= m /\ m <= b

(* What record has in hand was observed, and diff belongs to the mean that *)
(* it will move.                                                           *)
RecordInHand ==
  /\ wpc # "idle" => x \in Observed
  /\ wpc = "mean" => acc.n >= 1 /\ diff = x - acc.mean
  /\ Complete => BetweenObserved(acc.mean)

(* profile_for reads only completed entries, n first.                      *)
ReadInHand ==
  /\ rpc # "idle" => Complete
  /\ rpc \in {"mean", "var", "blend"} => got.n >= 1
  /\ rpc \in {"var", "blend"} => BetweenObserved(got.mean)

ResidencyInv ==
  /\ ResidencyTypeOK
  /\ RecordInHand
  /\ ReadInHand
  /\ ProfileIsValid
  /\ ProfileBetweenPriorAndObserved

-----------------------------------------------------------------------------
(* Observations are only added, so what lies between them stays there, and *)
(* a profile that did not change stays right.                              *)
LEMMA ObservedGrows ==
  ASSUME ResidencyInv, NEW v \in Int, seen' = Append(seen, v)
  PROVE  /\ Observed \subseteq Observed' /\ v \in Observed'
         /\ \A m \in Int : BetweenObserved(m) => BetweenObserved(m)'
<1>1. seen \in Seq(Int) /\ Len(seen) \in Nat
  BY DEF ResidencyInv, ResidencyTypeOK
<1>2. /\ DOMAIN seen = 1..Len(seen)
      /\ DOMAIN seen' = 1..(Len(seen) + 1)
      /\ \A i \in 1..Len(seen) : seen'[i] = seen[i]
      /\ seen'[Len(seen) + 1] = v
  BY <1>1
<1>3. Observed \subseteq Observed' /\ v \in Observed'
  BY <1>1, <1>2 DEF Observed
<1> QED BY <1>3 DEF BetweenObserved

(* The last profile is not changed by what record and the reads do.        *)
LEMMA ProfileKept ==
  ASSUME ResidencyInv, profile' = profile, Observed \subseteq Observed'
  PROVE  ProfileIsValid' /\ ProfileBetweenPriorAndObserved'
BY DEF ResidencyInv, ProfileIsValid, ProfileBetweenPriorAndObserved, NoProfile, Leq

(* record clamps to integers over One.                                     *)
LEMMA Clamping ==
  ASSUME ResidencyAssumption, NEW v \in Residencies PROVE Clamped(v) \in Int
<1>1. \A u \in Int : u * Scale \in Int
  BY Numbers
<1> QED BY <1>1 DEF ResidencyAssumption, Clamped

(* The update under the lock (record, _EWMA.update).                       *)
LEMMA RecordKeeps ==
  ASSUME ResidencyAssumption, ResidencyInv, NEW v \in Residencies, Record(v)
  PROVE  ResidencyInv'
<1>1. /\ wpc = "idle" /\ wpc' = "count" /\ x' = Clamped(v)
      /\ seen' = Append(seen, Clamped(v))
      /\ acc' = [acc EXCEPT !.exists = TRUE]
      /\ prior_weight' = prior_weight /\ diff' = diff /\ rpc' = rpc
      /\ got' = got /\ profile' = profile
  BY DEF Record
<1>2. Clamped(v) \in Int
  BY Clamping
<1>3. /\ Observed \subseteq Observed' /\ Clamped(v) \in Observed'
      /\ \A m \in Int : BetweenObserved(m) => BetweenObserved(m)'
  BY <1>1, <1>2, ObservedGrows
<1>4. /\ acc' \in [exists : BOOLEAN, n : Nat, mean : Int, var : Int]
      /\ acc'.n = acc.n /\ acc'.mean = acc.mean
  BY <1>1 DEF ResidencyInv, ResidencyTypeOK
<1>5. ResidencyTypeOK'
  BY <1>1, <1>2, <1>4 DEF ResidencyInv, ResidencyTypeOK
<1>6. Complete' = Complete
  BY <1>1, <1>4 DEF Complete
<1>7. acc.mean \in Int /\ got.mean \in Int
  BY DEF ResidencyInv, ResidencyTypeOK
<1>8. BetweenObserved(acc.mean) => BetweenObserved(acc.mean)'
  BY <1>1, <1>3, <1>4, <1>7 DEF BetweenObserved
<1>9. RecordInHand'
  BY <1>1, <1>3, <1>4, <1>6, <1>8 DEF ResidencyInv, RecordInHand
<1>10. BetweenObserved(got.mean) => BetweenObserved(got.mean)'
  BY <1>1, <1>3, <1>7 DEF BetweenObserved
<1>11. ReadInHand'
  BY <1>1, <1>6, <1>10 DEF ResidencyInv, ReadInHand
<1>12. ProfileIsValid' /\ ProfileBetweenPriorAndObserved'
  BY <1>1, <1>3, ProfileKept
<1> QED BY <1>5, <1>9, <1>11, <1>12 DEF ResidencyInv

(* diff belongs to the mean before the update.                             *)
LEMMA CountKeeps ==
  ASSUME ResidencyInv, Count
  PROVE  ResidencyInv'
<1>1. /\ wpc = "count" /\ wpc' = "mean" /\ diff' = x - acc.mean
      /\ acc' = [acc EXCEPT !.n = @ + 1]
      /\ prior_weight' = prior_weight /\ x' = x /\ rpc' = rpc
      /\ got' = got /\ profile' = profile /\ seen' = seen
  BY DEF Count
<1>2. /\ acc.n \in Nat /\ acc' \in [exists : BOOLEAN, n : Nat, mean : Int, var : Int]
      /\ acc'.n = acc.n + 1 /\ acc'.mean = acc.mean
  <2>1. acc \in [exists : BOOLEAN, n : Nat, mean : Int, var : Int]
    BY DEF ResidencyInv, ResidencyTypeOK
  <2>2. acc.n \in Nat /\ acc.n + 1 \in Nat
    BY <2>1
  <2> QED BY <1>1, <2>1, <2>2
<1>3. ResidencyTypeOK'
  BY <1>1, <1>2 DEF ResidencyInv, ResidencyTypeOK
<1>4. Complete' <=> Complete
  BY <1>1, <1>2 DEF Complete
<1>5. Observed' = Observed
  BY <1>1 DEF Observed
<1>6. RecordInHand'
  BY <1>1, <1>2, <1>4, <1>5 DEF ResidencyInv, RecordInHand, BetweenObserved
<1>7. ReadInHand'
  BY <1>1, <1>4, <1>5 DEF ResidencyInv, ReadInHand, BetweenObserved
<1> QED BY <1>1, <1>3, <1>5, <1>6, <1>7, ProfileKept DEF ResidencyInv

(* The mean moves towards what was observed, and then exists.              *)
LEMMA SetMeanKeeps ==
  ASSUME ResidencyAssumption, ResidencyInv, SetMean
  PROVE  ResidencyInv'
<1> DEFINE mean == IF acc.n = 1 THEN x ELSE acc.mean + (AlphaNum * diff) \div AlphaDen
<1>1. /\ wpc = "mean" /\ wpc' \in {"idle", "var"}
      /\ acc' = [acc EXCEPT !.mean = mean]
      /\ prior_weight' = prior_weight /\ x' = x /\ diff' = diff /\ rpc' = rpc
      /\ got' = got /\ profile' = profile /\ seen' = seen
  BY DEF SetMean
<1>2. /\ x \in Observed /\ x \in Int /\ acc.mean \in Int /\ acc.n \in Nat /\ acc.n >= 1
      /\ diff = x - acc.mean
      /\ acc.n # 1 => BetweenObserved(acc.mean)
  BY <1>1 DEF ResidencyInv, RecordInHand, ResidencyTypeOK, Complete
<1>3. \A y \in Observed : y \in Int
  BY DEF ResidencyInv, ResidencyTypeOK, Observed
<1>4. mean \in Int /\ BetweenObserved(mean)
  <2>1. CASE acc.n = 1
    BY <2>1, <1>2 DEF BetweenObserved
  <2>2. CASE acc.n # 1
    <3>1. PICK a \in Observed, b \in Observed : a <= acc.mean /\ acc.mean <= b
      BY <2>2, <1>2 DEF BetweenObserved
    <3>2. /\ mean \in Int
          /\ \/ acc.mean <= mean /\ mean <= x
             \/ x <= mean /\ mean <= acc.mean
      BY <2>2, <1>2, AlphaStep
    <3>3. a \in Int /\ b \in Int
      BY <1>3
    <3> HIDE DEF mean
    <3>4. \/ a <= mean /\ mean <= x
          \/ x <= mean /\ mean <= b
      BY <1>2, <3>1, <3>2, <3>3
    <3> QED BY <1>2, <3>2, <3>4 DEF BetweenObserved
  <2> QED BY <2>1, <2>2
<1> HIDE DEF mean
<1>5. /\ acc' \in [exists : BOOLEAN, n : Nat, mean : Int, var : Int]
      /\ acc'.n = acc.n /\ acc'.mean = mean
  BY <1>1, <1>4 DEF ResidencyInv, ResidencyTypeOK
<1>6. ResidencyTypeOK'
  BY <1>1, <1>5 DEF ResidencyInv, ResidencyTypeOK
<1>7. Observed' = Observed
  BY <1>1 DEF Observed
<1>8. Complete'
  BY <1>1, <1>2, <1>5 DEF Complete
<1>9. RecordInHand'
  BY <1>1, <1>2, <1>4, <1>5, <1>7 DEF RecordInHand, BetweenObserved
<1>10. ReadInHand'
  BY <1>1, <1>7, <1>8 DEF ResidencyInv, ReadInHand, BetweenObserved
<1> QED BY <1>1, <1>6, <1>7, <1>9, <1>10, ProfileKept DEF ResidencyInv

(* The new variance is a number.                                           *)
LEMMA DiscountedType ==
  ASSUME ResidencyAssumption, NEW v \in Int, NEW d \in Int
  PROVE  Discounted(v, d) \in Int
<1>1. AlphaDen \in Nat /\ AlphaDen > 0 /\ AlphaNum \in Int
  BY DEF ResidencyAssumption
<1>2. AlphaNum * d * d \in Int
  BY <1>1
<1>3. (AlphaNum * d * d) \div AlphaDen \in Int
  BY <1>1, <1>2, DivBound
<1>4. (AlphaDen - AlphaNum) * (v + (AlphaNum * d * d) \div AlphaDen) \in Int
  BY <1>1, <1>3
<1> QED BY <1>1, <1>4, DivBound DEF Discounted

(* The end of the update changes no mean.                                  *)
LEMMA SetVarKeeps ==
  ASSUME ResidencyAssumption, ResidencyInv, SetVar
  PROVE  ResidencyInv'
<1> DEFINE var == Discounted(acc.var, diff)
<1>1. /\ wpc = "var" /\ wpc' = "idle"
      /\ acc' = [acc EXCEPT !.var = var]
      /\ prior_weight' = prior_weight /\ x' = x /\ diff' = diff /\ rpc' = rpc
      /\ got' = got /\ profile' = profile /\ seen' = seen
  BY DEF SetVar
<1>2. var \in Int
  <2>1. acc.var \in Int /\ diff \in Int
    BY DEF ResidencyInv, ResidencyTypeOK
  <2> QED BY <2>1, DiscountedType
<1> HIDE DEF var
<1>3. /\ acc' \in [exists : BOOLEAN, n : Nat, mean : Int, var : Int]
      /\ acc'.n = acc.n /\ acc'.mean = acc.mean
  BY <1>1, <1>2 DEF ResidencyInv, ResidencyTypeOK
<1>4. ResidencyTypeOK'
  BY <1>1, <1>3 DEF ResidencyInv, ResidencyTypeOK
<1>5. Observed' = Observed
  BY <1>1 DEF Observed
<1>6. Complete' <=> Complete
  BY <1>1, <1>3 DEF Complete
<1>7. RecordInHand'
  BY <1>1, <1>3, <1>5, <1>6 DEF ResidencyInv, RecordInHand, BetweenObserved
<1>8. ReadInHand'
  BY <1>1, <1>5, <1>6 DEF ResidencyInv, ReadInHand, BetweenObserved
<1> QED BY <1>1, <1>4, <1>5, <1>7, <1>8, ProfileKept DEF ResidencyInv

-----------------------------------------------------------------------------
(* The reads outside the lock, and what is made of them (profile_for).     *)

(* An entry without an update is answered by the prior.                    *)
LEMMA FetchKeeps ==
  ASSUME ResidencyAssumption, ResidencyInv, Fetch
  PROVE  ResidencyInv'
<1>1. /\ wpc = "idle"
      /\ prior_weight' = prior_weight /\ acc' = acc /\ wpc' = wpc /\ x' = x
      /\ diff' = diff /\ got' = got /\ seen' = seen
      /\ \/ acc.n > 0 /\ rpc' = "n" /\ profile' = profile
         \/ rpc' = "idle" /\ profile' = PriorProfile
  BY DEF Fetch
<1>2. Observed' = Observed /\ (Complete' <=> Complete)
  BY <1>1 DEF Observed, Complete
<1>3. ResidencyTypeOK'
  BY <1>1 DEF ResidencyInv, ResidencyTypeOK
<1>4. RecordInHand'
  BY <1>1, <1>2 DEF ResidencyInv, RecordInHand, BetweenObserved
<1>5. ReadInHand'
  <2>1. acc.n \in Nat
    BY DEF ResidencyInv, ResidencyTypeOK
  <2>2. rpc' # "idle" => Complete
    BY <1>1, <2>1 DEF Complete
  <2> QED BY <1>1, <1>2, <2>2 DEF ReadInHand
<1>6. ProfileIsValid' /\ ProfileBetweenPriorAndObserved'
  <2>1. CASE profile' = profile
    BY <2>1, <1>2, ProfileKept
  <2>2. CASE profile' = PriorProfile
    <3>1. /\ PriorMean \in Int /\ One \in Nat /\ PriorVar \in Nat /\ PriorVar > 0
          /\ 0 < PriorMean /\ PriorMean < One
      BY Numbers DEF ResidencyAssumption
    <3>2. /\ profile'.mean = <<PriorMean, One>>
          /\ profile'.var = <<PriorVar, One * One>>
      BY <2>2 DEF PriorProfile
    <3>3. ProfileIsValid'
      BY <3>1, <3>2 DEF ProfileIsValid
    <3>4. Leq(<<PriorMean, One>>, <<PriorMean, One>>)
      <4>1. PriorMean * One \in Int
        BY <3>1
      <4> QED BY <4>1 DEF Leq
    <3>5. ProfileBetweenPriorAndObserved'
      BY <3>2, <3>4 DEF ProfileBetweenPriorAndObserved, Leq
    <3> QED BY <3>3, <3>5
  <2> QED BY <1>1, <2>1, <2>2
<1> QED BY <1>3, <1>4, <1>5, <1>6 DEF ResidencyInv

(* n, mean and variance may belong to different updates.                   *)
LEMMA ReadsKeep ==
  ASSUME ResidencyInv, ReadCount \/ ReadMean \/ ReadVariance
  PROVE  ResidencyInv'
<1>1. /\ prior_weight' = prior_weight /\ acc' = acc /\ wpc' = wpc /\ x' = x
      /\ diff' = diff /\ profile' = profile /\ seen' = seen
      /\ rpc # "idle"
  BY DEF ReadCount, ReadMean, ReadVariance
<1>2. Observed' = Observed /\ (Complete' <=> Complete)
  BY <1>1 DEF Observed, Complete
<1>3. /\ acc \in [exists : BOOLEAN, n : Nat, mean : Int, var : Int]
      /\ got \in [n : Nat, mean : Int, var : Int]
      /\ Complete /\ acc.n >= 1 /\ BetweenObserved(acc.mean)
  BY <1>1 DEF ResidencyInv, ResidencyTypeOK, ReadInHand, RecordInHand, Complete
<1>4. RecordInHand'
  BY <1>1, <1>2 DEF ResidencyInv, RecordInHand, BetweenObserved
<1>5. ProfileIsValid' /\ ProfileBetweenPriorAndObserved'
  BY <1>1, <1>2, ProfileKept
<1>6. CASE ReadCount
  <2>1. /\ rpc' = "mean" /\ got' \in [n : Nat, mean : Int, var : Int] /\ got'.n = acc.n
    BY <1>3, <1>6 DEF ReadCount
  <2>2. ResidencyTypeOK' /\ ReadInHand'
    BY <1>1, <1>2, <1>3, <2>1 DEF ResidencyInv, ResidencyTypeOK, ReadInHand
  <2> QED BY <1>4, <1>5, <2>2 DEF ResidencyInv
<1>7. CASE ReadMean
  <2>1. /\ rpc = "mean" /\ rpc' = "var"
        /\ got' \in [n : Nat, mean : Int, var : Int]
        /\ got'.n = got.n /\ got'.mean = acc.mean
    BY <1>3, <1>7 DEF ReadMean
  <2>2. ResidencyTypeOK' /\ ReadInHand'
    BY <1>1, <1>2, <1>3, <2>1
    DEF ResidencyInv, ResidencyTypeOK, ReadInHand, BetweenObserved
  <2> QED BY <1>4, <1>5, <2>2 DEF ResidencyInv
<1>8. CASE ReadVariance
  <2>1. /\ rpc = "var" /\ rpc' = "blend"
        /\ got' \in [n : Nat, mean : Int, var : Int]
        /\ got'.n = got.n /\ got'.mean = got.mean
    BY <1>3, <1>8 DEF ReadVariance
  <2>2. ResidencyTypeOK' /\ ReadInHand'
    BY <1>1, <1>2, <1>3, <2>1
    DEF ResidencyInv, ResidencyTypeOK, ReadInHand, BetweenObserved
  <2> QED BY <1>4, <1>5, <2>2 DEF ResidencyInv
<1> QED BY <1>6, <1>7, <1>8

(* The clamps of _posterior.                                               *)
LEMMA InsideOpenIsOpen ==
  ASSUME NEW a \in Int, NEW b \in Int, b > 0
  PROVE  LET f == InsideOpen(<<a, b>>)
         IN  /\ 0 < f[1] /\ f[1] < f[2]
             /\ f \in {<<1, 100>>, <<99, 100>>} \/ f = <<a, b>>
BY DEF InsideOpen

(* The deviation stays positive.                                           *)
LEMMA AtLeastTinyPositive ==
  ASSUME NEW a \in Int, NEW b \in Int, b > 0
  PROVE  0 < AtLeastTiny(<<a, b>>)[1]
BY DEF AtLeastTiny

(* The denominators are positive.                                          *)
LEMMA PositiveProduct ==
  ASSUME NEW a \in Int, NEW b \in Int, a > 0, b > 0
  PROVE  a * b \in Int /\ a * b > 0
  OBVIOUS

(* Whatever was read, the posterior is valid and in between (_posterior).  *)
LEMMA BlendKeeps ==
  ASSUME ResidencyAssumption, ResidencyInv, Blend
  PROVE  ResidencyInv'
<1> DEFINE w == prior_weight
           n == got.n
           m == got.mean
<1>1. /\ rpc = "blend" /\ rpc' = "idle" /\ got' = Nothing
      /\ prior_weight' = prior_weight /\ acc' = acc /\ wpc' = wpc /\ x' = x
      /\ diff' = diff /\ seen' = seen
      /\ profile'.mean = InsideOpen(PosteriorMean(w, got))
      /\ profile'.var = AtLeastTiny(PosteriorVar(w, got))
  BY DEF Blend
<1>2. /\ w \in Nat /\ n \in Nat /\ n >= 1 /\ m \in Int /\ got.var \in Int
      /\ PriorMean \in Int /\ PriorVar \in Int /\ One \in Nat /\ One > 0
      /\ BetweenObserved(m)
  BY <1>1, Numbers DEF ResidencyAssumption, ResidencyInv, ResidencyTypeOK, ReadInHand
<1>3. Observed' = Observed /\ (Complete' <=> Complete)
  BY <1>1 DEF Observed, Complete
<1>4. ResidencyTypeOK'
  BY <1>1 DEF ResidencyInv, ResidencyTypeOK, Nothing
<1>5. RecordInHand'
  BY <1>1, <1>3 DEF ResidencyInv, RecordInHand, BetweenObserved
<1>6. ReadInHand'
  BY <1>1 DEF ReadInHand
<1> HIDE DEF w, n, m
<1> DEFINE a == w * PriorMean + n * m
           b == (w + n) * One
<1>7. a \in Int /\ b \in Int /\ b > 0
  <2>1. w + n \in Int /\ w + n > 0
    BY <1>2
  <2>2. b \in Int /\ b > 0
    BY <1>2, <2>1, PositiveProduct
  <2>3. w * PriorMean \in Int /\ n * m \in Int
    BY <1>2
  <2> QED BY <2>2, <2>3
<1>8. PosteriorMean(w, got) = <<a, b>>
  BY DEF PosteriorMean, n, m
<1>9. ProfileIsValid'
  <2>1. 0 < profile'.mean[1] /\ profile'.mean[1] < profile'.mean[2]
    <3> HIDE DEF a, b
    <3> QED BY <1>1, <1>7, <1>8, InsideOpenIsOpen
  <2>2. 0 < profile'.var[1]
    <3> DEFINE d == PriorMean - m
               c == (w + n) * (w * PriorVar + n * got.var) + w * n * d * d
               e == (w + n) * (w + n) * One * One
    <3>1. PosteriorVar(w, got) = <<c, e>>
      BY DEF PosteriorVar, n, m
    <3>2. c \in Int
      <4>1. /\ (w + n) * (w * PriorVar + n * got.var) \in Int
            /\ d \in Int /\ w * n \in Int
        BY <1>2
      <4>2. w * n * d * d \in Int
        <5> HIDE DEF d
        <5>1. w * n * d \in Int
          BY <4>1
        <5> QED BY <4>1, <5>1
      <4> QED BY <4>1, <4>2
    <3>3. e \in Int /\ e > 0
      <4>1. w + n \in Int /\ w + n > 0
        BY <1>2
      <4>2. (w + n) * (w + n) \in Int /\ (w + n) * (w + n) > 0
        BY <4>1, PositiveProduct
      <4>3. (w + n) * (w + n) * One \in Int /\ (w + n) * (w + n) * One > 0
        BY <4>2, <1>2, PositiveProduct
      <4> QED BY <4>3, <1>2, PositiveProduct
    <3> HIDE DEF c, e
    <3> QED BY <1>1, <3>1, <3>2, <3>3, AtLeastTinyPositive
  <2> QED BY <2>1, <2>2 DEF ProfileIsValid
<1>10. ProfileBetweenPriorAndObserved'
  <2>1. CASE InsideOpen(<<a, b>>) \in {<<1, 100>>, <<99, 100>>}
    BY <2>1, <1>1, <1>8 DEF ProfileBetweenPriorAndObserved
  <2>2. CASE InsideOpen(<<a, b>>) = <<a, b>>
    <3>1. PICK lo \in Observed, hi \in Observed : lo <= m /\ m <= hi
      BY <1>2 DEF BetweenObserved
    <3>2. lo \in Int /\ hi \in Int
      BY DEF ResidencyInv, ResidencyTypeOK, Observed
    <3>3. \E v \in Observed \cup {PriorMean} : v \in Int /\ v <= PriorMean /\ v <= m
      BY <1>2, <3>1, <3>2
    <3>4. \E v \in Observed \cup {PriorMean} : v \in Int /\ PriorMean <= v /\ m <= v
      BY <1>2, <3>1, <3>2
    <3>5. \E v \in Observed \cup {PriorMean} : Leq(<<v, One>>, <<a, b>>)
      <4>1. PICK v \in Observed \cup {PriorMean} : v \in Int /\ v <= PriorMean /\ v <= m
        BY <3>3
      <4>2. v * b <= a * One
        BY <4>1, <1>2, MeanAbove
      <4> QED BY <4>1, <4>2 DEF Leq
    <3>6. \E v \in Observed \cup {PriorMean} : Leq(<<a, b>>, <<v, One>>)
      <4>1. PICK v \in Observed \cup {PriorMean} : v \in Int /\ PriorMean <= v /\ m <= v
        BY <3>4
      <4>2. a * One <= v * b
        BY <4>1, <1>2, MeanBelow
      <4> QED BY <4>1, <4>2 DEF Leq
    <3>7. profile'.mean = <<a, b>>
      BY <2>2, <1>1, <1>8
    <3> HIDE DEF a, b
    <3> QED BY <3>5, <3>6, <3>7, <1>3 DEF ProfileBetweenPriorAndObserved, Leq
  <2>3. \/ InsideOpen(<<a, b>>) \in {<<1, 100>>, <<99, 100>>}
        \/ InsideOpen(<<a, b>>) = <<a, b>>
    <3> HIDE DEF a, b
    <3> QED BY <1>7, InsideOpenIsOpen
  <2> QED BY <2>1, <2>2, <2>3
<1> QED BY <1>4, <1>5, <1>6, <1>9, <1>10 DEF ResidencyInv

-----------------------------------------------------------------------------
(* A read that no update overlapped.                                       *)

(* There is no variance before the second update, and while torn is unset  *)
(* what profile_for holds is what the accumulator holds.                   *)
CleanReadInv ==
  /\ acc.n < 2 => acc.var = 0
  /\ wpc = "var" => acc.n >= 2
  /\ rpc # "idle" /\ ~torn =>
       /\ wpc = "idle"
       /\ rpc \in {"mean", "var", "blend"} => got.n = acc.n
       /\ rpc \in {"var", "blend"} => got.mean = acc.mean
       /\ rpc = "blend" => got.var = acc.var

(* record, statement by statement: it starts only with the lock, and then  *)
(* tears every read under way.                                             *)
LEMMA RecordKeepsClean ==
  ASSUME ResidencyInv, CleanReadInv,
         (\E v \in Residencies : Record(v)) \/ Count \/ SetMean \/ SetVar
  PROVE  CleanReadInv'
<1>1. /\ acc \in [exists : BOOLEAN, n : Nat, mean : Int, var : Int]
      /\ wpc = "mean" => acc.n >= 1
  BY DEF ResidencyInv, ResidencyTypeOK, RecordInHand
<1>2. CASE \E v \in Residencies : Record(v)
  <2>1. /\ wpc' = "count" /\ rpc' = rpc /\ torn' = (rpc # "idle")
        /\ acc' = [acc EXCEPT !.exists = TRUE]
    BY <1>2 DEF Record
  <2>2. acc'.n = acc.n /\ acc'.var = acc.var
    BY <1>1, <2>1
  <2> QED BY <2>1, <2>2 DEF CleanReadInv
<1>3. CASE Count
  <2>1. /\ wpc = "count" /\ wpc' = "mean" /\ rpc' = rpc /\ torn' = torn
        /\ acc' = [acc EXCEPT !.n = acc.n + 1]
    BY <1>3 DEF Count
  <2>2. acc'.n = acc.n + 1 /\ acc'.var = acc.var /\ acc.n \in Nat
    BY <1>1, <2>1
  <2> QED BY <2>1, <2>2 DEF CleanReadInv
<1>4. CASE SetMean
  <2>1. /\ wpc = "mean" /\ wpc' = (IF acc.n = 1 THEN "idle" ELSE "var")
        /\ rpc' = rpc /\ torn' = torn
        /\ acc' = [acc EXCEPT !.mean = IF acc.n = 1 THEN x ELSE acc.mean + (AlphaNum * diff) \div AlphaDen]
    BY <1>4 DEF SetMean
  <2>2. acc'.n = acc.n /\ acc'.var = acc.var /\ acc.n \in Nat /\ acc.n >= 1
    BY <1>1, <2>1
  <2> QED BY <2>1, <2>2 DEF CleanReadInv
<1>5. CASE SetVar
  <2>1. /\ wpc = "var" /\ wpc' = "idle" /\ rpc' = rpc /\ torn' = torn
        /\ acc' = [acc EXCEPT !.var = Discounted(acc.var, diff)]
    BY <1>5 DEF SetVar
  <2>2. acc'.n = acc.n /\ acc.n \in Nat
    BY <1>1, <2>1
  <2> QED BY <2>1, <2>2 DEF CleanReadInv
<1> QED BY <1>2, <1>3, <1>4, <1>5

(* profile_for reads what is there.                                        *)
LEMMA ReadKeepsClean ==
  ASSUME ResidencyInv, CleanReadInv,
         Fetch \/ ReadCount \/ ReadMean \/ ReadVariance \/ Blend
  PROVE  CleanReadInv'
<1>1. got \in [n : Nat, mean : Int, var : Int] /\ acc.n \in Nat
  BY DEF ResidencyInv, ResidencyTypeOK
<1>2. CASE Fetch
  BY <1>2 DEF Fetch, CleanReadInv
<1>3. CASE ReadCount
  BY <1>1, <1>3 DEF ReadCount, CleanReadInv
<1>4. CASE ReadMean
  BY <1>1, <1>4 DEF ReadMean, CleanReadInv
<1>5. CASE ReadVariance
  <2>1. /\ rpc = "var" /\ rpc' = "blend" /\ acc' = acc /\ wpc' = wpc /\ torn' = torn
        /\ got' = [got EXCEPT !.var = IF acc.n >= 2 THEN acc.var ELSE 0]
    BY <1>5 DEF ReadVariance
  <2>2. /\ got'.n = got.n /\ got'.mean = got.mean
        /\ got'.var = IF acc.n >= 2 THEN acc.var ELSE 0
    BY <1>1, <2>1
  <2> QED BY <1>1, <2>1, <2>2 DEF CleanReadInv
<1>6. CASE Blend
  BY <1>6 DEF Blend, CleanReadInv
<1> QED BY <1>2, <1>3, <1>4, <1>5, <1>6

(* The variance around the common mean, in the form that _posterior        *)
(* computes: the common mean is n_eff / (w + n_eff) of the means' distance *)
(* from the prior's, and the rest of it from the group's.                  *)
LEMMA VarianceAroundMean ==
  ASSUME NEW w \in Nat, NEW n \in Nat, NEW p \in Int, NEW pv \in Int,
         NEW m \in Int, NEW v \in Int
  PROVE  LET mean == w * p + n * m
             off(y) == ((w + n) * y - mean) * ((w + n) * y - mean)
         IN  (w + n) * (w + n) * (w * pv + n * v) + w * off(p) + n * off(m)
               = (w + n) * ((w + n) * (w * pv + n * v) + w * n * (p - m) * (p - m))
<1> DEFINE mean == w * p + n * m
           d == p - m
           s == w * pv + n * v
<1>1. /\ d \in Int /\ s \in Int
      /\ (w + n) * p - mean = n * d
      /\ (w + n) * m - mean = -(w * d)
  OBVIOUS
<1> HIDE DEF d, s
<1>2. (n * d) * (n * d) = n * n * (d * d) /\ (-(w * d)) * (-(w * d)) = w * w * (d * d)
  BY <1>1
<1>3. w * n * d * d = w * n * (d * d) /\ d * d \in Int
  BY <1>1
<1> DEFINE dd == d * d
<1>4. dd \in Int
  BY <1>3
<1> HIDE DEF dd
<1>5. (w + n) * (w + n) * s + w * (n * n * dd) + n * (w * w * dd)
        = (w + n) * ((w + n) * s + w * n * dd)
  <2>1. (w + n) * (w * n * dd) = w * (n * n * dd) + n * (w * w * dd)
    BY <1>4
  <2>2. (w + n) * ((w + n) * s) = (w + n) * (w + n) * s
    BY <1>1
  <2> DEFINE a == (w + n) * s
             b == w * n * dd
             c == w * (n * n * dd)
             e == n * (w * w * dd)
  <2>3. /\ a \in Int /\ b \in Int /\ c \in Int /\ e \in Int /\ w + n \in Int
        /\ (w + n) * b = c + e /\ (w + n) * a = (w + n) * (w + n) * s
    <3>1. w * n \in Int /\ n * n \in Int /\ w * w \in Int
      OBVIOUS
    <3>2. b \in Int /\ n * n * dd \in Int /\ w * w * dd \in Int
      BY <1>4, <3>1
    <3> QED BY <1>1, <2>1, <2>2, <3>2
  <2> HIDE DEF a, b, c, e
  <2>4. (w + n) * (a + b) = (w + n) * a + (w + n) * b
    BY <2>3
  <2>5. (w + n) * a + c + e = (w + n) * (a + b)
    <3>1. (w + n) * a \in Int
      BY <2>3
    <3> QED BY <2>3, <2>4, <3>1
  <2> QED BY <2>3, <2>5 DEF a, b, c, e
<1> QED BY <1>1, <1>2, <1>3, <1>5 DEF d, s, dd

(* The floor of the deviation does not depend on how a fraction is         *)
(* written.                                                                *)
LEMMA TinyScales ==
  ASSUME NEW a \in Int, NEW b \in Int, NEW c \in Nat, c > 0
  PROVE  /\ Leq(AtLeastTiny(<<c * a, c * b>>), AtLeastTiny(<<a, b>>))
         /\ Leq(AtLeastTiny(<<a, b>>), AtLeastTiny(<<c * a, c * b>>))
<1>1. /\ c * a \in Int /\ c * b \in Int
      /\ 10000 * (c * a) = c * (10000 * a)
      /\ (c * a) * b = a * (c * b)
  OBVIOUS
<1>2. c * (10000 * a) < c * b <=> 10000 * a < b
  <2> DEFINE e == 10000 * a
  <2>1. e \in Int
    OBVIOUS
  <2> HIDE DEF e
  <2>2. c * e < c * b <=> e < b
    BY <2>1
  <2> QED BY <2>2 DEF e
<1>3. CASE 10000 * a < b
  BY <1>1, <1>2, <1>3 DEF AtLeastTiny, Leq
<1>4. CASE ~(10000 * a < b)
  <2>1. /\ AtLeastTiny(<<c * a, c * b>>) = <<c * a, c * b>>
        /\ AtLeastTiny(<<a, b>>) = <<a, b>>
    BY <1>1, <1>2, <1>4 DEF AtLeastTiny
  <2>2. (c * a) * b \in Int /\ a * (c * b) \in Int
    BY <1>1
  <2> QED BY <1>1, <2>1, <2>2 DEF Leq
<1> QED BY <1>3, <1>4

-----------------------------------------------------------------------------
(* The theorems.                                                           *)

(* The invariant, from which the two theorems follow.                      *)
THEOREM ResidencyInvariant == ResidencySpec => []ResidencyInv
<1> USE ResidencyAssumption
<1>1. ResidencyInit => ResidencyInv
  <2> SUFFICES ASSUME ResidencyInit PROVE ResidencyInv
    OBVIOUS
  <2>1. ResidencyTypeOK
    BY DEF ResidencyInit, ResidencyTypeOK, Nothing, ResidencyAssumption
  <2>2. RecordInHand /\ ReadInHand
    BY DEF ResidencyInit, RecordInHand, ReadInHand, Complete
  <2>3. ProfileIsValid /\ ProfileBetweenPriorAndObserved
    BY DEF ResidencyInit, ProfileIsValid, ProfileBetweenPriorAndObserved
  <2> QED BY <2>1, <2>2, <2>3 DEF ResidencyInv
<1>2. ResidencyInv /\ [ResidencyNext]_residencyVars => ResidencyInv'
  <2> SUFFICES ASSUME ResidencyInv, [ResidencyNext]_residencyVars PROVE ResidencyInv'
    OBVIOUS
  <2>1. CASE \E v \in Residencies : Record(v)
    BY <2>1, RecordKeeps
  <2>2. CASE Count
    BY <2>2, CountKeeps
  <2>3. CASE SetMean
    BY <2>3, SetMeanKeeps
  <2>4. CASE SetVar
    BY <2>4, SetVarKeeps
  <2>5. CASE Fetch
    BY <2>5, FetchKeeps
  <2>6. CASE ReadCount \/ ReadMean \/ ReadVariance
    BY <2>6, ReadsKeep
  <2>7. CASE Blend
    BY <2>7, BlendKeeps
  <2>8. CASE UNCHANGED residencyVars
    BY <2>8 DEF residencyVars, ResidencyInv, ResidencyTypeOK, RecordInHand, ReadInHand,
       Complete, BetweenObserved, Observed, ProfileIsValid, ProfileBetweenPriorAndObserved,
       NoProfile, Leq
  <2> QED BY <2>1, <2>2, <2>3, <2>4, <2>5, <2>6, <2>7, <2>8 DEF ResidencyNext
<1> QED BY <1>1, <1>2, PTL DEF ResidencySpec

(* Every profile is accepted by ResidencyProfile (__post_init__ raises     *)
(* otherwise), also when its numbers were read while record changed them.  *)
THEOREM ProfilesAreValid == ResidencySpec => []ProfileIsValid
<1>1. ResidencyInv => ProfileIsValid
  BY DEF ResidencyInv
<1> QED BY <1>1, ResidencyInvariant, PTL

(* Its mean lies between the prior and what was observed, or at the clamp  *)
(* (profile_for, _posterior).                                              *)
THEOREM ProfilesBetween == ResidencySpec => []ProfileBetweenPriorAndObserved
<1>1. ResidencyInv => ProfileBetweenPriorAndObserved
  BY DEF ResidencyInv
<1> QED BY <1>1, ResidencyInvariant, PTL

(* An undisturbed read holds the accumulator's numbers.                    *)
LEMMA CleanReadInvariant == ResidencySpec => []CleanReadInv
<1>1. ResidencyInit => CleanReadInv
  BY DEF ResidencyInit, CleanReadInv
<1>2. ResidencyInv /\ CleanReadInv /\ [ResidencyNext]_residencyVars => CleanReadInv'
  <2> SUFFICES ASSUME ResidencyInv, CleanReadInv, [ResidencyNext]_residencyVars
               PROVE  CleanReadInv'
    OBVIOUS
  <2>1. CASE UNCHANGED residencyVars
    BY <2>1 DEF residencyVars, CleanReadInv
  <2> QED BY <2>1, RecordKeepsClean, ReadKeepsClean DEF ResidencyNext
<1> QED BY <1>1, <1>2, ResidencyInvariant, PTL DEF ResidencySpec

(* A profile whose read no completion overlapped has the mean and the      *)
(* variance of the mixture of the prior and the group (_posterior), for    *)
(* any prior, prior weight and history.                                    *)
THEOREM PosteriorOfMixture == ResidencySpec => PosteriorIsMixture
<1> DEFINE w == prior_weight
           n == acc.n
           m == acc.mean
           v == acc.var
           mean == w * PriorMean + n * m
           off(y) == ((w + n) * y - mean) * ((w + n) * y - mean)
           var == (w + n) * (w + n) * (w * PriorVar + n * v) + w * off(PriorMean) + n * off(m)
           full == AtLeastTiny(<<var, (w + n) * (w + n) * (w + n) * One * One>>)
           Mixture == /\ profile'.mean = InsideOpen(<<mean, (w + n) * One>>)
                      /\ Leq(full, profile'.var) /\ Leq(profile'.var, full)
<1>1. ASSUME ResidencyInv, CleanReadInv, [ResidencyNext]_residencyVars,
             rpc = "blend", ~torn, rpc' = "idle"
      PROVE  Mixture
  <2>1. Blend
    <3>1. rpc' # rpc
      BY <1>1
    <3> QED BY <1>1, <3>1 DEF ResidencyNext, residencyVars, Record, Count, SetMean, SetVar,
              Fetch, ReadCount, ReadMean, ReadVariance
  <2>2. /\ profile'.mean = InsideOpen(PosteriorMean(w, got))
        /\ profile'.var = AtLeastTiny(PosteriorVar(w, got))
    BY <2>1 DEF Blend
  <2>3. /\ got.n = n /\ got.mean = m /\ got.var = v
        /\ w \in Nat /\ n \in Nat /\ n >= 1 /\ m \in Int /\ v \in Int
        /\ PriorMean \in Int /\ PriorVar \in Int /\ One \in Nat
    BY <1>1, ResidencyAssumption, Numbers
       DEF ResidencyInv, ResidencyTypeOK, ReadInHand, CleanReadInv, ResidencyAssumption
  <2> DEFINE d == PriorMean - m
             a == (w + n) * (w * PriorVar + n * v) + w * n * d * d
             b == (w + n) * (w + n) * One * One
  <2>4. PosteriorMean(w, got) = <<mean, (w + n) * One>> /\ PosteriorVar(w, got) = <<a, b>>
    BY <2>3 DEF PosteriorMean, PosteriorVar
  <2>5. var = (w + n) * a
    <3> HIDE DEF w, n, m, v
    <3> QED BY <2>3, VarianceAroundMean
  <2>6. (w + n) * (w + n) * (w + n) * One * One = (w + n) * b
    <3> HIDE DEF w, n
    <3> DEFINE c == w + n
               one == One * One
    <3>1. c \in Int /\ One \in Int
      BY <2>3
    <3> HIDE DEF c
    <3>2. c * c * c * One * One = c * (c * c * One * One)
      BY <3>1
    <3> QED BY <3>2 DEF c
  <2>7. a \in Int /\ b \in Int /\ w + n \in Nat /\ w + n > 0
    <3> HIDE DEF w, n, m, v
    <3>1. d \in Int /\ (w + n) * (w * PriorVar + n * v) \in Int /\ w * n \in Int
      BY <2>3
    <3> HIDE DEF d
    <3>2. w * n * d * d \in Int
      BY <3>1
    <3>3. (w + n) * (w + n) \in Int
      BY <2>3
    <3>4. (w + n) * (w + n) * One \in Int
      BY <3>3, <2>3
    <3> QED BY <3>1, <3>2, <3>4, <2>3
  <2>8. full = AtLeastTiny(<<(w + n) * a, (w + n) * b>>)
    <3> HIDE DEF a, b, var
    <3> QED BY <2>5, <2>6
  <2>9. Leq(full, profile'.var) /\ Leq(profile'.var, full)
    <3> HIDE DEF a, b, full, w, n
    <3>1. profile'.var = AtLeastTiny(<<a, b>>)
      BY <2>2, <2>4
    <3>2. /\ Leq(AtLeastTiny(<<(w + n) * a, (w + n) * b>>), AtLeastTiny(<<a, b>>))
          /\ Leq(AtLeastTiny(<<a, b>>), AtLeastTiny(<<(w + n) * a, (w + n) * b>>))
      BY <2>7, TinyScales
    <3> QED BY <2>8, <3>1, <3>2 DEF Leq
  <2> QED BY <2>2, <2>4, <2>9
<1>2. ResidencyInv /\ CleanReadInv /\ [ResidencyNext]_residencyVars
        => [rpc = "blend" /\ ~torn => (rpc' = "idle" => Mixture)]_residencyVars
  BY <1>1
<1> QED BY <1>2, ResidencyInvariant, CleanReadInvariant, PTL DEF ResidencySpec, PosteriorIsMixture
-----------------------------------------------------------------------------
(* The moments (_EWMA.update).                                             *)

(* The first k observations, and what is kept of them.  Every update       *)
(* divides by AlphaDen once more, so m and v have to stay multiples of as  *)
(* many powers of it as there are updates to come.                         *)
Precision(k) == AlphaDen ^ (MaxRecords - k)
Ones == [i \in Nat |-> 1]
Around(s, m, k) == [i \in 1..k |-> (s[i] - m) * (s[i] - m)]
Multiple(a, b) == \E q \in Int : a = q * b

Moments(s, m, v, k) ==
  /\ m \in Int /\ Multiple(m, Precision(k))
  /\ v \in Int /\ Multiple(v, Precision(k) * Precision(k))
  /\ AlphaDen ^ (k - 1) = Weighted(Ones, k)
  /\ AlphaDen ^ (k - 1) * m = Weighted(s, k)
  /\ AlphaDen ^ (k - 1) * v = Weighted(Around(s, m, k), k)

(* The weights after one more observation.                                 *)
LEMMA WeightsStep ==
  ASSUME ResidencyAssumption, NEW k \in 1..(MaxRecords - 1)
  PROVE  /\ \A i \in 1..k : /\ Weights(k)[i] \in Int
                            /\ Weights(k + 1)[i] = (AlphaDen - AlphaNum) * Weights(k)[i]
         /\ Weights(k + 1)[k + 1] = AlphaNum * AlphaDen ^ (k - 1)
<1> DEFINE b == AlphaDen - AlphaNum
<1>1. /\ MaxRecords \in Nat /\ AlphaDen \in Int /\ AlphaNum \in Int /\ b \in Int
      /\ k \in Nat /\ k + 1 \in Nat
  BY DEF ResidencyAssumption
<1>2. \A j \in 0..MaxRecords : b ^ j \in Int /\ AlphaDen ^ j \in Int /\ b ^ (j + 1) = b * b ^ j
  BY Powers DEF ResidencyAssumption
<1>3. b ^ 0 = 1
  BY DEF ResidencyAssumption
<1> HIDE DEF b
<1>4. ASSUME NEW i \in 1..k
      PROVE  Weights(k)[i] \in Int /\ Weights(k + 1)[i] = b * Weights(k)[i]
  <2>1. k - i \in 0..MaxRecords /\ k + 1 - i = k - i + 1 /\ i \in 1..(k + 1)
    BY <1>1
  <2>2. b ^ (k + 1 - i) = b * b ^ (k - i) /\ b ^ (k - i) \in Int
    BY <1>2, <2>1
  <2>3. CASE i = 1
    <3>1. Weights(k)[i] = b ^ (k - i) /\ Weights(k + 1)[i] = b ^ (k + 1 - i)
      BY <2>1, <2>3 DEF Weights, b
    <3> QED BY <2>2, <3>1
  <2>4. CASE i # 1
    <3>1. i - 2 \in 0..MaxRecords
      BY <1>1, <2>4
    <3>2. AlphaDen ^ (i - 2) \in Int
      BY <1>2, <3>1
    <3>3. /\ Weights(k)[i] = AlphaNum * AlphaDen ^ (i - 2) * b ^ (k - i)
          /\ Weights(k + 1)[i] = AlphaNum * AlphaDen ^ (i - 2) * b ^ (k + 1 - i)
      BY <2>1, <2>4 DEF Weights, b
    <3> DEFINE p == AlphaDen ^ (i - 2)
               r == b ^ (k - i)
    <3>4. Weights(k)[i] = AlphaNum * p * r /\ Weights(k + 1)[i] = AlphaNum * p * (b * r)
      BY <2>2, <3>3
    <3>5. p \in Int /\ r \in Int
      BY <2>2, <3>2
    <3> HIDE DEF p, r
    <3> QED BY <1>1, <3>4, <3>5
  <2> QED BY <2>3, <2>4
<1>5. Weights(k + 1)[k + 1] = AlphaNum * AlphaDen ^ (k - 1)
  <2>1. k + 1 \in 1..(k + 1) /\ k + 1 # 1 /\ k + 1 - 2 = k - 1 /\ k + 1 - (k + 1) = 0
    BY <1>1
  <2>2. Weights(k + 1)[k + 1] = AlphaNum * AlphaDen ^ (k - 1) * b ^ 0
    BY <2>1 DEF Weights, b
  <2>3. AlphaDen ^ (k - 1) \in Int
    BY <1>1, <1>2
  <2> QED BY <1>1, <1>3, <2>2, <2>3
<1> QED BY <1>4, <1>5 DEF b

(* A sum with the new weights: the old one, discounted, and the new term.  *)
LEMMA WeightedStep ==
  ASSUME ResidencyAssumption, NEW k \in 1..(MaxRecords - 1),
         NEW t, \A i \in 1..(k + 1) : t[i] \in Int
  PROVE  /\ Weighted(t, k) \in Int
         /\ Weighted(t, k + 1) = (AlphaDen - AlphaNum) * Weighted(t, k)
                                    + AlphaNum * AlphaDen ^ (k - 1) * t[k + 1]
<1> DEFINE b == AlphaDen - AlphaNum
           old == [i \in 1..k |-> Weights(k)[i] * t[i]]
           new == [i \in 1..(k + 1) |-> Weights(k + 1)[i] * t[i]]
<1>1. /\ k \in Nat /\ b \in Int /\ MaxRecords \in Nat /\ AlphaNum \in Int
      /\ k - 1 \in 0..MaxRecords
  BY DEF ResidencyAssumption
<1>2. AlphaDen ^ (k - 1) \in Int
  BY <1>1, Powers
<1>3. /\ \A i \in 1..k : Weights(k)[i] \in Int /\ Weights(k + 1)[i] = b * Weights(k)[i]
      /\ Weights(k + 1)[k + 1] = AlphaNum * AlphaDen ^ (k - 1)
  BY WeightsStep
<1> HIDE DEF b
<1>4. ASSUME NEW i \in 1..k
      PROVE  old[i] \in Int /\ new[i] = b * old[i] + 0 * old[i] + 0 * old[i]
  <2>1. i \in 1..(k + 1) /\ t[i] \in Int
    BY <1>1
  <2>2. old[i] = Weights(k)[i] * t[i] /\ new[i] = Weights(k + 1)[i] * t[i]
    BY <2>1
  <2>3. Weights(k)[i] \in Int /\ Weights(k + 1)[i] = b * Weights(k)[i]
    BY <1>3
  <2> DEFINE wk == Weights(k)[i]
             wk1 == Weights(k + 1)[i]
  <2> HIDE DEF old, new, wk, wk1
  <2>4. wk \in Int /\ wk1 = b * wk
    BY <2>3 DEF wk, wk1
  <2>5. old[i] = wk * t[i] /\ new[i] = wk1 * t[i]
    BY <2>2 DEF wk, wk1
  <2>6. (b * wk) * t[i] = b * (wk * t[i])
    BY <1>1, <2>1, <2>4
  <2>7. wk * t[i] \in Int
    BY <2>1, <2>4
  <2> QED BY <1>1, <2>4, <2>5, <2>6, <2>7
<1>5. new[k + 1] = AlphaNum * AlphaDen ^ (k - 1) * t[k + 1]
  BY <1>1, <1>3
<1>6. AlphaNum * AlphaDen ^ (k - 1) * t[k + 1] \in Int
  BY <1>1, <1>2
<1> HIDE DEF old, new
<1>7. SumUpTo(old, k) \in Int /\ SumUpTo(new, k) = b * SumUpTo(old, k)
  <2>1. /\ SumUpTo(old, k) \in Int
        /\ SumUpTo(new, k) = b * SumUpTo(old, k) + 0 * SumUpTo(old, k) + 0 * SumUpTo(old, k)
    <3> HIDE <1>5
    <3> QED BY <1>1, <1>4, SumLinear
  <2> QED BY <1>1, <2>1
<1>8. \A i \in 1..(k + 1) : new[i] \in Int
  <2>1. \A i \in 1..k : new[i] \in Int
    BY <1>1, <1>4
  <2> QED BY <1>1, <1>5, <1>6, <2>1
<1>9. SumUpTo(new, k + 1) = SumUpTo(new, k) + new[k + 1]
  BY <1>1, <1>8, SumStep
<1> QED BY <1>5, <1>7, <1>9 DEF old, new, b, Weighted

(* Only the first k count, and a weighted sum is linear.                   *)
LEMMA WeightedSame ==
  ASSUME NEW k \in Nat, NEW t, NEW u, \A i \in 1..k : t[i] = u[i]
  PROVE  Weighted(t, k) = Weighted(u, k)
<1>1. [i \in 1..k |-> Weights(k)[i] * t[i]] = [i \in 1..k |-> Weights(k)[i] * u[i]]
  OBVIOUS
<1> QED BY <1>1 DEF Weighted

LEMMA WeightedLinear ==
  ASSUME ResidencyAssumption, NEW k \in 1..(MaxRecords - 1),
         NEW t, NEW u, NEW v, NEW w,
         NEW a \in Int, NEW b \in Int, NEW c \in Int,
         \A i \in 1..k : /\ u[i] \in Int /\ v[i] \in Int /\ w[i] \in Int
                         /\ t[i] = a * u[i] + b * v[i] + c * w[i]
  PROVE  Weighted(t, k) = a * Weighted(u, k) + b * Weighted(v, k) + c * Weighted(w, k)
<1> DEFINE wt == Weights(k)
           T == [i \in 1..k |-> wt[i] * t[i]]
           U == [i \in 1..k |-> wt[i] * u[i]]
           V == [i \in 1..k |-> wt[i] * v[i]]
           W == [i \in 1..k |-> wt[i] * w[i]]
<1>1. k \in Nat
  BY DEF ResidencyAssumption
<1>2. \A i \in 1..k : wt[i] \in Int
  BY WeightsStep
<1> HIDE DEF wt
<1>3. ASSUME NEW i \in 1..k
      PROVE  /\ U[i] \in Int /\ V[i] \in Int /\ W[i] \in Int
             /\ T[i] = a * U[i] + b * V[i] + c * W[i]
  <2>1. /\ T[i] = wt[i] * t[i] /\ U[i] = wt[i] * u[i]
        /\ V[i] = wt[i] * v[i] /\ W[i] = wt[i] * w[i]
    OBVIOUS
  <2>2. /\ wt[i] \in Int /\ u[i] \in Int /\ v[i] \in Int /\ w[i] \in Int
        /\ t[i] = a * u[i] + b * v[i] + c * w[i]
    BY <1>2
  <2>3. wt[i] * (a * u[i] + b * v[i] + c * w[i])
          = a * (wt[i] * u[i]) + b * (wt[i] * v[i]) + c * (wt[i] * w[i])
    BY <2>2
  <2>4. wt[i] * u[i] \in Int /\ wt[i] * v[i] \in Int /\ wt[i] * w[i] \in Int
    BY <2>2
  <2> HIDE DEF T, U, V, W
  <2> QED BY <2>1, <2>2, <2>3, <2>4
<1> HIDE DEF T, U, V, W
<1>4. SumUpTo(T, k) = a * SumUpTo(U, k) + b * SumUpTo(V, k) + c * SumUpTo(W, k)
  BY <1>1, <1>3, SumLinear
<1> QED BY <1>4 DEF T, U, V, W, Weighted, wt

LEMMA DivExact ==
  ASSUME NEW b \in Nat, b > 0, NEW q \in Int PROVE (b * q) \div b = q
OBVIOUS

(* The update divides without a rest.                                      *)
LEMMA UpdateExact ==
  ASSUME ResidencyAssumption, NEW c \in Int, NEW e \in Int, NEW u \in Int
  PROVE  LET d == e * (AlphaDen * c)
             v == u * ((AlphaDen * c) * (AlphaDen * c))
         IN  /\ (AlphaNum * d) \div AlphaDen = AlphaNum * e * c
             /\ Discounted(v, d)
                  = (AlphaDen - AlphaNum) * (u * AlphaDen + AlphaNum * e * e) * (c * c)
<1> DEFINE A == AlphaNum
           B == AlphaDen
           d == e * (B * c)
           v == u * ((B * c) * (B * c))
<1>1. B \in Nat /\ B > 0 /\ A \in Int /\ B - A \in Int
  BY DEF ResidencyAssumption
<1>2. /\ A * d = B * (A * e * c)
      /\ A * d * d = B * (A * e * e * B * c * c)
      /\ A * e * c \in Int /\ A * e * e * B * c * c \in Int
  <2> HIDE DEF A, B
  <2>1. A * (e * (B * c)) = B * (A * e * c)
    BY <1>1
  <2>2. A * (e * (B * c)) * (e * (B * c)) = B * (A * e * e * B * c * c)
    BY <1>1
  <2>3. A * e * c \in Int
    BY <1>1
  <2>4. A * e * e * B * c * c \in Int
    BY <1>1
  <2> QED BY <2>1, <2>2, <2>3, <2>4
<1> HIDE DEF A, B, d
<1>3. (A * d) \div B = A * e * c
  BY <1>1, <1>2, DivExact
<1>4. (A * d * d) \div B = A * e * e * B * c * c
  BY <1>1, <1>2, DivExact
<1>5. (B - A) * (v + A * e * e * B * c * c) = B * ((B - A) * (u * B + A * e * e) * (c * c))
  <2> QED BY <1>1
<1>6. (B - A) * (u * B + A * e * e) * (c * c) \in Int
  BY <1>1
<1>7. ((B - A) * (v + A * e * e * B * c * c)) \div B = (B - A) * (u * B + A * e * e) * (c * c)
  BY <1>1, <1>5, <1>6, DivExact
<1> QED BY <1>3, <1>4, <1>7 DEF A, B, d, Discounted

(* What was recorded is a multiple of every power still to be divided by.  *)
LEMMA PrecisionStep ==
  ASSUME ResidencyAssumption, NEW k \in 1..(MaxRecords - 1)
  PROVE  Precision(k + 1) \in Nat /\ Precision(k) = AlphaDen * Precision(k + 1)
<1>1. MaxRecords \in Nat /\ MaxRecords - (k + 1) \in 0..MaxRecords
      /\ MaxRecords - k = MaxRecords - (k + 1) + 1
  BY DEF ResidencyAssumption
<1>2. AlphaDen ^ (MaxRecords - (k + 1) + 1) = AlphaDen * AlphaDen ^ (MaxRecords - (k + 1))
  BY <1>1 DEF ResidencyAssumption
<1> QED BY <1>1, <1>2, Powers DEF Precision

LEMMA ScaleDivides ==
  ASSUME ResidencyAssumption, NEW k \in 1..MaxRecords
  PROVE  Multiple(Scale, Precision(k))
<1> DEFINE T == {i \in 0..(MaxRecords - 1) : Multiple(Scale, Precision(i + 1))}
<1>1. MaxRecords \in Nat /\ MaxRecords - 1 \in Nat /\ AlphaDen \in Int /\ k - 1 \in 0..(MaxRecords - 1)
  BY DEF ResidencyAssumption
<1>2. 0 \in T
  <2>1. Precision(0 + 1) = Scale
    BY DEF Precision, Scale
  <2>2. Scale \in Int /\ Scale = 1 * Scale
    BY Numbers
  <2> QED BY <1>1, <2>1, <2>2 DEF Multiple
<1>3. ASSUME NEW i \in 0..(MaxRecords - 1), i \in T, i < MaxRecords - 1 PROVE i + 1 \in T
  <2>1. PICK q \in Int : Scale = q * Precision(i + 1)
    BY <1>3 DEF Multiple
  <2>2. i + 1 \in 1..(MaxRecords - 1)
    BY <1>1, <1>3
  <2>3. Precision(i + 1 + 1) \in Nat /\ Precision(i + 1) = AlphaDen * Precision(i + 1 + 1)
    BY <2>2, PrecisionStep
  <2> DEFINE p == Precision(i + 1 + 1)
  <2>4. Scale = q * (AlphaDen * p) /\ p \in Int
    BY <2>1, <2>3
  <2> HIDE DEF p
  <2>5. Scale = (q * AlphaDen) * p /\ q * AlphaDen \in Int
    BY <1>1, <2>4
  <2>6. Multiple(Scale, p)
    BY <2>5 DEF Multiple
  <2> QED BY <1>1, <2>2, <2>6 DEF p
<1>4. 0..(MaxRecords - 1) \subseteq T
  <2> HIDE DEF T
  <2> QED BY ONLY <1>1, <1>2, <1>3, UpTo
<1>5. Multiple(Scale, Precision(k - 1 + 1))
  BY <1>1, <1>4
<1> QED BY <1>1, <1>5

(* One observation more, from the moments of the first k to those of the   *)
(* first k + 1 (_EWMA.update).                                             *)
LEMMA MomentsStep ==
  ASSUME ResidencyAssumption, NEW k \in 1..(MaxRecords - 1),
         NEW s, \A i \in 1..(k + 1) : s[i] \in Int, Multiple(s[k + 1], Scale),
         NEW m, NEW v, Moments(s, m, v, k)
  PROVE  LET d == s[k + 1] - m
         IN  Moments(s, m + (AlphaNum * d) \div AlphaDen, Discounted(v, d), k + 1)
<1> DEFINE A == AlphaNum
           B == AlphaDen
           P == AlphaDen ^ (k - 1)
           c == Precision(k + 1)
           x0 == s[k + 1]
           d == x0 - m
           q == (A * d) \div B
           m2 == m + q
           v2 == Discounted(v, d)
<1>1. /\ k \in Nat /\ k \in 1..MaxRecords /\ B \in Int /\ A \in Int
      /\ k + 1 - 1 = k - 1 + 1 /\ k - 1 \in 0..MaxRecords
  BY DEF ResidencyAssumption
<1>2. P \in Int /\ AlphaDen ^ (k + 1 - 1) = B * P
  <2>1. P \in Int
    BY <1>1, Powers
  <2>2. AlphaDen ^ (k - 1 + 1) = AlphaDen * AlphaDen ^ (k - 1)
    BY <1>1 DEF ResidencyAssumption
  <2> QED BY <1>1, <2>1, <2>2
<1>3. c \in Int /\ Precision(k) = B * c
  BY PrecisionStep
<1>4. m \in Int /\ v \in Int /\ x0 \in Int
  BY DEF Moments
<1> HIDE DEF A, B, P, c, x0
<1>5. PICK j \in Int : m = j * (B * c)
  BY <1>3 DEF Moments, Multiple
<1>6. PICK u \in Int : v = u * ((B * c) * (B * c))
  BY <1>3 DEF Moments, Multiple
<1>7. PICK y \in Int : x0 = y * (B * c)
  <2>1. PICK g \in Int : x0 = g * Scale
    BY DEF Multiple, x0
  <2>2. PICK h \in Int : Scale = h * (B * c)
    BY <1>1, <1>3, ScaleDivides DEF Multiple
  <2>3. x0 = (g * h) * (B * c) /\ g * h \in Int
    BY <1>1, <1>3, <2>1, <2>2
  <2> QED BY <2>3
<1> DEFINE e == y - j
<1>8. e \in Int /\ d = e * (B * c)
  BY <1>1, <1>3, <1>5, <1>7
<1> HIDE DEF e, d
<1>9. q = A * e * c /\ v2 = (B - A) * (u * B + A * e * e) * (c * c)
  <2>1. d = e * (AlphaDen * c) /\ v = u * ((AlphaDen * c) * (AlphaDen * c))
    BY <1>6, <1>8 DEF B
  <2>2. /\ (AlphaNum * d) \div AlphaDen = AlphaNum * e * c
        /\ Discounted(v, d) = (AlphaDen - AlphaNum) * (u * AlphaDen + AlphaNum * e * e) * (c * c)
    <3>1. c \in Int /\ e \in Int /\ u \in Int
      BY <1>3, <1>8
    <3>2. LET d0 == e * (AlphaDen * c)
              v0 == u * ((AlphaDen * c) * (AlphaDen * c))
          IN  /\ (AlphaNum * d0) \div AlphaDen = AlphaNum * e * c
              /\ Discounted(v0, d0)
                   = (AlphaDen - AlphaNum) * (u * AlphaDen + AlphaNum * e * e) * (c * c)
      BY ONLY ResidencyAssumption, <3>1, UpdateExact, Zenon
    <3> HIDE DEF q, v2, m2
    <3> QED BY ONLY <2>1, <3>2, Zenon
  <2> QED BY <2>2 DEF A, B
<1> HIDE DEF q, v2
<1>10. q \in Int /\ v2 \in Int /\ m2 \in Int /\ d \in Int
  <2>1. q \in Int
    BY <1>1, <1>3, <1>8, <1>9
  <2>2. v2 \in Int
    BY <1>1, <1>3, <1>8, <1>9
  <2>3. d \in Int
    BY <1>4 DEF d
  <2> QED BY <1>4, <2>1, <2>2, <2>3
<1>11. Multiple(m2, c)
  <2>1. m2 = (j * B + A * e) * c
    BY <1>1, <1>3, <1>5, <1>8, <1>9
  <2>2. j * B + A * e \in Int
    BY <1>1, <1>5, <1>8
  <2> QED BY <2>1, <2>2 DEF Multiple
<1>12. Multiple(v2, c * c)
  <2>1. (B - A) * (u * B + A * e * e) \in Int
    BY <1>1, <1>6, <1>8
  <2> QED BY <1>9, <2>1 DEF Multiple
<1>13. B * q = A * d
  <2>1. B * (A * e * c) = A * (e * (B * c))
    BY <1>1, <1>3, <1>8
  <2> QED BY <1>8, <1>9, <2>1
<1>14. /\ Weighted(Ones, k) = P /\ Weighted(s, k) = P * m
       /\ Weighted(Around(s, m, k), k) = P * v
  BY DEF Moments, P
(* The weights.                                                            *)
<1>15. Weighted(Ones, k + 1) = B * P
  <2>1. \A i \in 1..(k + 1) : Ones[i] = 1
    BY <1>1 DEF Ones
  <2>2. Weighted(Ones, k + 1) = (B - A) * Weighted(Ones, k) + A * P * Ones[k + 1]
    BY <2>1, WeightedStep DEF A, B, P
  <2>3. Ones[k + 1] = 1
    BY <1>1, <2>1
  <2> QED BY <1>1, <1>2, <1>14, <2>2, <2>3
(* The mean.                                                               *)
<1>16. Weighted(s, k + 1) = B * P * m2
  <2>1. Weighted(s, k + 1) = (B - A) * (P * m) + A * P * x0
    BY <1>14, WeightedStep DEF A, B, P, x0
  <2>2. (B - A) * (P * m) + A * P * x0 = P * (B * m + A * (x0 - m))
    BY <1>1, <1>2, <1>4
  <2>3. A * (x0 - m) = B * q
    BY <1>13 DEF d
  <2>4. P * (B * m + B * q) = B * P * (m + q)
    BY <1>1, <1>2, <1>4, <1>10
  <2> QED BY <2>1, <2>2, <2>3, <2>4
(* The variance: the squares move with the mean.                           *)
<1> DEFINE f == Around(s, m2, k + 1)
<1>17. Weighted(f, k) = P * (v + q * q)
  <2>1. ASSUME NEW i \in 1..k
        PROVE  /\ Around(s, m, k)[i] \in Int /\ s[i] \in Int /\ Ones[i] \in Int
               /\ f[i] = 1 * Around(s, m, k)[i] + (-2 * q) * s[i] + (2 * q * m + q * q) * Ones[i]
    <3>1. i \in 1..(k + 1) /\ i \in Nat /\ s[i] \in Int
      BY <1>1
    <3>2. /\ Around(s, m, k)[i] = (s[i] - m) * (s[i] - m) /\ Ones[i] = 1
          /\ f[i] = (s[i] - m2) * (s[i] - m2)
      BY <3>1 DEF Around, Ones
    <3> DEFINE si == s[i]
    <3> HIDE DEF si
    <3>3. si \in Int
      BY <3>1 DEF si
    <3>4. (si - m) * (si - m) \in Int
      BY <1>4, <3>3
    <3>5. (si - (m + q)) * (si - (m + q))
            = 1 * ((si - m) * (si - m)) + (-2 * q) * si + (2 * q * m + q * q) * 1
      BY <1>4, <1>10, <3>3
    <3> QED BY <3>1, <3>2, <3>4, <3>5 DEF si
  <2>2. -2 * q \in Int /\ 2 * q * m + q * q \in Int
    BY <1>4, <1>10
  <2>3. Weighted(f, k) = 1 * (P * v) + (-2 * q) * (P * m) + (2 * q * m + q * q) * P
    <3> HIDE DEF f
    <3> QED BY <1>14, <2>1, <2>2, WeightedLinear
  <2>4. 1 * (P * v) + (-2 * q) * (P * m) + (2 * q * m + q * q) * P = P * (v + q * q)
    BY <1>2, <1>4, <1>10
  <2> QED BY <2>3, <2>4
<1>18. f[k + 1] = (d - q) * (d - q) /\ \A i \in 1..(k + 1) : f[i] \in Int
  <2>1. f[k + 1] = (x0 - m2) * (x0 - m2)
    BY <1>1 DEF Around, x0
  <2>2. x0 - m2 = d - q
    BY <1>4, <1>10 DEF d
  <2>3. ASSUME NEW i \in 1..(k + 1) PROVE f[i] \in Int
    <3>1. f[i] = (s[i] - m2) * (s[i] - m2) /\ s[i] \in Int
      BY DEF Around
    <3>2. \A z \in Int : (z - m2) * (z - m2) \in Int
      BY <1>10
    <3> QED BY <3>1, <3>2
  <2> QED BY <2>1, <2>2, <2>3
<1>19. Weighted(f, k + 1) = B * P * v2
  <2>1. Weighted(f, k + 1) = (B - A) * (P * (v + q * q)) + A * P * ((d - q) * (d - q))
    <3> HIDE DEF f
    <3>1. Weighted(f, k + 1) = (B - A) * Weighted(f, k) + A * P * f[k + 1]
      BY <1>18, WeightedStep DEF A, B, P
    <3> QED BY <1>17, <1>18, <3>1
  <2>2. (B - A) * (v + q * q) + A * ((d - q) * (d - q)) = B * v2
    <3>1. v + q * q = (u * B * B + A * A * e * e) * (c * c)
      BY <1>1, <1>3, <1>6, <1>8, <1>9
    <3>2. (d - q) * (d - q) = (B - A) * (B - A) * e * e * (c * c)
      BY <1>1, <1>3, <1>8, <1>9
    <3>3. (B - A) * (u * B * B + A * A * e * e) + A * ((B - A) * (B - A) * e * e)
            = B * ((B - A) * (u * B + A * e * e))
      BY <1>1, <1>6, <1>8
    <3>4. /\ (B - A) * ((u * B * B + A * A * e * e) * (c * c)) + A * ((B - A) * (B - A) * e * e * (c * c))
               = ((B - A) * (u * B * B + A * A * e * e) + A * ((B - A) * (B - A) * e * e)) * (c * c)
          /\ B * ((B - A) * (u * B + A * e * e) * (c * c))
               = B * ((B - A) * (u * B + A * e * e)) * (c * c)
      BY <1>1, <1>3, <1>6, <1>8
    <3> QED BY <1>9, <3>1, <3>2, <3>3, <3>4
  <2>3. (B - A) * (P * (v + q * q)) + A * P * ((d - q) * (d - q))
          = P * ((B - A) * (v + q * q) + A * ((d - q) * (d - q)))
    BY <1>1, <1>2, <1>4, <1>10
  <2>4. P * (B * v2) = B * P * v2
    BY <1>1, <1>2, <1>10
  <2> QED BY <2>1, <2>2, <2>3, <2>4
<1>20. Moments(s, m2, v2, k + 1)
  BY <1>2, <1>10, <1>11, <1>12, <1>15, <1>16, <1>19 DEF Moments, c
<1> QED BY <1>20 DEF A, B, d, q, v2, x0

(* The first residency is the mean, with no variance.                      *)
LEMMA MomentsFirst ==
  ASSUME ResidencyAssumption, NEW s, s[1] \in Int, Multiple(s[1], Scale)
  PROVE  Moments(s, s[1], 0, 1)
<1>1. Precision(1) = Scale /\ Scale \in Int
  BY Numbers DEF Precision, Scale
<1>2. Multiple(0, Scale * Scale)
  <2>1. 0 = 0 * (Scale * Scale)
    BY <1>1
  <2> QED BY <2>1 DEF Multiple
<1>3. AlphaDen ^ (1 - 1) = 1
  BY DEF ResidencyAssumption
<1>4. Weights(1)[1] = 1
  BY DEF Weights, ResidencyAssumption
<1>5. ASSUME NEW u, u[1] \in Int PROVE Weighted(u, 1) = u[1]
  <2> DEFINE wu == [i \in 1..1 |-> Weights(1)[i] * u[i]]
             h == [k \in 0..1 |-> IF k = 0 THEN 0 ELSE u[1]]
  <2>1. wu[1] = u[1]
    BY <1>4, <1>5
  <2>2. AreSums(h, wu, 1)
    <3>1. h \in [0..1 -> Int] /\ h[0] = 0
      BY <1>5
    <3>2. h[1] = h[1 - 1] + wu[1]
      BY <1>5, <2>1
    <3> QED BY <3>1, <3>2 DEF AreSums
  <2>3. h[1] = u[1]
    OBVIOUS
  <2> HIDE DEF h, wu
  <2>4. SumUpTo(wu, 1) = h[1]
    BY <2>2, SumIs
  <2> QED BY <2>3, <2>4 DEF Weighted, wu
<1>6. Weighted(Ones, 1) = 1
  BY <1>5 DEF Ones
<1>7. Weighted(s, 1) = s[1]
  BY <1>5
<1>8. Weighted(Around(s, s[1], 1), 1) = 0
  <2>1. Around(s, s[1], 1)[1] = 0
    BY DEF Around
  <2> QED BY <1>5, <2>1
<1> QED BY <1>1, <1>2, <1>3, <1>6, <1>7, <1>8 DEF Moments

(* Later observations do not count.                                        *)
LEMMA MomentsSame ==
  ASSUME NEW k \in Nat, NEW s, NEW r, \A i \in 1..k : s[i] = r[i],
         NEW m, NEW v, Moments(s, m, v, k)
  PROVE  Moments(r, m, v, k)
<1>1. Weighted(s, k) = Weighted(r, k)
  BY WeightedSame
<1>2. Around(s, m, k) = Around(r, m, k)
  BY DEF Around
<1> QED BY <1>1, <1>2 DEF Moments

(* What the accumulator holds at each statement of an update.              *)
MomentInv ==
  /\ Len(seen) <= MaxRecords
  /\ \A i \in 1..Len(seen) : Multiple(seen[i], Scale)
  /\ Len(seen) <= 1 => acc.var = 0
  /\ acc.n = IF wpc = "count" THEN Len(seen) - 1 ELSE Len(seen)
  /\ wpc # "idle" => Len(seen) >= 1 /\ x = seen[Len(seen)]
  /\ wpc = "idle" /\ Len(seen) >= 1 => Moments(seen, acc.mean, acc.var, Len(seen))
  /\ wpc \in {"count", "mean"} /\ Len(seen) >= 2 =>
       Moments(seen, acc.mean, acc.var, Len(seen) - 1)
  /\ wpc = "mean" => diff = x - acc.mean
  /\ wpc = "var" =>
       /\ Len(seen) >= 2
       /\ \E m : /\ Moments(seen, m, acc.var, Len(seen) - 1)
                 /\ diff = x - m
                 /\ acc.mean = m + (AlphaNum * diff) \div AlphaDen

LEMMA MomentRecord ==
  ASSUME ResidencyAssumption, ResidencyInv, MomentInv, NEW v0 \in Residencies, Record(v0)
  PROVE  MomentInv'
<1> DEFINE n == Len(seen)
           y == Clamped(v0)
<1>1. /\ wpc = "idle" /\ wpc' = "count" /\ x' = y /\ seen' = Append(seen, y)
      /\ acc'.n = acc.n /\ acc'.mean = acc.mean /\ acc'.var = acc.var
      /\ n < MaxRecords
  BY DEF Record, ResidencyInv, ResidencyTypeOK
<1>2. seen \in Seq(Int) /\ n \in Nat /\ MaxRecords \in Nat
  BY DEF ResidencyInv, ResidencyTypeOK, ResidencyAssumption
<1>3. y \in Int /\ Multiple(y, Scale)
  <2>1. \E q \in Int : y = q * Scale
    BY DEF Clamped, ResidencyAssumption
  <2> QED BY <2>1, Clamping DEF Multiple
<1> HIDE DEF y
<1>4. Len(seen') = n + 1 /\ seen'[n + 1] = y /\ \A i \in 1..n : seen'[i] = seen[i]
  BY <1>1, <1>2, <1>3
<1>5. \A i \in 1..(n + 1) : Multiple(seen'[i], Scale)
  <2>1. \A i \in 1..n : Multiple(seen[i], Scale)
    BY DEF MomentInv
  <2> HIDE DEF n
  <2>2. \A i \in 1..(n + 1) : i \in 1..n \/ i = n + 1
    BY <1>2
  <2> QED BY <1>3, <1>4, <2>1, <2>2
<1>6. n >= 1 => Moments(seen', acc.mean, acc.var, n)
  <2> SUFFICES ASSUME n >= 1 PROVE Moments(seen', acc.mean, acc.var, n)
    OBVIOUS
  <2>1. Moments(seen, acc.mean, acc.var, n)
    BY <1>1 DEF MomentInv
  <2> QED BY <1>2, <1>4, <2>1, MomentsSame
<1>7. n + 1 <= 1 => acc.var = 0
  BY <1>2 DEF MomentInv
<1>8. acc.n = n /\ n + 1 - 1 = n
  BY <1>1, <1>2 DEF MomentInv
<1> HIDE DEF n
<1>9. n + 1 <= MaxRecords /\ n + 1 >= 1
  BY <1>1, <1>2
<1>10. acc'.n = n + 1 - 1 /\ x' = seen'[n + 1]
  BY <1>1, <1>4, <1>8
<1>11. wpc' # "idle" /\ wpc' # "mean" /\ wpc' # "var" /\ wpc' = "count"
  BY <1>1
<1>12. n + 1 <= 1 => acc'.var = 0
  BY <1>1, <1>7
<1> DEFINE n2 == Len(seen')
<1>13. n2 = n + 1 /\ n2 \in Nat /\ n \in Nat /\ n2 - 1 = n
  BY <1>2, <1>4
<1> HIDE DEF n2
<1>14. /\ n2 <= MaxRecords /\ (\A i \in 1..n2 : Multiple(seen'[i], Scale))
       /\ n2 >= 1 /\ x' = seen'[n2] /\ acc'.n = n2 - 1
       /\ n2 <= 1 => acc'.var = 0
       /\ n2 >= 2 => Moments(seen', acc'.mean, acc'.var, n2 - 1)
  <2> HIDE DEF n
  <2>1. acc'.n = n2 - 1
    BY <1>1, <1>8, <1>13
  <2>2. n2 >= 2 => Moments(seen', acc'.mean, acc'.var, n2 - 1)
    <3>1. n2 >= 2 => Moments(seen', acc'.mean, acc'.var, n)
      BY <1>1, <1>6, <1>13
    <3> QED BY <1>13, <3>1
  <2> QED BY <1>5, <1>9, <1>10, <1>12, <1>13, <2>1, <2>2, Zenon
<1> QED BY <1>11, <1>14, Zenon DEF MomentInv, n2

LEMMA MomentCount ==
  ASSUME ResidencyInv, MomentInv, Count PROVE MomentInv'
<1>1. /\ wpc = "count" /\ wpc' = "mean" /\ x' = x /\ seen' = seen /\ diff' = x - acc.mean
      /\ acc'.n = acc.n + 1 /\ acc'.mean = acc.mean /\ acc'.var = acc.var
  BY DEF Count, ResidencyInv, ResidencyTypeOK
<1>2. acc'.n = Len(seen)
  BY <1>1 DEF MomentInv, ResidencyInv, ResidencyTypeOK
<1> QED BY <1>1, <1>2 DEF MomentInv

LEMMA MomentSetMean ==
  ASSUME ResidencyAssumption, ResidencyInv, MomentInv, SetMean PROVE MomentInv'
<1> DEFINE n == Len(seen)
<1>1. /\ wpc = "mean" /\ x' = x /\ seen' = seen /\ diff' = diff
      /\ acc'.n = acc.n /\ acc'.var = acc.var
      /\ acc'.mean = IF acc.n = 1 THEN x ELSE acc.mean + (AlphaNum * diff) \div AlphaDen
      /\ wpc' = IF acc.n = 1 THEN "idle" ELSE "var"
  BY DEF SetMean, ResidencyInv, ResidencyTypeOK
<1>2. n \in Nat /\ n >= 1 /\ acc.n = n /\ x = seen[n] /\ seen \in Seq(Int)
  BY <1>1 DEF MomentInv, ResidencyInv, ResidencyTypeOK
<1>3. CASE n = 1
  <2>1. seen[1] \in Int /\ Multiple(seen[1], Scale) /\ acc.var = 0
    <3>1. (\A i \in 1..n : Multiple(seen[i], Scale)) /\ (n <= 1 => acc.var = 0)
      BY DEF MomentInv
    <3> HIDE DEF n
    <3>2. 1 \in 1..n /\ n <= 1
      BY <1>2, <1>3
    <3>3. seen[1] \in Int
      BY <1>2, <3>2 DEF n
    <3> QED BY <3>1, <3>2, <3>3
  <2>2. Moments(seen, x, acc.var, 1)
    BY <1>2, <1>3, <2>1, MomentsFirst
  <2> QED BY <1>1, <1>2, <1>3, <2>2 DEF MomentInv
<1>4. CASE n # 1
  <2>1. n >= 2 /\ wpc' = "var"
    <3> HIDE DEF n
    <3>1. n >= 2
      BY <1>2, <1>4
    <3>2. acc.n # 1
      BY <1>2, <1>4
    <3> QED BY <1>1, <3>1, <3>2, Zenon
  <2>2. Moments(seen, acc.mean, acc.var, n - 1) /\ diff = x - acc.mean
    BY <1>1, <2>1 DEF MomentInv
  <2>3. acc'.mean = acc.mean + (AlphaNum * diff) \div AlphaDen
    BY <1>1, <1>2, <1>4
  <2> QED BY <1>1, <1>2, <2>1, <2>2, <2>3 DEF MomentInv
<1> QED BY <1>3, <1>4

LEMMA MomentSetVar ==
  ASSUME ResidencyAssumption, ResidencyInv, MomentInv, SetVar PROVE MomentInv'
<1> DEFINE n == Len(seen)
<1>1. /\ wpc = "var" /\ wpc' = "idle" /\ x' = x /\ seen' = seen
      /\ acc'.n = acc.n /\ acc'.mean = acc.mean /\ acc'.var = Discounted(acc.var, diff)
  BY DEF SetVar, ResidencyInv, ResidencyTypeOK
<1>2. /\ n \in Nat /\ n >= 2 /\ n <= MaxRecords /\ MaxRecords \in Nat
      /\ acc.n = n /\ x = seen[n] /\ seen \in Seq(Int)
  BY <1>1 DEF MomentInv, ResidencyInv, ResidencyTypeOK, ResidencyAssumption
<1>3. PICK m : /\ Moments(seen, m, acc.var, n - 1)
               /\ diff = x - m
               /\ acc.mean = m + (AlphaNum * diff) \div AlphaDen
  BY <1>1 DEF MomentInv
<1>4. n - 1 \in 1..(MaxRecords - 1) /\ n - 1 + 1 = n
  BY <1>2
<1>5. /\ \A i \in 1..n : seen[i] \in Int
      /\ Multiple(seen[n], Scale)
  <2>1. \A i \in 1..n : Multiple(seen[i], Scale)
    BY DEF MomentInv
  <2>2. \A i \in 1..n : seen[i] \in Int
    <3>1. seen \in Seq(Int)
      BY <1>2
    <3> QED BY <3>1
  <2> HIDE DEF n
  <2>3. n \in 1..n
    BY <1>2
  <2> QED BY <2>1, <2>2, <2>3
<1>6. Moments(seen, acc.mean, Discounted(acc.var, diff), n)
  <2> DEFINE k == n - 1
  <2>1. k \in 1..(MaxRecords - 1) /\ k + 1 = n
    BY <1>4
  <2> HIDE DEF k
  <2>2. Moments(seen, m + (AlphaNum * (seen[k + 1] - m)) \div AlphaDen,
                Discounted(acc.var, seen[k + 1] - m), k + 1)
    <3>1. /\ \A i \in 1..(k + 1) : seen[i] \in Int
          /\ Multiple(seen[k + 1], Scale) /\ Moments(seen, m, acc.var, k)
      BY <1>3, <1>5, <2>1 DEF k
    <3> QED BY <2>1, <3>1, MomentsStep
  <2> QED BY <1>2, <1>3, <2>1, <2>2
<1> QED BY <1>1, <1>2, <1>6 DEF MomentInv

(* What _EWMA keeps, one update after the other, is the weighted mean and  *)
(* the weighted variance around it of all observations, the weights being  *)
(* alpha of what the later ones leave: for any alpha, any residencies and  *)
(* any number of them (_EWMA.update).                                      *)
THEOREM EwmaMoments == ResidencySpec => []EwmaIsWeightedMoments
<1> USE ResidencyAssumption
<1>1. ResidencyInit => MomentInv
  BY DEF ResidencyInit, MomentInv, ResidencyAssumption
<1>2. ResidencyInv /\ MomentInv /\ [ResidencyNext]_residencyVars => MomentInv'
  <2> SUFFICES ASSUME ResidencyInv, MomentInv, [ResidencyNext]_residencyVars
               PROVE  MomentInv'
    OBVIOUS
  <2>1. CASE \E v \in Residencies : Record(v)
    BY <2>1, MomentRecord
  <2>2. CASE Count
    BY <2>2, MomentCount
  <2>3. CASE SetMean
    BY <2>3, MomentSetMean
  <2>4. CASE SetVar
    BY <2>4, MomentSetVar
  <2>5. CASE UNCHANGED <<acc, wpc, x, diff, seen>>
    BY <2>5 DEF MomentInv
  <2> QED BY <2>1, <2>2, <2>3, <2>4, <2>5 DEF ResidencyNext, residencyVars, Fetch,
             ReadCount, ReadMean, ReadVariance, Blend
<1>3. ResidencyInv /\ MomentInv => EwmaIsWeightedMoments
  <2> SUFFICES ASSUME ResidencyInv, MomentInv, wpc = "idle", seen # <<>>
               PROVE  LET n == Len(seen) IN
                      /\ acc.n = n
                      /\ AlphaDen ^ (n - 1) * acc.mean = Weighted(seen, n)
                      /\ AlphaDen ^ (n - 1) * acc.var = Weighted(Squares(acc.mean), n)
    BY DEF EwmaIsWeightedMoments
  <2>1. seen \in Seq(Int) /\ Len(seen) >= 1
    BY DEF ResidencyInv, ResidencyTypeOK
  <2>2. Moments(seen, acc.mean, acc.var, Len(seen)) /\ acc.n = Len(seen)
    BY <2>1 DEF MomentInv
  <2>3. Squares(acc.mean) = Around(seen, acc.mean, Len(seen))
    <3>1. DOMAIN seen = 1..Len(seen)
      BY <2>1
    <3> QED BY <3>1 DEF Squares, Around
  <2> QED BY <2>2, <2>3 DEF Moments
<1> QED BY <1>1, <1>2, <1>3, ResidencyInvariant, PTL DEF ResidencySpec

=============================================================================
