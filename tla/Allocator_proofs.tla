-------------------------- MODULE Allocator_proofs --------------------------
(***************************************************************************)
(* Proofs about Compute, for any number of sites, budget, CPU ceiling and  *)
(* floor, and any custom presets.                                          *)
(***************************************************************************)
EXTENDS Allocator, FiniteSetTheorems, WellFoundedInduction, TLAPS

\* Products are monotonic.
LEMMA TimesMono ==
    ASSUME NEW a \in Nat, NEW b \in Nat, NEW c \in Nat, a <= b
    PROVE  a * c <= b * c
  OBVIOUS

\* A positive factor can be cancelled.
LEMMA TimesCancel ==
    ASSUME NEW a \in Nat, NEW b \in Nat, NEW c \in Nat \ {0}, a * c < b * c
    PROVE  a < b
  <1>1. SUFFICES ASSUME b <= a PROVE FALSE
    OBVIOUS
  <1>2. b * c <= a * c
    BY <1>1, TimesMono
  <1> QED
    BY <1>2

\* What integer division gives: the multiples on either side.
LEMMA Division ==
    ASSUME NEW a \in Nat, NEW b \in Nat \ {0}
    PROVE  /\ a \div b \in Nat
           /\ (a \div b) * b <= a
           /\ a < (a \div b + 1) * b
  OBVIOUS

\* A number with these multiples on either side is the quotient.
LEMMA DivisionUnique ==
    ASSUME NEW a \in Nat, NEW b \in Nat \ {0}, NEW q \in Nat,
           q * b <= a, a < (q + 1) * b
    PROVE  a \div b = q
  <1> DEFINE d == a \div b
  <1>1. d \in Nat /\ d * b <= a /\ a < (d + 1) * b
    BY Division
  <1> HIDE DEF d
  <1>2. d * b < (q + 1) * b /\ q * b < (d + 1) * b
    BY <1>1
  <1>3. d < q + 1
    BY <1>1, <1>2, TimesCancel
  <1>4. q < d + 1
    BY <1>1, <1>2, TimesCancel
  <1>5. d = q
    BY <1>1, <1>3, <1>4
  <1> QED
    BY <1>5 DEF d

\* Compute's two roundings are one: weighting a share by w and dividing it by w
\* again gives what dividing the budget by the total weight gives.
LEMMA WeightCancels ==
    ASSUME NEW b \in Nat, NEW w \in Nat \ {0}, NEW t \in Nat \ {0}
    PROVE  ((b * w) \div t) \div w = b \div t
  <1> DEFINE q == b \div t
             s == (b * w) \div t
  <1>1. q \in Nat /\ q * t <= b /\ b < (q + 1) * t
    BY Division
  <1>2. s \in Nat /\ s * t <= b * w /\ b * w < (s + 1) * t
    <2>1. b * w \in Nat
      OBVIOUS
    <2> QED
      BY <2>1, Division
  <1> HIDE DEF q, s
  <1>3. q * w <= s
    <2>1. (q * t) * w <= b * w
      BY <1>1, TimesMono
    <2>2. (q * w) * t < (s + 1) * t
      BY <1>1, <1>2, <2>1
    <2>3. q * w \in Nat /\ s + 1 \in Nat
      BY <1>1, <1>2
    <2>4. q * w < s + 1
      BY <2>2, <2>3, TimesCancel
    <2> QED
      BY <1>2, <2>3, <2>4
  <1>4. s < (q + 1) * w
    <2>1. b * w < ((q + 1) * t) * w
      BY <1>1
    <2>2. s * t < ((q + 1) * w) * t
      BY <1>1, <1>2, <2>1
    <2>3. (q + 1) * w \in Nat
      BY <1>1
    <2> QED
      BY <1>2, <2>2, <2>3, TimesCancel
  <1>5. s \div w = q
    BY <1>1, <1>2, <1>3, <1>4, DivisionUnique
  <1> QED
    BY <1>5 DEF q, s

-----------------------------------------------------------------------------
(* The inductive invariant.                                                *)

\* The weights up to the site the loop is at add up.
Weighed ==
    /\ weight[0] = 0
    /\ \A j \in Sites :
          pc \in {"share", "judge", "sum", "give", "done"} \/ (pc = "weigh" /\ j < i)
             => weight[j] = weight[j-1] + WB(j)

Base == MinOf(budget \div weight[N], ceiling)

\* All shares computed so far are equal.
Shared ==
    \A j \in Sites :
        pc \in {"judge", "sum"} \/ (pc = "share" /\ j < i) => children[j] = Base

\* The memory added up so far is that many workers for each site.
Summed ==
    /\ used[0] = 0
    /\ \A j \in Sites :
          pc \in {"give", "done"} \/ (pc = "sum" /\ j < i)
             => used[j] = used[j-1] + children[j] * WB(j)
    /\ \A j \in Sites : pc = "sum" /\ j < i => used[j] = Base * weight[j]

\* An accepted allocation stays within its limits while the bonus is given.
Accepted ==
    /\ pc \in {"sum", "give", "done"} =>
          \A j \in Sites : floor <= children[j] /\ children[j] <= ceiling
    /\ pc \in {"give", "done"} => used[N] <= budget

\* A site the leftover was offered to has no use for what is left of it.
Offered ==
    /\ pc \in {"give", "done"} =>
          \A j \in served : children[j] = ceiling \/ Leftover < WB(j)
    /\ pc = "done" => Leftover <= 0 \/ served = Sites

\* Each loop begins with the first site.
Rewound == pc = "judge" => i = 1

Inv == TypeOK /\ Rewound /\ Weighed /\ Shared /\ Summed /\ Accepted /\ Offered

\* Worker budgets are positive.
LEMMA PresetPositive ==
    ASSUME NEW p \in Preset PROVE p.wb \in Nat \ {0} /\ p.tier \in 0 .. 5
  BY CustomAssumption DEF Preset, Tier, Tiers, TierWB, Custom

\* A downgraded preset is one of the catalogue.
LEMMA DowngradedPreset ==
    ASSUME NEW p \in Preset, Downgradable(p) PROVE Tier(p.tier - 1) \in Preset
  BY PresetPositive DEF Preset, Tiers, Downgradable

LEMMA InitInv == Init => Inv
  BY NAssumption DEF Init, Inv, TypeOK, Zeros, Rewound, Weighed, Shared, Summed, Accepted, Offered, Sites, Leftover

\* A loop either moves on to the next site or, after the last one, ends.
LEMMA AdvanceFacts ==
    ASSUME TypeOK, NEW loop, NEW then, Advance(loop, then)
    PROVE  /\ pc = loop /\ i \in 1 .. N
           /\ \/ i < N /\ pc' = loop /\ i' = i + 1
              \/ i = N /\ pc' = then /\ i' = 1
           /\ i' \in Sites
  BY NAssumption DEF Advance, TypeOK, Sites

LEMMA WBPositive ==
    ASSUME TypeOK, NEW j \in Sites
    PROVE  WB(j) \in Nat \ {0}
  <1>1. preset[j] \in Preset
    BY DEF TypeOK
  <1> QED
    BY <1>1, PresetPositive DEF WB

\* Once weighed, the sites have a total weight to divide by.
LEMMA TotalPositive ==
    ASSUME TypeOK, Weighed, pc \notin {"weigh", "refused"}
    PROVE  weight[N] \in Nat \ {0}
  <1>1. N \in Sites /\ N - 1 \in 0 .. N /\ N \in 0 .. N
    BY NAssumption DEF Sites
  <1>2. weight[N] = weight[N-1] + WB(N)
    BY <1>1 DEF Weighed, TypeOK
  <1>3. WB(N) \in Nat \ {0}
    BY <1>1, WBPositive
  <1>4. weight[N-1] \in Nat
    BY <1>1 DEF TypeOK
  <1> QED
    BY <1>2, <1>3, <1>4

\* What distribute computes for a site is the same for all of them.
LEMMA ShareIsBase ==
    ASSUME TypeOK, Weighed, pc = "share", NEW j \in Sites
    PROVE  /\ MinOf(ShareOf(WB(j)) \div WB(j), ceiling) = Base
           /\ Base \in Nat
  <1>1. weight[N] \in Nat \ {0}
    BY TotalPositive
  <1>2. WB(j) \in Nat \ {0}
    BY WBPositive
  <1>3. budget \in Nat /\ ceiling \in Nat
    BY BudgetAssumption, CeilingAssumption DEF TypeOK
  <1>4. ShareOf(WB(j)) \div WB(j) = budget \div weight[N]
    BY <1>1, <1>2, <1>3, WeightCancels DEF ShareOf
  <1>5. budget \div weight[N] \in Nat
    BY <1>1, <1>3, Division
  <1> QED
    BY <1>3, <1>4, <1>5 DEF Base, MinOf

\* What a site is offered fits in what is left and under the CPU ceiling, and
\* afterwards the site could not be given another worker.
LEMMA BonusFits ==
    ASSUME TypeOK, Accepted, pc = "give", Leftover > 0, NEW j \in Sites
    PROVE  /\ Bonus(j) \in Nat
           /\ Bonus(j) * WB(j) <= Leftover
           /\ children[j] + Bonus(j) <= ceiling
           /\ children[j] + Bonus(j) = ceiling \/ Leftover - Bonus(j) * WB(j) < WB(j)
  <1> DEFINE d == Leftover \div WB(j)
             w == WB(j)
  <1>1. Leftover \in Nat
    BY NAssumption, BudgetAssumption DEF TypeOK, Leftover
  <1>2. w \in Nat \ {0}
    BY WBPositive
  <1>3. d \in Nat /\ d * w <= Leftover /\ Leftover < (d + 1) * w
    BY <1>1, <1>2, Division
  <1>4. children[j] \in Nat /\ ceiling \in Nat /\ children[j] <= ceiling
    BY CeilingAssumption DEF TypeOK, Accepted
  <1>5. Bonus(j) = MinOf(d, ceiling - children[j])
    BY DEF Bonus
  <1> HIDE DEF d, w
  <1>6. Bonus(j) \in Nat /\ Bonus(j) <= d /\ children[j] + Bonus(j) <= ceiling
        /\ (Bonus(j) = d \/ children[j] + Bonus(j) = ceiling)
    BY <1>3, <1>4, <1>5 DEF MinOf
  <1>7. Bonus(j) * w <= d * w
    BY <1>2, <1>3, <1>6, TimesMono
  <1>8. Bonus(j) * w <= Leftover
    BY <1>1, <1>2, <1>3, <1>6, <1>7
  <1>9. Bonus(j) = d => Leftover - Bonus(j) * w < w
    BY <1>1, <1>2, <1>3, <1>6
  <1> QED
    BY <1>6, <1>8, <1>9 DEF w

LEMMA TypeStep == Inv /\ [Next]_vars => TypeOK'
  <1> SUFFICES ASSUME Inv, [Next]_vars PROVE TypeOK'
    OBVIOUS
  <1>0. TypeOK /\ Weighed /\ Accepted
    BY DEF Inv
  <1>1. CASE Weigh
    <2>1. i' \in Sites /\ pc' \in {"weigh", "share"} /\ i \in 1 .. N
      BY <1>0, <1>1, AdvanceFacts DEF Weigh
    <2>2. WB(i) \in Nat /\ weight[i-1] \in Nat
      <3>1. i \in Sites /\ i - 1 \in 0 .. N
        BY <2>1, NAssumption DEF Sites
      <3> QED
        BY <1>0, <3>1, WBPositive DEF TypeOK
    <2>3. weight' \in [0 .. N -> Nat]
      BY <1>0, <1>1, <2>1, <2>2 DEF Weigh, TypeOK
    <2> QED
      BY <1>0, <1>1, <2>1, <2>3 DEF Weigh, TypeOK, input
  <1>2. CASE Share
    <2>1. i' \in Sites /\ pc' \in {"share", "judge"} /\ i \in Sites /\ pc = "share"
      BY <1>0, <1>2, AdvanceFacts DEF Share, Sites
    <2>2. MinOf(ShareOf(WB(i)) \div WB(i), ceiling) \in Nat
      BY <1>0, <2>1, ShareIsBase
    <2>3. children' \in [Sites -> Nat]
      BY <1>0, <1>2, <2>1, <2>2 DEF Share, TypeOK
    <2> QED
      BY <1>0, <1>2, <2>1, <2>3 DEF Share, TypeOK, input
  <1>3. CASE Accept
    BY <1>0, <1>3 DEF Accept, TypeOK, input
  <1>4. CASE Downgrade
    <2>1. preset' \in [Sites -> Preset]
      BY <1>0, <1>4, DowngradedPreset DEF Downgrade, TypeOK
    <2>2. pass' \in Nat /\ pc' \in {"weigh", "refused"}
      BY <1>0, <1>4 DEF Downgrade, TypeOK
    <2> QED
      BY <1>0, <1>4, <2>1, <2>2 DEF Downgrade, TypeOK, input
  <1>5. CASE Refuse
    BY <1>0, <1>5 DEF Refuse, TypeOK, input
  <1>6. CASE Sum
    <2>1. i' \in Sites /\ pc' \in {"sum", "give"} /\ i \in 1 .. N
      BY <1>0, <1>6, AdvanceFacts DEF Sum
    <2>2. WB(i) \in Nat /\ used[i-1] \in Nat /\ children[i] \in Nat
      <3>1. i \in Sites /\ i - 1 \in 0 .. N
        BY <2>1, NAssumption DEF Sites
      <3> QED
        BY <1>0, <3>1, WBPositive DEF TypeOK
    <2>3. used[i-1] + children[i] * WB(i) \in Nat
      BY <2>2
    <2>4. used' \in [0 .. N -> Nat]
      BY <1>0, <1>6, <2>1, <2>3 DEF Sum, TypeOK
    <2> QED
      BY <1>0, <1>6, <2>1, <2>4 DEF Sum, TypeOK, input
  <1>7. ASSUME NEW j \in Sites, Give(j) PROVE TypeOK'
    <2>1. Bonus(j) \in Nat /\ WB(j) \in Nat
      BY <1>0, <1>7, BonusFits, WBPositive DEF Give
    <2>2. Bonus(j) * WB(j) \in Nat
      BY <2>1
    <2>3. children' \in [Sites -> Nat]
      BY <1>0, <1>7, <2>1 DEF Give, TypeOK
    <2>4. used' \in [0 .. N -> Nat]
      BY <1>0, <1>7, <2>2 DEF Give, TypeOK
    <2> QED
      BY <1>0, <1>7, <2>3, <2>4 DEF Give, TypeOK, input
  <1>8. CASE Finish
    BY <1>0, <1>8 DEF Finish, TypeOK, input
  <1>9. CASE UNCHANGED vars
    BY <1>0, <1>9 DEF vars, TypeOK, input
  <1> QED
    BY <1>1, <1>2, <1>3, <1>4, <1>5, <1>6, <1>7, <1>8, <1>9 DEF Next

LEMMA WeighedStep == Inv /\ [Next]_vars => Weighed' /\ Rewound'
  <1> SUFFICES ASSUME Inv, [Next]_vars PROVE Weighed' /\ Rewound'
    OBVIOUS
  <1>0. TypeOK /\ Weighed /\ Rewound
    BY DEF Inv
  <1> USE DEF Rewound
  <1>1. CASE Weigh
    <2>1. /\ pc = "weigh" /\ i \in 1 .. N
          /\ \/ i < N /\ pc' = "weigh" /\ i' = i + 1
             \/ i = N /\ pc' = "share" /\ i' = 1
      BY <1>0, <1>1, AdvanceFacts DEF Weigh
    <2>2. weight' = [weight EXCEPT ![i] = weight[i-1] + WB(i)] /\ preset' = preset
      BY <1>1 DEF Weigh
    <2>3. \A k \in 0 .. N : weight'[k] = IF k = i THEN weight[i-1] + WB(i) ELSE weight[k]
      BY <1>0, <2>1, <2>2 DEF TypeOK
    <2>4. weight'[0] = 0
      BY <1>0, <2>1, <2>3, NAssumption DEF Weighed
    <2>5. ASSUME NEW j \in Sites, j <= i PROVE weight'[j] = weight'[j-1] + WB(j)'
      <3>1. j \in 0 .. N /\ j - 1 \in 0 .. N /\ j - 1 # i
        BY <2>1, <2>5, NAssumption DEF Sites
      <3>2. WB(j)' = WB(j)
        BY <2>2 DEF WB
      <3>3. CASE j = i
        BY <2>3, <3>1, <3>2, <3>3
      <3>4. CASE j # i
        <4>1. weight[j] = weight[j-1] + WB(j)
          BY <1>0, <2>1, <2>5, <3>4, NAssumption DEF Weighed, Sites
        <4> QED
          BY <2>3, <3>1, <3>2, <3>4, <4>1
      <3> QED
        BY <3>3, <3>4
    <2> QED
      BY <2>1, <2>4, <2>5, NAssumption DEF Weighed, Sites
  <1>2. CASE Share
    BY <1>0, <1>2, AdvanceFacts DEF Share, Weighed, WB
  <1>3. CASE Accept
    BY <1>0, <1>3 DEF Accept, Weighed, WB
  <1>4. CASE Downgrade
    <2>1. pc = "judge" /\ pc' \in {"weigh", "refused"} /\ i' = 1 /\ weight' = weight
      BY <1>0, <1>4 DEF Downgrade
    <2> QED
      BY <1>0, <2>1, NAssumption DEF Weighed, Sites
  <1>5. CASE Refuse
    BY <1>0, <1>5 DEF Refuse, Weighed, WB
  <1>6. CASE Sum
    BY <1>0, <1>6, AdvanceFacts DEF Sum, Weighed, WB
  <1>7. ASSUME NEW j \in Sites, Give(j) PROVE Weighed' /\ Rewound'
    BY <1>0, <1>7 DEF Give, Weighed, WB
  <1>8. CASE Finish
    BY <1>0, <1>8 DEF Finish, Weighed, WB
  <1>9. CASE UNCHANGED vars
    BY <1>0, <1>9 DEF vars, Weighed, WB
  <1> QED
    BY <1>1, <1>2, <1>3, <1>4, <1>5, <1>6, <1>7, <1>8, <1>9 DEF Next

LEMMA SharedStep == Inv /\ [Next]_vars => Shared'
  <1> SUFFICES ASSUME Inv, [Next]_vars PROVE Shared'
    OBVIOUS
  <1>0. TypeOK /\ Weighed /\ Rewound /\ Shared
    BY DEF Inv
  <1>1. CASE Weigh
    BY <1>0, <1>1, AdvanceFacts, NAssumption DEF Weigh, Shared, Sites
  <1>2. CASE Share
    <2>1. /\ pc = "share" /\ i \in Sites
          /\ \/ i < N /\ pc' = "share" /\ i' = i + 1
             \/ i = N /\ pc' = "judge" /\ i' = 1
      BY <1>0, <1>2, AdvanceFacts DEF Share, Sites
    <2>2. children'[i] = Base
      BY <1>0, <1>2, <2>1, ShareIsBase DEF Share, TypeOK
    <2>3. \A j \in Sites : j # i => children'[j] = children[j]
      BY <1>0, <1>2 DEF Share, TypeOK
    <2>4. Base' = Base
      BY <1>2 DEF Share, Base, input
    <2>5. \A j \in Sites : j < i \/ j = i => children'[j] = Base'
      BY <1>0, <2>1, <2>2, <2>3, <2>4 DEF Shared
    <2>6. \A j \in Sites : pc' = "judge" \/ j < i' => j < i \/ j = i
      BY <2>1, NAssumption DEF Sites
    <2> QED
      BY <2>1, <2>5, <2>6 DEF Shared
  <1>3. CASE Accept
    BY <1>0, <1>3 DEF Accept, Shared, Base, input
  <1>4. CASE Downgrade
    BY <1>0, <1>4 DEF Downgrade, Shared
  <1>5. CASE Refuse
    BY <1>0, <1>5 DEF Refuse, Shared
  <1>6. CASE Sum
    BY <1>0, <1>6, AdvanceFacts DEF Sum, Shared, Base, input
  <1>7. ASSUME NEW j \in Sites, Give(j) PROVE Shared'
    BY <1>0, <1>7 DEF Give, Shared
  <1>8. CASE Finish
    BY <1>0, <1>8 DEF Finish, Shared
  <1>9. CASE UNCHANGED vars
    BY <1>0, <1>9 DEF vars, Shared, Base, input
  <1> QED
    BY <1>1, <1>2, <1>3, <1>4, <1>5, <1>6, <1>7, <1>8, <1>9 DEF Next

\* The workers of the first i sites, Base each, use Base times their weight.
LEMMA SumFacts ==
    ASSUME Inv, Sum
    PROVE  /\ \A k \in 0 .. N : used'[k] = IF k = i THEN used[i-1] + children[i] * WB(i)
                                                    ELSE used[k]
           /\ i \in Sites /\ used'[i] = Base * weight[i]
  <1>0. TypeOK /\ Weighed /\ Shared /\ Summed
    BY DEF Inv
  <1>1. pc = "sum" /\ i \in Sites /\ i \in 0 .. N /\ i - 1 \in 0 .. N
    BY <1>0, AdvanceFacts, NAssumption DEF Sum, Sites
  <1>2. \A k \in 0 .. N : used'[k] = IF k = i THEN used[i-1] + children[i] * WB(i) ELSE used[k]
    BY <1>0, <1>1 DEF Sum, TypeOK
  <1>3. children[i] = Base /\ Base \in Nat
    BY <1>0, <1>1 DEF Shared, TypeOK
  <1>4. weight[i] = weight[i-1] + WB(i)
    BY <1>0, <1>1 DEF Weighed
  <1>5. weight[i-1] \in Nat /\ WB(i) \in Nat
    BY <1>0, <1>1, WBPositive DEF TypeOK
  <1>6. used[i-1] = Base * weight[i-1]
    <2>1. CASE i = 1
      BY <1>0, <1>3, <2>1 DEF Summed, Weighed
    <2>2. CASE i # 1
      <3>1. i - 1 \in Sites /\ i - 1 < i
        BY <1>1, <2>2, NAssumption DEF Sites
      <3> QED
        BY <1>0, <1>1, <3>1 DEF Summed
    <2> QED
      BY <2>1, <2>2
  <1>7. used'[i] = Base * weight[i-1] + Base * WB(i)
    BY <1>1, <1>2, <1>3, <1>6
  <1>8. Base * weight[i] = Base * weight[i-1] + Base * WB(i)
    BY <1>3, <1>4, <1>5
  <1> QED
    BY <1>1, <1>2, <1>7, <1>8

\* A bonus for site j adds its memory to every running sum from j on.
LEMMA GiveFacts ==
    ASSUME Inv, NEW j \in Sites, Give(j)
    PROVE  /\ \A k \in 0 .. N :
                 used'[k] = IF k < j THEN used[k] ELSE used[k] + Bonus(j) * WB(j)
           /\ \A k \in Sites : children'[k] = IF k = j THEN children[j] + Bonus(j)
                                                       ELSE children[k]
           /\ pc = "give" /\ pc' = "give" /\ preset' = preset
           /\ budget' = budget /\ ceiling' = ceiling /\ floor' = floor
  BY DEF Give, Inv, TypeOK, input

LEMMA SummedStep == Inv /\ [Next]_vars => Summed'
  <1> SUFFICES ASSUME Inv, [Next]_vars PROVE Summed'
    OBVIOUS
  <1>0. TypeOK /\ Weighed /\ Rewound /\ Shared /\ Summed
    BY DEF Inv
  <1>1. CASE Weigh
    BY <1>0, <1>1, AdvanceFacts DEF Weigh, Summed
  <1>2. CASE Share
    BY <1>0, <1>2, AdvanceFacts DEF Share, Summed
  <1>3. CASE Accept
    <2>1. pc' = "sum" /\ i' = 1 /\ used' = used
      BY <1>0, <1>3 DEF Accept, Rewound
    <2> QED
      BY <1>0, <2>1, NAssumption DEF Summed, Sites
  <1>4. CASE Downgrade
    BY <1>0, <1>4 DEF Downgrade, Summed
  <1>5. CASE Refuse
    BY <1>0, <1>5 DEF Refuse, Summed
  <1>6. CASE Sum
    <2>1. /\ pc = "sum" /\ i \in 1 .. N
          /\ \/ i < N /\ pc' = "sum" /\ i' = i + 1
             \/ i = N /\ pc' = "give" /\ i' = 1
      BY <1>0, <1>6, AdvanceFacts DEF Sum
    <2>2. /\ \A k \in 0 .. N : used'[k] = IF k = i THEN used[i-1] + children[i] * WB(i)
                                                   ELSE used[k]
          /\ used'[i] = Base * weight[i]
      BY <1>6, SumFacts
    <2>3. preset' = preset /\ children' = children /\ weight' = weight /\ Base' = Base
      BY <1>6 DEF Sum, Base, input
    <2>4. used'[0] = 0
      BY <1>0, <2>1, <2>2, NAssumption DEF Summed
    <2>5. ASSUME NEW j \in Sites, j <= i
          PROVE  /\ used'[j] = used'[j-1] + children'[j] * WB(j)'
                 /\ used'[j] = Base' * weight'[j]
      <3>1. j \in 0 .. N /\ j - 1 \in 0 .. N /\ j - 1 # i
        BY <2>1, <2>5, NAssumption DEF Sites
      <3>2. WB(j)' = WB(j)
        BY <2>3 DEF WB
      <3>3. CASE j = i
        BY <2>2, <2>3, <3>1, <3>2, <3>3
      <3>4. CASE j # i
        <4>1. j < i
          BY <2>1, <2>5, <3>4, NAssumption DEF Sites
        <4>2. used[j] = used[j-1] + children[j] * WB(j) /\ used[j] = Base * weight[j]
          BY <1>0, <2>1, <4>1 DEF Summed
        <4> QED
          BY <2>2, <2>3, <3>1, <3>2, <3>4, <4>2
      <3> QED
        BY <3>3, <3>4
    <2> QED
      BY <2>1, <2>4, <2>5, NAssumption DEF Summed, Sites
  <1>7. ASSUME NEW j \in Sites, Give(j) PROVE Summed'
    <2>1. /\ \A k \in 0 .. N :
                used'[k] = IF k < j THEN used[k] ELSE used[k] + Bonus(j) * WB(j)
          /\ \A k \in Sites : children'[k] = IF k = j THEN children[j] + Bonus(j)
                                                      ELSE children[k]
          /\ pc = "give" /\ pc' = "give" /\ preset' = preset
      BY <1>7, GiveFacts
    <2>2. used'[0] = 0
      BY <1>0, <2>1, NAssumption DEF Summed, Sites
    <2>3. Bonus(j) \in Nat
      BY <1>7, BonusFits DEF Give, Inv
    <2>4. ASSUME NEW k \in Sites PROVE used'[k] = used'[k-1] + children'[k] * WB(k)'
      <3>1. k \in 0 .. N /\ k - 1 \in 0 .. N /\ WB(k)' = WB(k)
        BY <2>1, NAssumption DEF Sites, WB
      <3>2. used[k] = used[k-1] + children[k] * WB(k)
        BY <1>0, <2>1 DEF Summed
      <3>3. /\ used[k-1] \in Nat /\ children[k] \in Nat /\ WB(k) \in Nat
            /\ k \in Int /\ j \in Int /\ Bonus(j) * WB(j) \in Nat
        <4>1. WB(j) \in Nat /\ WB(k) \in Nat
          BY <1>0, WBPositive
        <4>2. used[k-1] \in Nat /\ children[k] \in Nat
          BY <1>0, <3>1 DEF TypeOK
        <4>3. k \in Int /\ j \in Int
          BY NAssumption DEF Sites
        <4> QED
          BY <2>3, <4>1, <4>2, <4>3
      <3>4. CASE k = j
        <4>1. used'[k] = used[k] + Bonus(k) * WB(k) /\ used'[k-1] = used[k-1]
          BY <2>1, <3>1, <3>3, <3>4
        <4>2. children'[k] = children[k] + Bonus(k)
          BY <2>1, <3>4
        <4>3. (children[k] + Bonus(k)) * WB(k) = children[k] * WB(k) + Bonus(k) * WB(k)
          BY <2>3, <3>3, <3>4
        <4> QED
          BY <2>3, <3>1, <3>2, <3>3, <3>4, <4>1, <4>2, <4>3
      <3>5. CASE k < j
        BY <2>1, <3>1, <3>2, <3>3, <3>5
      <3>6. CASE k > j
        <4>1. /\ used'[k] = used[k] + Bonus(j) * WB(j)
              /\ used'[k-1] = used[k-1] + Bonus(j) * WB(j)
              /\ children'[k] = children[k]
          BY <2>1, <3>1, <3>3, <3>6
        <4>2. children[k] * WB(k) \in Nat
          BY <3>3
        <4> QED
          BY <3>1, <3>2, <3>3, <4>1, <4>2
      <3> QED
        BY <3>3, <3>4, <3>5, <3>6
    <2> QED
      BY <2>1, <2>2, <2>4 DEF Summed
  <1>8. CASE Finish
    BY <1>0, <1>8 DEF Finish, Summed, WB
  <1>9. CASE UNCHANGED vars
    BY <1>0, <1>9 DEF vars, Summed, WB, Base, input
  <1> QED
    BY <1>1, <1>2, <1>3, <1>4, <1>5, <1>6, <1>7, <1>8, <1>9 DEF Next

LEMMA AcceptedStep == Inv /\ [Next]_vars => Accepted'
  <1> SUFFICES ASSUME Inv, [Next]_vars PROVE Accepted'
    OBVIOUS
  <1>0. TypeOK /\ Weighed /\ Shared /\ Summed /\ Accepted
    BY DEF Inv
  <1>1. CASE Weigh
    BY <1>1, AdvanceFacts, <1>0 DEF Weigh, Accepted
  <1>2. CASE Share
    BY <1>2, AdvanceFacts, <1>0 DEF Share, Accepted
  <1>3. CASE Accept
    <2>1. /\ pc = "judge" /\ pc' = "sum" /\ children' = children
          /\ ceiling' = ceiling /\ floor' = floor
      BY <1>3 DEF Accept, input
    <2>2. budget \in Nat /\ ceiling \in Nat /\ floor \in Nat /\ weight[N] \in Nat \ {0}
      BY <1>0, <2>1, BudgetAssumption, CeilingAssumption, FloorAssumption, TotalPositive
         DEF TypeOK
    <2>3. budget \div weight[N] \in Nat
      BY <2>2, Division
    <2>4. Base <= ceiling
      BY <2>2, <2>3 DEF Base, MinOf
    <2>5. ASSUME NEW j \in Sites PROVE floor <= children[j] /\ children[j] <= ceiling
      <3>1. children[j] = Base /\ children[j] \in Nat
        BY <1>0, <2>1 DEF Shared, TypeOK
      <3>2. ~(children[j] < floor)
        BY <1>3 DEF Accept, Failing
      <3> QED
        BY <2>2, <2>4, <3>1, <3>2
    <2> QED
      BY <2>1, <2>5 DEF Accepted
  <1>4. CASE Downgrade
    BY <1>4, <1>0 DEF Downgrade, Accepted
  <1>5. CASE Refuse
    BY <1>5, <1>0 DEF Refuse, Accepted
  <1>6. CASE Sum
    <2>1. /\ pc = "sum" /\ i \in 1 .. N
          /\ \/ i < N /\ pc' = "sum" /\ i' = i + 1
             \/ i = N /\ pc' = "give" /\ i' = 1
      BY <1>0, <1>6, AdvanceFacts DEF Sum
    <2>2. children' = children /\ budget' = budget /\ ceiling' = ceiling /\ floor' = floor
      BY <1>6 DEF Sum, input
    <2>3. CASE i < N
      BY <1>0, <2>1, <2>2, <2>3 DEF Accepted
    <2>4. CASE i = N
      <3>1. used'[N] = Base * weight[N]
        BY <1>6, <2>4, SumFacts
      <3>2. budget \in Nat /\ ceiling \in Nat /\ weight[N] \in Nat \ {0}
        BY <1>0, <2>1, BudgetAssumption, CeilingAssumption, TotalPositive DEF TypeOK
      <3>3. budget \div weight[N] \in Nat /\ (budget \div weight[N]) * weight[N] <= budget
        BY <3>2, Division
      <3>4. Base \in Nat /\ Base <= budget \div weight[N]
        BY <3>2, <3>3 DEF Base, MinOf
      <3>5. Base * weight[N] <= (budget \div weight[N]) * weight[N]
        BY <3>2, <3>3, <3>4, TimesMono
      <3>6. Base * weight[N] \in Nat /\ (budget \div weight[N]) * weight[N] \in Nat
        BY <3>2, <3>3, <3>4
      <3>7. used'[N] <= budget
        BY <3>1, <3>2, <3>3, <3>5, <3>6
      <3> QED
        BY <1>0, <2>1, <2>2, <3>7 DEF Accepted
    <2> QED
      BY <2>1, <2>3, <2>4
  <1>7. ASSUME NEW j \in Sites, Give(j) PROVE Accepted'
    <2>1. /\ \A k \in 0 .. N :
                used'[k] = IF k < j THEN used[k] ELSE used[k] + Bonus(j) * WB(j)
          /\ \A k \in Sites : children'[k] = IF k = j THEN children[j] + Bonus(j)
                                                      ELSE children[k]
          /\ pc = "give" /\ pc' = "give"
          /\ budget' = budget /\ ceiling' = ceiling /\ floor' = floor
      BY <1>7, GiveFacts
    <2>2. /\ Bonus(j) \in Nat /\ Bonus(j) * WB(j) <= Leftover
          /\ children[j] + Bonus(j) <= ceiling
      BY <1>0, <1>7, BonusFits DEF Give
    <2>3. budget \in Nat /\ ceiling \in Nat /\ floor \in Nat
      BY <1>0, BudgetAssumption, CeilingAssumption, FloorAssumption DEF TypeOK
    <2>4. used'[N] <= budget
      <3>1. N \in 0 .. N /\ ~(N < j)
        BY NAssumption DEF Sites
      <3>2. used'[N] = used[N] + Bonus(j) * WB(j)
        BY <2>1, <3>1
      <3>3. used[N] \in Nat /\ WB(j) \in Nat
        BY <1>0, <3>1, WBPositive DEF TypeOK
      <3>4. Bonus(j) * WB(j) \in Nat
        BY <2>2, <3>3
      <3> QED
        BY <2>2, <2>3, <3>2, <3>3, <3>4 DEF Leftover
    <2>5. ASSUME NEW k \in Sites PROVE floor <= children'[k] /\ children'[k] <= ceiling
      <3>1. floor <= children[k] /\ children[k] <= ceiling /\ children[k] \in Nat
        BY <1>0, <2>1 DEF Accepted, TypeOK
      <3> QED
        BY <2>1, <2>2, <2>3, <3>1
    <2> QED
      BY <2>1, <2>4, <2>5 DEF Accepted
  <1>8. CASE Finish
    BY <1>0, <1>8 DEF Finish, Accepted, input
  <1>9. CASE UNCHANGED vars
    BY <1>0, <1>9 DEF vars, Accepted, input
  <1> QED
    BY <1>1, <1>2, <1>3, <1>4, <1>5, <1>6, <1>7, <1>8, <1>9 DEF Next

\* The leftover is offered once the sums are complete, to no site before that.
Unserved == pc \in {"weigh", "share", "judge", "sum"} => served = {}

LEMMA UnservedStep == Unserved /\ TypeOK /\ [Next]_vars => Unserved'
  <1> SUFFICES ASSUME Unserved, TypeOK, [Next]_vars PROVE Unserved'
    OBVIOUS
  <1>1. CASE Weigh \/ Share \/ Sum
    BY <1>1, AdvanceFacts DEF Weigh, Share, Sum, Unserved
  <1>2. CASE Accept \/ Downgrade \/ Refuse
    BY <1>2 DEF Accept, Downgrade, Refuse, Unserved
  <1>3. ASSUME NEW j \in Sites, Give(j) PROVE Unserved'
    BY <1>3 DEF Give, Unserved
  <1>4. CASE Finish \/ UNCHANGED vars
    BY <1>4 DEF Finish, vars, Unserved
  <1> QED
    BY <1>1, <1>2, <1>3, <1>4 DEF Next

LEMMA OfferedStep == Inv /\ Unserved /\ [Next]_vars => Offered'
  <1> SUFFICES ASSUME Inv, Unserved, [Next]_vars PROVE Offered'
    OBVIOUS
  <1>0. TypeOK /\ Weighed /\ Accepted /\ Offered
    BY DEF Inv
  <1>1. CASE Weigh \/ Share
    BY <1>0, <1>1, AdvanceFacts DEF Weigh, Share, Offered
  <1>2. CASE Accept \/ Downgrade \/ Refuse
    BY <1>0, <1>2 DEF Accept, Downgrade, Refuse, Offered
  <1>3. CASE Sum
    BY <1>0, <1>3, AdvanceFacts DEF Sum, Unserved, Offered
  <1>4. ASSUME NEW j \in Sites, Give(j) PROVE Offered'
    <2>1. /\ \A k \in 0 .. N :
                used'[k] = IF k < j THEN used[k] ELSE used[k] + Bonus(j) * WB(j)
          /\ \A k \in Sites : children'[k] = IF k = j THEN children[j] + Bonus(j)
                                                      ELSE children[k]
          /\ pc = "give" /\ pc' = "give" /\ preset' = preset
          /\ budget' = budget /\ ceiling' = ceiling
      BY <1>4, GiveFacts
    <2>2. /\ Bonus(j) \in Nat /\ Bonus(j) * WB(j) <= Leftover
          /\ children[j] + Bonus(j) = ceiling \/ Leftover - Bonus(j) * WB(j) < WB(j)
      BY <1>0, <1>4, BonusFits DEF Give
    <2>3. budget \in Nat /\ N \in 0 .. N /\ ~(N < j) /\ used[N] \in Nat
      BY <1>0, BudgetAssumption, NAssumption DEF TypeOK, Sites
    <2>4. Bonus(j) * WB(j) \in Nat
      <3>1. WB(j) \in Nat
        BY <1>0, WBPositive
      <3> QED
        BY <2>2, <3>1
    <2>5. Leftover' = Leftover - Bonus(j) * WB(j)
      <3>1. used'[N] = used[N] + Bonus(j) * WB(j)
        BY <2>1, <2>3
      <3> QED
        BY <2>1, <2>3, <2>4, <3>1 DEF Leftover
    <2>6. Leftover \in Int /\ Leftover' <= Leftover
      BY <2>3, <2>4, <2>5 DEF Leftover
    <2>7. ASSUME NEW k \in served'
          PROVE  children'[k] = ceiling' \/ Leftover' < WB(k)'
      <3>1. k \in served \/ k = j
        BY <1>4, <2>7 DEF Give
      <3>2. WB(k)' = WB(k) /\ k \in Sites
        BY <1>0, <2>1, <3>1 DEF WB, TypeOK
      <3>3. CASE k = j
        BY <2>1, <2>2, <2>5, <3>2, <3>3
      <3>4. CASE k # j
        <4>1. children[k] = ceiling \/ Leftover < WB(k)
          BY <1>0, <2>1, <3>1, <3>4 DEF Offered
        <4>2. WB(k) \in Nat /\ Leftover' \in Int
          BY <1>0, <2>4, <2>5, <2>6, <3>2, WBPositive
        <4> QED
          BY <2>1, <2>6, <3>2, <3>4, <4>1, <4>2
      <3> QED
        BY <3>3, <3>4
    <2> QED
      BY <2>1, <2>7 DEF Offered
  <1>5. CASE Finish
    BY <1>0, <1>5 DEF Finish, Offered, WB, Leftover, input
  <1>6. CASE UNCHANGED vars
    BY <1>0, <1>6 DEF vars, Offered, WB, Leftover, input
  <1> QED
    BY <1>1, <1>2, <1>3, <1>4, <1>5, <1>6 DEF Next

-----------------------------------------------------------------------------
(* Sums over the sites.                                                    *)

\* A set of numbers has a least one.
LEMMA LeastOf ==
    ASSUME NEW S, S \subseteq Nat, S # {}
    PROVE  \E x \in S : \A y \in S : x <= y
  <1> DEFINE less == {ss \in Nat \X Nat : ss[1] < ss[2]}
  <1>1. IsWellFoundedOn(less, Nat)
    BY NatLessThanWellFounded DEF OpToRel
  <1>2. PICK x \in S : \A y \in S : ~ (<<y, x>> \in less)
    <2> HIDE DEF less
    <2> QED
      BY <1>1, WFMin
  <1>3. \A y \in S : <<y, x>> \in Nat \X Nat
    OBVIOUS
  <1>4. \A y \in S : ~ (y < x)
    BY <1>2, <1>3
  <1>5. \A y \in S : x <= y
    BY <1>4
  <1> QED
    BY <1>5

\* Running(ps) is the only array that starts at 0 and adds up ps site by site:
\* where two such arrays differed there would be a first difference.
LEMMA RunningIs ==
    ASSUME NEW ps \in [Sites -> Preset], NEW w \in [0 .. N -> Nat],
           w[0] = 0, \A j \in Sites : w[j] = w[j-1] + ps[j].wb
    PROVE  Running(ps) = w
  <1> DEFINE Adds(f) == f = [j \in 0 .. N |-> IF j = 0 THEN 0 ELSE f[j-1] + ps[j].wb]
  <1>1. Adds(w)
    <2>1. \A j \in 0 .. N : w[j] = IF j = 0 THEN 0 ELSE w[j-1] + ps[j].wb
      BY NAssumption DEF Sites
    <2> QED
      BY <2>1
  <1>2. Running(ps) = CHOOSE f : Adds(f)
    BY DEF Running
  <1>3. Adds(Running(ps))
    <2> HIDE DEF Adds
    <2> QED
      BY <1>1, <1>2
  <1>4. ASSUME NEW f, Adds(f) PROVE f = w
    <2>1. DOMAIN f = 0 .. N /\ \A j \in 0 .. N : f[j] = IF j = 0 THEN 0 ELSE f[j-1] + ps[j].wb
      BY <1>4
    <2>2. f[0] = 0 /\ \A j \in Sites : f[j] = f[j-1] + ps[j].wb
      BY <2>1, NAssumption DEF Sites
    <2> DEFINE D == {j \in 0 .. N : f[j] # w[j]}
    <2>3. D = {}
      <3>1. SUFFICES ASSUME D # {} PROVE FALSE
        OBVIOUS
      <3>0. D \subseteq Nat
        BY NAssumption
      <3>2. PICK x \in D : \A y \in D : x <= y
        <4> HIDE DEF D
        <4> QED
          BY <3>0, <3>1, LeastOf
      <3>3. x \in Sites /\ x - 1 \in 0 .. N /\ x - 1 \notin D
        BY <3>2, <2>2, NAssumption DEF Sites
      <3>4. f[x] = w[x]
        BY <3>3, <2>2
      <3> QED
        BY <3>2, <3>4
    <2>4. f = [j \in 0 .. N |-> f[j]]
      BY <1>4
    <2> QED
      BY <2>3, <2>4
  <1> HIDE DEF Adds
  <1> QED
    BY <1>3, <1>4

-----------------------------------------------------------------------------
(* The way down.                                                           *)

\* A preset of the chain is told by its tier.
LEMMA NamedPreset ==
    ASSUME NEW p \in Preset
    PROVE  /\ p.tier \in 0 .. 5
           /\ p.tier # 0 => p = Tier(p.tier)
  BY DEF Preset, Tier, Tiers, Custom

\* Once the weights are added up, the shares are what the presets come to.
LEMMA SharesAreWorkers ==
    ASSUME Inv, pc \in {"judge", "sum"}
    PROVE  Base = Workers(preset)
  <1>1. /\ preset \in [Sites -> Preset] /\ weight \in [0 .. N -> Nat]
        /\ weight[0] = 0 /\ \A j \in Sites : weight[j] = weight[j-1] + preset[j].wb
    BY DEF Inv, TypeOK, Weighed, WB
  <1>2. Running(preset) = weight
    BY <1>1, RunningIs
  <1> QED
    BY <1>2 DEF Base, Workers, Total

\* Each pass goes one tier down with all presets of the chain at once, and never
\* without need.
Downgraded ==
    /\ pass \in 0 .. 4 /\ preset = Lightened(pass)
    /\ \A h \in 0 .. 4 : h < pass => Workers(Lightened(h)) < floor
    /\ pc \in {"sum", "give", "done"} => Workers(preset) >= floor
    /\ pc = "refused" => budget = 0 \/ Workers(Lightened(4)) < floor

LEMMA InitDowngraded == Init => Downgraded
  <1> SUFFICES ASSUME Init PROVE Downgraded
    OBVIOUS
  <1> USE DEF Init
  <1>1. \A j \in Sites : orig[j] = IF orig[j].tier = 0 THEN orig[j]
                                   ELSE Tier(IF orig[j].tier > 0 THEN orig[j].tier - 0 ELSE 1)
    <2> TAKE j \in Sites
    <2>1. orig[j] \in Preset
      OBVIOUS
    <2>2. orig[j].tier \in 0 .. 5 /\ (orig[j].tier # 0 => orig[j] = Tier(orig[j].tier))
      BY <2>1, NamedPreset
    <2>3. orig[j].tier # 0 => orig[j].tier > 0 /\ orig[j].tier - 0 = orig[j].tier
      BY <2>2
    <2> QED
      BY <2>2, <2>3
  <1>2. preset = Lightened(0)
    BY <1>1 DEF Lightened
  <1>3. pass = 0 /\ pc \in {"weigh", "refused"} /\ (pc = "refused" => budget = 0)
    OBVIOUS
  <1> QED
    BY <1>2, <1>3 DEF Downgraded

\* One tier further down.
LEMMA OneTierDown ==
    ASSUME TypeOK, pass \in 0 .. 4, preset = Lightened(pass), NEW j \in Sites
    PROVE  /\ Downgradable(preset[j]) => pass < 4 /\ Tier(preset[j].tier - 1) = Lightened(pass + 1)[j]
           /\ ~Downgradable(preset[j]) => /\ preset[j] = Lightened(pass + 1)[j]
                                          /\ preset[j] = Lightened(4)[j]
  <1> DEFINE t == orig[j].tier
             At(k) == IF t = 0 THEN orig[j] ELSE Tier(IF t > k THEN t - k ELSE 1)
  <1>1. orig[j] \in Preset /\ t \in 0 .. 5
    BY NamedPreset DEF TypeOK
  <1>2. \A k \in 0 .. 5 : Lightened(k)[j] = At(k)
    BY DEF Lightened
  <1>3. Lightened(pass)[j] = At(pass) /\ Lightened(pass + 1)[j] = At(pass + 1) /\ Lightened(4)[j] = At(4)
    BY <1>2
  <1>4. \A u : Tier(u).tier = u
    BY DEF Tier
  <1>5. preset[j].tier = IF t = 0 THEN 0 ELSE IF t > pass THEN t - pass ELSE 1
    BY <1>3, <1>4
  <1>6. CASE t = 0
    BY <1>3, <1>5, <1>6 DEF Downgradable
  <1>7. CASE t > pass + 1
    <2>1. preset[j].tier = t - pass /\ t - pass - 1 = t - (pass + 1) /\ pass < 4
      BY <1>1, <1>5, <1>7
    <2>2. At(pass + 1) = Tier(t - (pass + 1))
      BY <1>1, <1>7
    <2> QED
      BY <1>1, <1>3, <1>7, <2>1, <2>2 DEF Downgradable
  <1>8. CASE t # 0 /\ t <= pass + 1
    <2>1. preset[j].tier = 1
      BY <1>1, <1>5, <1>8
    <2>2. At(pass) = Tier(1) /\ At(pass + 1) = Tier(1) /\ At(4) = Tier(1)
      BY <1>1, <1>8
    <2> QED
      BY <1>3, <2>1, <2>2 DEF Downgradable
  <1> QED
    BY <1>1, <1>6, <1>7, <1>8

LEMMA DowngradedStep == Inv /\ Downgraded /\ [Next]_vars => Downgraded'
  <1> SUFFICES ASSUME Inv, Downgraded, [Next]_vars PROVE Downgraded'
    OBVIOUS
  <1>0. TypeOK /\ Shared
    BY DEF Inv
  <1> DEFINE Same == UNCHANGED <<input, preset, pass>>
  <1>1. Same => \A k : Workers(Lightened(k))' = Workers(Lightened(k))
    BY DEF Workers, Lightened, Total, Running, input
  <1>2. Same => Workers(preset)' = Workers(preset)
    BY DEF Workers, Total, Running, input
  <1>3. Same => Lightened(pass)' = Lightened(pass)
    BY DEF Lightened, input
  <1>4. ASSUME Same, pc' \in {"sum", "give", "done"} => Workers(preset) >= floor,
               pc' = "refused" => budget = 0 \/ Workers(Lightened(4)) < floor
        PROVE  Downgraded'
    <2>1. /\ floor' = floor /\ pass' = pass /\ preset' = preset /\ budget' = budget
          /\ Lightened(pass)' = Lightened(pass) /\ Workers(preset)' = Workers(preset)
          /\ \A k : Workers(Lightened(k))' = Workers(Lightened(k))
      BY <1>1, <1>2, <1>3, <1>4 DEF input
    <2> QED
      BY <1>4, <2>1 DEF Downgraded
  <1>5. pc = "judge" => Base = Workers(preset) /\ \A j \in Sites : children[j] = Workers(preset)
    BY <1>0, SharesAreWorkers DEF Shared
  <1> HIDE DEF Same
  <1>6. CASE Weigh \/ Share \/ Sum
    <2>1. /\ Same /\ pc' # "refused"
          /\ pc' \in {"sum", "give", "done"} => pc \in {"sum", "give", "done"}
      BY <1>0, <1>6, AdvanceFacts DEF Weigh, Share, Sum, Same
    <2> QED
      BY <2>1, <1>4 DEF Downgraded
  <1>7. CASE Accept
    <2>1. Same /\ pc = "judge" /\ pc' = "sum" /\ \A j \in Sites : ~ (children[j] < floor)
      BY <1>7 DEF Accept, Failing, Same
    <2>2. Workers(preset) >= floor
      <3>1. 1 \in Sites
        BY NAssumption DEF Sites
      <3>2. children[1] \in Nat /\ floor \in Nat /\ ~ (children[1] < floor)
        BY <1>0, <2>1, <3>1, FloorAssumption DEF TypeOK
      <3> QED
        BY <1>5, <2>1, <3>1, <3>2
    <2> QED
      BY <1>4, <2>1, <2>2
  <1>8. ASSUME pc = "judge", Failing # {} PROVE Failing = Sites /\ Workers(preset) < floor
    BY <1>5, <1>8 DEF Failing
  <1>9. CASE Downgrade
    <2>1. /\ pc = "judge" /\ pass' = pass + 1 /\ UNCHANGED input
          /\ pc' = IF pass' < MaxIterations THEN "weigh" ELSE "refused"
      BY <1>9 DEF Downgrade
    <2>2. Failing = Sites /\ Workers(preset) < floor /\ \E j \in Sites : Downgradable(preset[j])
      BY <1>8, <1>9 DEF Downgrade, Failing
    <2>3. preset' = [j \in Sites |-> IF Downgradable(preset[j])
                                     THEN Tier(preset[j].tier - 1) ELSE preset[j]]
      BY <1>9, <2>2 DEF Downgrade
    <2>4. \A j \in Sites : preset'[j] = Lightened(pass + 1)[j]
      BY <1>0, <2>3, OneTierDown DEF Downgraded
    <2>5. pass < 4
      BY <1>0, <2>2, OneTierDown DEF Downgraded
    <2>6. preset' = Lightened(pass + 1)
      BY <2>3, <2>4 DEF Lightened
    <2>7. Lightened(pass)' = Lightened(pass + 1)
      BY <2>1 DEF Lightened, input
    <2>8. \A k : Workers(Lightened(k))' = Workers(Lightened(k))
      BY <2>1 DEF Workers, Lightened, Total, Running, input
    <2>9. \A h \in 0 .. 4 : h < pass + 1 => Workers(Lightened(h)) < floor
      <3>1. \A h \in 0 .. 4 : h < pass + 1 => h < pass \/ h = pass
        BY DEF Downgraded
      <3> QED
        BY <2>2, <3>1 DEF Downgraded
    <2>10. pc' = "weigh"
      BY <2>1, <2>5, NAssumption DEF Downgraded, MaxIterations
    <2>11. floor' = floor /\ pass' \in 0 .. 4
      BY <2>1, <2>5 DEF input, Downgraded
    <2> QED
      BY <2>1, <2>6, <2>7, <2>8, <2>9, <2>10, <2>11 DEF Downgraded
  <1>10. CASE Refuse
    <2>1. Same /\ pc = "judge" /\ pc' = "refused" /\ Failing # {}
          /\ \A j \in Failing : ~Downgradable(preset[j])
      BY <1>10 DEF Refuse, Same
    <2>2. Workers(preset) < floor /\ \A j \in Sites : ~Downgradable(preset[j])
      BY <1>8, <2>1
    <2>3. preset = Lightened(4)
      <3>1. \A j \in Sites : preset[j] = Lightened(4)[j]
        BY <1>0, <2>2, OneTierDown DEF Downgraded
      <3>2. preset = [j \in Sites |-> preset[j]]
        BY <1>0 DEF TypeOK
      <3> QED
        BY <3>1, <3>2 DEF Lightened
    <2> QED
      BY <1>4, <2>1, <2>2, <2>3
  <1>11. ASSUME NEW j \in Sites, Give(j) PROVE Downgraded'
    <2>1. Same /\ pc' = "give" /\ pc = "give"
      BY <1>11 DEF Give, Same
    <2> QED
      BY <1>4, <2>1 DEF Downgraded
  <1>12. CASE Finish
    <2>1. Same /\ pc' = "done" /\ pc = "give"
      BY <1>12 DEF Finish, Same
    <2> QED
      BY <1>4, <2>1 DEF Downgraded
  <1>13. CASE UNCHANGED vars
    <2>1. Same /\ pc' = pc
      BY <1>13 DEF vars, Same
    <2> QED
      BY <1>4, <2>1 DEF Downgraded
  <1> QED
    BY <1>6, <1>7, <1>9, <1>10, <1>11, <1>12, <1>13 DEF Next

-----------------------------------------------------------------------------
\* The invariant holds initially and every iteration of every loop keeps it.
THEOREM Invariance == Spec => [](Inv /\ Unserved)
  <1>1. Init => Inv /\ Unserved
    BY InitInv DEF Init, Unserved
  <1>2. Inv /\ Unserved /\ [Next]_vars => Inv' /\ Unserved'
    <2> SUFFICES ASSUME Inv, Unserved, [Next]_vars PROVE Inv' /\ Unserved'
      OBVIOUS
    <2>1. TypeOK' /\ Weighed' /\ Rewound' /\ Shared' /\ Summed' /\ Accepted' /\ Offered'
      BY TypeStep, WeighedStep, SharedStep, SummedStep, AcceptedStep, OfferedStep
    <2>2. Unserved'
      BY UnservedStep DEF Inv
    <2> QED
      BY <2>1, <2>2 DEF Inv
  <1> QED
    BY <1>1, <1>2, PTL DEF Spec

\* Every variable of Compute keeps its type; in particular no child count or
\* memory sum becomes negative.
THEOREM TypeCorrect == Spec => []TypeOK
  <1>1. Inv => TypeOK
    BY DEF Inv
  <1> QED
    BY <1>1, Invariance, PTL

\* The out-of-memory bound of the allocator: however many sites there are and
\* whatever their presets, the workers granted fit in the PHP budget.
THEOREM BudgetKept == Spec => []FitsInBudget
  <1>1. Inv => FitsInBudget
    BY DEF Inv, Summed, Accepted, FitsInBudget
  <1> QED
    BY <1>1, Invariance, PTL

\* MinChildren and the CPU ceiling hold for every site, bonus included.
THEOREM LimitsKept == Spec => []WithinLimits
  <1>1. Inv => WithinLimits
    BY DEF Inv, Accepted, WithinLimits
  <1> QED
    BY <1>1, Invariance, PTL

\* Before the bonus all sites get the same number of workers, although Compute
\* rounds twice and with different divisors for each.
THEOREM SharesEqual == Spec => []EqualShares
  <1>1. Inv => EqualShares
    BY DEF Inv, Shared, Base, EqualShares
  <1> QED
    BY <1>1, Invariance, PTL

\* One round of offers, lightest first, leaves nothing a site could still use.
THEOREM LeftoverSpent == Spec => []NothingLeftToGive
  <1>1. Inv => NothingLeftToGive
    <2> SUFFICES ASSUME Inv, pc = "done", NEW j \in Sites
                 PROVE  children[j] = ceiling \/ Leftover < WB(j)
      BY DEF NothingLeftToGive
    <2>1. TypeOK /\ Offered
      BY DEF Inv
    <2>2. CASE served = Sites
      BY <2>1, <2>2 DEF Offered
    <2>3. CASE Leftover <= 0
      <3>1. WB(j) \in Nat \ {0}
        BY <2>1, WBPositive
      <3>2. Leftover \in Int
        BY <2>1, BudgetAssumption, NAssumption DEF TypeOK, Leftover
      <3> QED
        BY <2>3, <3>1, <3>2
    <2> QED
      BY <2>1, <2>2, <2>3 DEF Offered
  <1> QED
    BY <1>1, Invariance, PTL

\* The presets go down together, and only as far as they must.
LEMMA WayDown == Spec => []Downgraded
  <1>1. Inv /\ Downgraded /\ [Next]_vars => Downgraded'
    BY DowngradedStep
  <1> QED
    BY <1>1, InitDowngraded, Invariance, PTL DEF Spec

\* Compute lowers presets no further than it must: it accepts the first tier, on
\* the way down from the presets asked for, at which no site starves.
THEOREM DowngradeNeeded == Spec => []NoNeedlessDowngrade
  <1>1. Downgraded => NoNeedlessDowngrade
    BY DEF Downgraded, NoNeedlessDowngrade
  <1> QED
    BY <1>1, WayDown, PTL

\* ErrInsufficientRAM is returned only when the lightest presets would not do
\* either; the bound on the iterations is never what ends the loop.
THEOREM RefusalJustified == Spec => []RefusesOnlyWhenSaturated
  <1>1. Downgraded => RefusesOnlyWhenSaturated
    BY NAssumption DEF Downgraded, RefusesOnlyWhenSaturated, MaxIterations
  <1> QED
    BY <1>1, WayDown, PTL

-----------------------------------------------------------------------------
(* Compute's loops come to an end.                                         *)

\* A pass over the sites takes this many iterations, the judgement included.
Round == 2 * N + 1

\* How many iterations are left at most: four more rounds, then the sums, the
\* offers and the return.
StepsLeft ==
    CASE pc = "weigh" -> (4 - pass) * Round + Round + Round - i + 1
      [] pc = "share" -> (4 - pass) * Round + N + 1 + Round - i + 1
      [] pc = "judge" -> (4 - pass) * Round + Round + 1
      [] pc = "sum"   -> Round - i + 1
      [] pc = "give"  -> N + 1 - Cardinality(served)
      [] pc \in {"done", "refused"} -> 0

LEMMA SitesFinite == IsFiniteSet(Sites) /\ Cardinality(Sites) = N
  BY NAssumption, FS_Interval DEF Sites

LEMMA ServedCount ==
    ASSUME TypeOK
    PROVE  IsFiniteSet(served) /\ Cardinality(served) \in 0 .. N
  <1>1. served \in SUBSET Sites
    BY DEF TypeOK
  <1>2. IsFiniteSet(served) /\ Cardinality(served) <= N
    BY <1>1, SitesFinite, FS_Subset
  <1>3. Cardinality(served) \in Nat
    BY <1>2, FS_CardinalityType
  <1> QED
    BY <1>2, <1>3, NAssumption

\* One more downgrade uses up one round.
LEMMA RoundsLeft ==
    ASSUME NEW p \in 0 .. 3, NEW r \in Nat
    PROVE  (4 - p) * r = (4 - (p + 1)) * r + r
  <1>1. p = 0 \/ p = 1 \/ p = 2 \/ p = 3
    OBVIOUS
  <1> QED
    BY <1>1

LEMMA RoundsBound ==
    ASSUME NEW p \in 0 .. 4, NEW r \in Nat
    PROVE  (4 - p) * r \in 0 .. 4 * r
  <1>1. p = 0 \/ p = 1 \/ p = 2 \/ p = 3 \/ p = 4
    OBVIOUS
  <1> QED
    BY <1>1

LEMMA StepsBound ==
    ASSUME TypeOK, Downgraded
    PROVE  StepsLeft \in 0 .. 6 * Round
  <1> DEFINE left == (4 - pass) * Round
             count == Cardinality(served)
  <1>1. Round \in Nat /\ N \in Nat /\ N >= 1 /\ Round = N + N + 1
    BY NAssumption DEF Round
  <1>2. left \in 0 .. 4 * Round
    BY <1>1, RoundsBound DEF Downgraded
  <1>3. count \in 0 .. N
    BY ServedCount
  <1>4. i \in 1 .. N /\ pc \in {"weigh", "share", "judge", "sum", "give", "done", "refused"}
    BY DEF TypeOK, Sites
  <1>5. /\ pc = "weigh" => StepsLeft = left + Round + Round - i + 1
        /\ pc = "share" => StepsLeft = left + N + 1 + Round - i + 1
        /\ pc = "judge" => StepsLeft = left + Round + 1
        /\ pc = "sum" => StepsLeft = Round - i + 1
        /\ pc = "give" => StepsLeft = N + 1 - count
        /\ pc \in {"done", "refused"} => StepsLeft = 0
    BY DEF StepsLeft
  <1> HIDE DEF left, count
  <1> QED
    BY <1>1, <1>2, <1>3, <1>4, <1>5

LEMMA StepsShrink ==
    ASSUME Inv, Downgraded, Downgraded', Next
    PROVE  StepsLeft' < StepsLeft
  <1>0. TypeOK /\ TypeOK'
    BY TypeStep DEF Inv
  <1> DEFINE left == (4 - pass) * Round
             count == Cardinality(served)
  <1>1. Round \in Nat /\ N \in Nat /\ N >= 1 /\ Round = N + N + 1
    BY NAssumption DEF Round
  <1>2. left \in 0 .. 4 * Round /\ left' \in 0 .. 4 * Round
    BY <1>1, RoundsBound DEF Downgraded
  <1>3. count \in 0 .. N /\ count' \in 0 .. N
    <2>1. count \in 0 .. N
      BY <1>0, ServedCount
    <2>2. count' \in 0 .. N
      <3>1. served' \in SUBSET Sites
        BY <1>0 DEF TypeOK
      <3>2. IsFiniteSet(served') /\ Cardinality(served') <= N
        BY <3>1, SitesFinite, FS_Subset
      <3>3. Cardinality(served') \in Nat
        BY <3>2, FS_CardinalityType
      <3> QED
        BY <1>1, <3>2, <3>3
    <2> QED
      BY <2>1, <2>2
  <1>4. i \in 1 .. N /\ i' \in 1 .. N
    BY <1>0 DEF TypeOK, Sites
  <1>5. /\ pc = "weigh" => StepsLeft = left + Round + Round - i + 1
        /\ pc = "share" => StepsLeft = left + N + 1 + Round - i + 1
        /\ pc = "judge" => StepsLeft = left + Round + 1
        /\ pc = "sum" => StepsLeft = Round - i + 1
        /\ pc = "give" => StepsLeft = N + 1 - count
    BY DEF StepsLeft
  <1>6. /\ pc' = "weigh" => StepsLeft' = left' + Round + Round - i' + 1
        /\ pc' = "share" => StepsLeft' = left' + N + 1 + Round - i' + 1
        /\ pc' = "judge" => StepsLeft' = left' + Round + 1
        /\ pc' = "sum" => StepsLeft' = Round - i' + 1
        /\ pc' = "give" => StepsLeft' = N + 1 - count'
        /\ pc' \in {"done", "refused"} => StepsLeft' = 0
    BY DEF StepsLeft, Round
  <1>7. pass' = pass => left' = left
    BY DEF Round
  <1> HIDE DEF left, count
  <1>8. CASE Weigh
    <2>1. /\ pc = "weigh" /\ pass' = pass
          /\ (i < N /\ pc' = "weigh" /\ i' = i + 1) \/ (i = N /\ pc' = "share" /\ i' = 1)
      BY <1>0, <1>8, AdvanceFacts DEF Weigh
    <2> QED
      BY <1>1, <1>2, <1>4, <1>5, <1>6, <1>7, <2>1
  <1>9. CASE Share
    <2>1. /\ pc = "share" /\ pass' = pass
          /\ (i < N /\ pc' = "share" /\ i' = i + 1) \/ (i = N /\ pc' = "judge" /\ i' = 1)
      BY <1>0, <1>9, AdvanceFacts DEF Share
    <2> QED
      BY <1>1, <1>2, <1>4, <1>5, <1>6, <1>7, <2>1
  <1>10. CASE Sum
    <2>1. /\ pc = "sum"
          /\ (i < N /\ pc' = "sum" /\ i' = i + 1) \/ (i = N /\ pc' = "give" /\ i' = 1)
      BY <1>0, <1>10, AdvanceFacts DEF Sum
    <2> QED
      BY <1>1, <1>3, <1>4, <1>5, <1>6, <2>1
  <1>11. CASE Accept
    <2>1. pc = "judge" /\ pc' = "sum" /\ i' = 1
      BY <1>11 DEF Accept, Inv, Rewound
    <2> QED
      BY <1>1, <1>2, <1>5, <1>6, <2>1
  <1>12. CASE Downgrade
    <2>1. pc = "judge" /\ pass' = pass + 1 /\ pc' \in {"weigh", "refused"}
      BY <1>12 DEF Downgrade
    <2>2. i' = 1
      BY <1>12 DEF Downgrade, Inv, Rewound
    <2>3. left = left' + Round
      <3>1. pass \in 0 .. 3
        BY <2>1 DEF Downgraded
      <3>2. (4 - pass) * Round = (4 - (pass + 1)) * Round + Round
        BY <1>1, <3>1, RoundsLeft
      <3>3. left' = (4 - (pass + 1)) * Round
        BY <2>1 DEF left, Round
      <3> QED
        BY <3>2, <3>3 DEF left
    <2> QED
      BY <1>1, <1>2, <1>4, <1>5, <1>6, <2>1, <2>2, <2>3
  <1>13. CASE Refuse
    <2>1. pc = "judge" /\ pc' = "refused"
      BY <1>13 DEF Refuse
    <2> QED
      BY <1>1, <1>2, <1>5, <1>6, <2>1
  <1>14. ASSUME NEW j \in Sites, Give(j) PROVE StepsLeft' < StepsLeft
    <2>1. pc = "give" /\ pc' = "give" /\ j \notin served /\ served' = served \cup {j}
      BY <1>14 DEF Give
    <2>2. count' = count + 1
      BY <1>0, <2>1, ServedCount, FS_AddElement DEF count
    <2> QED
      BY <1>1, <1>3, <1>5, <1>6, <2>1, <2>2
  <1>15. CASE Finish
    <2>1. pc = "give" /\ pc' = "done"
      BY <1>15 DEF Finish
    <2> QED
      BY <1>1, <1>3, <1>5, <1>6, <2>1
  <1> QED
    BY <1>8, <1>9, <1>10, <1>11, <1>12, <1>13, <1>14, <1>15 DEF Next

\* Whatever sites are downgraded and however often, Compute returns after at most six
\* rounds over the sites: no iteration of its loops brings it back to where it was.
THEOREM RoundsRunOut == Spec => [](StepsLeft \in 0 .. 6 * Round) /\ [][StepsLeft' < StepsLeft]_vars
  <1>1. Inv /\ Downgraded => StepsLeft \in 0 .. 6 * Round
    BY StepsBound DEF Inv
  <1>2. Inv /\ Downgraded /\ Downgraded' /\ [Next]_vars => [StepsLeft' < StepsLeft]_vars
    BY StepsShrink
  <1> QED
    BY <1>1, <1>2, Invariance, WayDown, PTL DEF Spec

=============================================================================
