----------------------------- MODULE Allocator -----------------------------
(***************************************************************************)
(* allocator.Compute (internal/allocator): how many LSPHP workers each PHP *)
(* site gets.  The budget is divided in proportion to the presets' worker  *)
(* budgets (WB); while some site gets fewer than MinChildren workers those *)
(* sites are downgraded one tier and everything is divided again; at the   *)
(* end what rounding left over is handed out, lightest presets first.      *)
(*                                                                         *)
(* The loops go site by site, so that sums are running sums (weight, used) *)
(* and not recursive operators.  Amounts are MB.  They are Go uint64s: the *)
(* products stay far below 2^64 for any preset of the catalogue.           *)
(***************************************************************************)
EXTENDS Integers

CONSTANTS
    N,          \* number of PHP sites
    Budgets,    \* what PHPBudget may return
    Ceilings,   \* cpuCores * MaxChildrenPerCPU
    Floors,     \* MinChildren
    CustomWBs   \* worker budgets of custom presets

ASSUME NAssumption == N \in Nat \ {0}
ASSUME BudgetAssumption == Budgets \subseteq Nat
ASSUME CeilingAssumption == Ceilings \subseteq Nat \ {0}
ASSUME FloorAssumption == Floors \subseteq Nat \ {0}
ASSUME CustomAssumption == CustomWBs \subseteq Nat \ {0}

Sites == 1 .. N

\* The catalogue, lite to heavy; a custom preset is outside the chain.
TierWB == <<64, 128, 192, 256, 384>>
Tiers == 1 .. 5
Tier(t) == [tier |-> t, wb |-> TierWB[t]]
Custom(wb) == [tier |-> 0, wb |-> wb]
Preset == {Tier(t) : t \in Tiers} \cup {Custom(wb) : wb \in CustomWBs}

MinOf(a, b) == IF a <= b THEN a ELSE b

VARIABLES
    budget, ceiling, floor,
    orig,       \* the presets asked for, as resolvePresets returns them
    pc,
    preset,     \* the presets in force
    i,          \* the site a loop is at
    weight,     \* weight[j]: worker budgets of sites 1 .. j
    children,
    used,       \* used[j]: memory of the workers of sites 1 .. j
    served,     \* sites the leftover was offered to
    pass        \* iterations of Compute's loop

input == <<budget, ceiling, floor, orig>>
vars == <<input, pc, preset, i, weight, children, used, served, pass>>

Zeros == [j \in 0 .. N |-> 0]
WB(j) == preset[j].wb

\* len(downgradeChain) * (len(sites) + 1)
MaxIterations == 5 * (N + 1)

Init ==
    /\ budget \in Budgets /\ ceiling \in Ceilings /\ floor \in Floors
    /\ orig \in [Sites -> Preset]
    /\ pc = IF budget = 0 THEN "refused" ELSE "weigh"
    /\ preset = orig
    /\ i = 1 /\ weight = Zeros /\ children = [j \in Sites |-> 0]
    /\ used = Zeros /\ served = {} /\ pass = 0

\* Mutant: the loop variable is not reset.
AdvanceOn(loop, then) ==
    /\ pc = loop
    /\ i' = i + 1
    /\ pc' = IF i < N THEN loop ELSE then

\* A loop over the sites moves on, and from the last one to the next loop.
Advance(loop, then) ==
    /\ pc = loop
    /\ IF i < N THEN pc' = loop /\ i' = i + 1 ELSE pc' = then /\ i' = 1

\* distribute: the total weight, then each site's share of the budget.
Weigh ==
    /\ Advance("weigh", "share")
    /\ weight' = [weight EXCEPT ![i] = weight[i-1] + WB(i)]
    /\ UNCHANGED <<input, preset, children, used, served, pass>>

\* Mutant: a site never gets less than one worker's worth.
ShareRoundedUp(wb) == (budget * wb) \div weight[N] + wb

\* Mutant: the budget is divided evenly.
ShareEvenly(wb) == budget \div N

ShareOf(wb) == (budget * wb) \div weight[N]

Share ==
    /\ Advance("share", "judge")
    /\ children' = [children EXCEPT ![i] = MinOf(ShareOf(WB(i)) \div WB(i), ceiling)]
    /\ UNCHANGED <<input, preset, weight, used, served, pass>>

\* Mutant: a site at the floor is taken for failing.
FailingAtFloor == {j \in Sites : children[j] <= floor}

Failing == {j \in Sites : children[j] < floor}

Downgradable(p) == p.tier > 1

Accept ==
    /\ pc = "judge" /\ Failing = {}
    /\ pc' = "sum"
    /\ UNCHANGED <<input, preset, i, weight, children, used, served, pass>>

Downgrade ==
    /\ pc = "judge"
    /\ \E j \in Failing : Downgradable(preset[j])
    /\ preset' = [j \in Sites |->
                    IF j \in Failing /\ Downgradable(preset[j])
                    THEN Tier(preset[j].tier - 1) ELSE preset[j]]
    /\ pass' = pass + 1
    /\ pc' = IF pass' < MaxIterations THEN "weigh" ELSE "refused"
    /\ UNCHANGED <<input, i, weight, children, used, served>>

\* Mutant: one site that cannot be downgraded is enough to give up.
RefuseEarly ==
    /\ pc = "judge" /\ Failing # {}
    /\ \E j \in Failing : ~Downgradable(preset[j])
    /\ pc' = "refused"
    /\ UNCHANGED <<input, preset, i, weight, children, used, served, pass>>

Refuse ==
    /\ pc = "judge" /\ Failing # {}
    /\ \A j \in Failing : ~Downgradable(preset[j])
    /\ pc' = "refused"
    /\ UNCHANGED <<input, preset, i, weight, children, used, served, pass>>

\* redistributeLeftover: what is used, then what is left (the running sums stay
\* those of the workers given so far, so the leftover is the budget less the
\* last of them).
Sum ==
    /\ Advance("sum", "give")
    /\ used' = [used EXCEPT ![i] = used[i-1] + children[i] * WB(i)]
    /\ UNCHANGED <<input, preset, weight, children, served, pass>>

Leftover == budget - used[N]

\* The insertion sort is stable: by WB, then by position.
Before(j, k) == WB(j) < WB(k) \/ (WB(j) = WB(k) /\ j <= k)

\* Mutant: the room below the CPU ceiling is not looked at.
BonusUnbounded(j) == Leftover \div WB(j)

Bonus(j) == MinOf(Leftover \div WB(j), ceiling - children[j])

\* Mutant: the bonus goes to one site only.
GiveOnce(j) ==
    /\ pc = "give" /\ Leftover > 0
    /\ \A k \in Sites : Before(j, k)
    /\ children' = [children EXCEPT ![j] = @ + Bonus(j)]
    /\ used' = [k \in 0 .. N |-> IF k < j THEN used[k] ELSE used[k] + Bonus(j) * WB(j)]
    /\ served' = Sites
    /\ UNCHANGED <<input, pc, preset, i, weight, pass>>

Give(j) ==
    /\ pc = "give" /\ Leftover > 0
    /\ j \notin served /\ \A k \in Sites \ served : Before(j, k)
    /\ children' = [children EXCEPT ![j] = @ + Bonus(j)]
    /\ used' = [k \in 0 .. N |-> IF k < j THEN used[k] ELSE used[k] + Bonus(j) * WB(j)]
    /\ served' = served \cup {j}
    /\ UNCHANGED <<input, pc, preset, i, weight, pass>>

\* Mutant: only a complete round ends the loop, and a used up budget starts none.
FinishRound ==
    /\ pc = "give" /\ served = Sites
    /\ pc' = "done"
    /\ UNCHANGED <<input, preset, i, weight, children, used, served, pass>>

Finish ==
    /\ pc = "give" /\ (Leftover <= 0 \/ served = Sites)
    /\ pc' = "done"
    /\ UNCHANGED <<input, preset, i, weight, children, used, served, pass>>

Next ==
    \/ Weigh \/ Share \/ Accept \/ Downgrade \/ Refuse
    \/ Sum \/ (\E j \in Sites : Give(j)) \/ Finish

Spec == Init /\ [][Next]_vars
FairSpec == Spec /\ WF_vars(Next)

-----------------------------------------------------------------------------
TypeOK ==
    /\ budget \in Budgets /\ ceiling \in Ceilings /\ floor \in Floors
    /\ orig \in [Sites -> Preset] /\ preset \in [Sites -> Preset]
    /\ pc \in {"weigh", "share", "judge", "sum", "give", "done", "refused"}
    /\ i \in Sites /\ pass \in Nat /\ served \subseteq Sites
    /\ weight \in [0 .. N -> Nat] /\ used \in [0 .. N -> Nat]
    /\ children \in [Sites -> Nat]

\* The workers given out never need more memory than the budget, at their worker
\* budgets (TestComputeOOMInvariantHolds): used is the running sum of the
\* allocation, and its last value is within the budget.
FitsInBudget ==
    pc = "done" =>
        /\ used[0] = 0
        /\ \A j \in Sites : used[j] = used[j-1] + children[j] * WB(j)
        /\ used[N] <= budget

\* Every site of an accepted allocation has at least MinChildren workers and no
\* more than the CPU allows, bonus included.
WithinLimits ==
    pc = "done" => \A j \in Sites : floor <= children[j] /\ children[j] <= ceiling

\* Weighting by WB and dividing by WB cancel out, roundings included: before the
\* bonus all sites have the same number of workers, whatever their presets, so
\* that either none or all of them starve.
EqualShares ==
    pc = "judge" =>
        \A j \in Sites : children[j] = MinOf(budget \div weight[N], ceiling)

\* What the loops should come to: the workers per site for given presets.
Running(ps) ==
    LET sum[j \in 0 .. N] == IF j = 0 THEN 0 ELSE sum[j-1] + ps[j].wb IN sum
Total(ps) == Running(ps)[N]
Workers(ps) == MinOf(budget \div Total(ps), ceiling)

\* All named presets k tiers lighter, lite at the least.
Lightened(k) ==
    [j \in Sites |-> IF orig[j].tier = 0 THEN orig[j]
                     ELSE Tier(IF orig[j].tier > k THEN orig[j].tier - k ELSE 1)]

\* No site is downgraded further than needed: the presets used are the first on
\* the way down under which nobody starves.
NoNeedlessDowngrade ==
    pc = "done" =>
        \E k \in 0 .. 4 :
            /\ preset = Lightened(k) /\ Workers(preset) >= floor
            /\ \A h \in 0 .. 4 : h < k => Workers(Lightened(h)) < floor

\* Compute refuses only what cannot be had: even the lightest presets would leave
\* some site below MinChildren (ErrInsufficientRAM's comment, allocator.go:8), and
\* never because the iterations ran out.
RefusesOnlyWhenSaturated ==
    pc = "refused" =>
        /\ budget = 0 \/ Workers(Lightened(4)) < floor
        /\ pass < MaxIterations

\* The leftover is used up: no site below the CPU ceiling could be given one more
\* worker.
NothingLeftToGive ==
    pc = "done" => \A j \in Sites : children[j] = ceiling \/ Leftover < WB(j)

\* Compute returns.
Terminates == <>(pc \in {"done", "refused"})

=============================================================================
