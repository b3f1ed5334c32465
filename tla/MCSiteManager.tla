--------------------------- MODULE MCSiteManager ---------------------------
(* Small instances of SiteManager. *)
EXTENDS SiteManager, TLC

CONSTANTS s1, s2

OwnUsers == [n \in Names |-> n]

\* a-b.com and a.b.com both get the user site-a-b-com.
SharedUser == [n \in Names |-> s1]

Sites == Permutations(Names)

\* RAM for any number of standard sites.
Roomy(demand) == [n \in DOMAIN demand |-> 5 \div Cardinality(DOMAIN demand)]

\* allocator.Compute for a standard preset and a custom one three times as heavy,
\* at least one worker each: 5 units hold one of each and a bonus worker for
\* the lighter, or two standard sites with a bonus for one, not two custom ones.
Weight(p) == IF p = "custom" THEN 3 ELSE 1

Tight(demand) ==
    LET sites == DOMAIN demand
        weight == [n \in sites |-> Weight(demand[n])]
        total == SumFunction(weight)
        workers == [n \in sites |-> ((5 * weight[n]) \div total) \div weight[n]]
        left == 5 - SumFunction([n \in sites |-> workers[n] * weight[n]])
        lightest == CHOOSE n \in sites : \A m \in sites : weight[n] <= weight[m]
        bonus == left \div weight[lightest]
    IN  IF sites = {} THEN << >>
        ELSE IF \E n \in sites : workers[n] < 1 THEN NoRoom
        ELSE [n \in sites |-> weight[n] * (workers[n] + IF n = lightest THEN bonus ELSE 0)]

AnyTime == ControlPoints
MostKinds == AllKinds \ {"ssl", "update", "isolate"}
CrashKinds == {"create", "force-create", "delete", "ssl", "reconcile"}
LifeKinds == {"create", "force-create", "delete", "update", "isolate"}
CreateAndDelete == {"create", "delete"}

=============================================================================
