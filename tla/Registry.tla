------------------------------ MODULE Registry ------------------------------
(***************************************************************************)
(* What internal/state promises its callers, with no file, no lock file    *)
(* and no processes: the registry is a set of sites keyed by name, one     *)
(* transaction at a time works on a copy of it, and a commit replaces the  *)
(* registry by the copy in one step.  A transaction that ends without a    *)
(* commit leaves the registry as it was.                                   *)
(***************************************************************************)
CONSTANTS Names, Site

VARIABLES
    reg,   \* the committed registry
    work   \* the copy of the open transaction

Closed == [open |-> FALSE, sites |-> {}]
Working(s) == [open |-> TRUE, sites |-> s]

Keyed(s) == \A x, y \in s : x.name = y.name => x = y

Init == Keyed(reg) /\ reg \subseteq Site /\ work = Closed

Begin ==
    /\ ~work.open
    /\ work' = Working(reg)
    /\ UNCHANGED reg

\* Add, replace or remove the record of one name.
Edit ==
    /\ work.open
    /\ \E n \in Names, new \in {{}} \cup {{s} : s \in Site} :
        /\ \A s \in new : s.name = n
        /\ work' = Working({s \in work.sites : s.name # n} \cup new)
    /\ UNCHANGED reg

Commit ==
    /\ work.open
    /\ reg' = work.sites
    /\ UNCHANGED work

End ==
    /\ work.open
    /\ work' = Closed
    /\ UNCHANGED reg

Next == Begin \/ Edit \/ Commit \/ End

Spec == Init /\ [][Next]_<<reg, work>>

=============================================================================
