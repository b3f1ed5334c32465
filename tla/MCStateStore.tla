---------------------------- MODULE MCStateStore ----------------------------
(* Instances of StateStore for TLC. *)
EXTENDS StateStore, TLC

CONSTANTS p1, p2, p3

MCNames == {"a.com", "b.com"}
MCData == {"v1", "v2"}

MCSite(n, t, c, d) == [name |-> n, type |-> t, cache |-> c, data |-> d]

\* A wp site, the same site with other settings, and an html site.
MCEdits ==
    {MCSite("a.com", "wp", "lscache", "v1"),
     MCSite("a.com", "wp", "none", "v2"),
     MCSite("b.com", "html", "", "v1")}

\* A registry saved before the type and cache_mode fields existed, and an
\* ordinary one.
MCInitialRegs ==
    {<<MCSite("a.com", "", "", "v1")>>,
     <<MCSite("b.com", "html", "", "v1"), MCSite("a.com", "wp", "none", "v1")>>}

MCSymmetry == Permutations({p1, p2})
=============================================================================
