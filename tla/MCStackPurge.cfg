\* Two sites, every stack command; a purge of everything.
CONSTANTS
    s1 = s1
    s2 = s2
    NoName = NoName
    Names = {s1, s2}
    Types = {"html", "wp"}
    Ops <- SomeOps
    Selections <- Flags
SPECIFICATION Spec
INVARIANT PurgeLeavesNothing
