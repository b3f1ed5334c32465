\* Two sites, every stack command, any of its calls may fail and it may be killed.
CONSTANTS
    s1 = s1
    s2 = s2
    NoName = NoName
    Names = {s1, s2}
    Types = {"html", "wp"}
    Ops <- SomeOps
    Selections <- Flags
SPECIFICATION Spec
SYMMETRY Sites
INVARIANTS TypeOK PurgeCleans DataKept
PROPERTIES PurgeSpares
