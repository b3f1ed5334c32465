\* Two sites, every command, any call may fail and gow be killed at any step.
CONSTANTS
    s1 = s1
    s2 = s2
    NoDb = NoDb
    Bare = Bare
    NoConf = NoConf
    NoName = NoName
    Names = {s1, s2}
    Types = {"html", "wp"}
    Kinds <- AllKinds
    MaxPass = 5
    CanFail = TRUE
    CanKill = TRUE
SPECIFICATION Spec
SYMMETRY Sites
INVARIANTS TypeOK SitesWork
PROPERTIES FailsOnlyByFault OthersUntouched DataOutlivesSite
