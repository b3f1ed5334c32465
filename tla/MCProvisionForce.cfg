\* Two sites, created, replaced and deleted; no call fails and nothing is killed.
CONSTANTS
    s1 = s1
    s2 = s2
    NoDb = NoDb
    Bare = Bare
    NoConf = NoConf
    NoName = NoName
    Names = {s1, s2}
    Types = {"html", "wp"}
    Kinds <- CreateKinds
    MaxPass = 5
    CanFail = FALSE
    CanKill = FALSE
SPECIFICATION Spec
INVARIANT ForceRetries
