\* Two PHP sites whose presets change; the RAM holds no two custom ones. Any step
\* may fail and OLS be restarted at any moment; every command ends.
CONSTANTS
    s1 = s1
    s2 = s2
    NoSite = NoSite
    NoConf = NoConf
    NoName = NoName
    Names = {s1, s2}
    UserOf <- OwnUsers
    Types = {"php"}
    Versions = {"8.3"}
    Presets = {"standard", "custom"}
    Compute <- Tight
    Budget = 5
    NoRoom = NoRoom
    Kinds <- LifeKinds
    CanFail = TRUE
    CanCrash = FALSE
    RestartAt <- AnyTime
SPECIFICATION FairSpec
INVARIANT SuccessFits
PROPERTIES CommittedIsServed CommandEnds
