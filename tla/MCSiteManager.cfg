\* Two sites, every command but ssl, update and isolate, any step may fail, OLS
\* may be restarted between commands.
CONSTANTS
    s1 = s1
    s2 = s2
    NoSite = NoSite
    NoConf = NoConf
    NoName = NoName
    Names = {s1, s2}
    UserOf <- OwnUsers
    Types = {"html", "wp"}
    Versions = {"8.3"}
    Presets = {"standard"}
    Compute <- Roomy
    Budget = 5
    NoRoom = NoRoom
    Kinds <- MostKinds
    CanFail = TRUE
    CanCrash = FALSE
    RestartAt = {"idle"}
SPECIFICATION Spec
SYMMETRY Sites
INVARIANTS TypeOK SuccessRepairs RootsAreRegistered
