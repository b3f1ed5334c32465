\* Two WordPress sites with certificates; gow may be killed after any step, and
\* OLS restarted at any moment.
CONSTANTS
    s1 = s1
    s2 = s2
    NoSite = NoSite
    NoConf = NoConf
    NoName = NoName
    Names = {s1, s2}
    UserOf <- OwnUsers
    Types = {"wp"}
    Versions = {"8.3"}
    Presets = {"standard"}
    Compute <- Roomy
    Budget = 5
    NoRoom = NoRoom
    Kinds <- CrashKinds
    CanFail = FALSE
    CanCrash = TRUE
    RestartAt <- AnyTime
SPECIFICATION Spec
SYMMETRY Sites
INVARIANTS SuccessRepairs ContentIsRegistered
PROPERTIES ContentSurvives
