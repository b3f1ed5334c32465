\* Three commands contend for the registry; a Save cut short leaves a prefix.
CONSTANTS
    p1 = p1
    p2 = p2
    p3 = p3
    Procs = {p1, p2, p3}
    Patient = {p1, p2}
    NoProc = NoProc
    Names <- MCNames
    Data <- MCData
    Edits <- MCEdits
    InitialRegs <- MCInitialRegs
    MaxEdits = 2
    SaveLeaves = {"torn"}
SPECIFICATION FairSpec
INVARIANTS
    TypeOK
    MutualExclusion
    NoLostUpdate
PROPERTIES
    NeverOverwriteCorrupt
    OpenTerminates
    ImplementsRegistry
