\* A Save cut short may leave nothing: is the registry still what was last saved?
CONSTANTS
    p1 = p1
    p2 = p2
    p3 = p3
    Procs = {p1, p2, p3}
    Patient = {p1, p2}
    NoProc = NoProc
    Names <- MCNames
    Data <- MCData
    Edits <- MCEdits
    InitialRegs <- MCInitialRegs
    MaxEdits = 2
    SaveLeaves = {"empty", "torn"}
SPECIFICATION Spec
INVARIANT
    NoLostUpdate
