SPECIFICATION Spec
CONSTANTS
    Adbi = Adbi
    A = A
    B = B
    L = L
    M = M
    Libs = {L}
    Bindings = {A, B}
    Imports <- Flat
    Heap <- LibFirst
    Layout <- TwoFiles
    Procs = {p, q}
    Ops = {"exec", "exit", "detach", "unload", "rescan"}
    MaxFails = 0
SYMMETRY Symmetry
CHECK_DEADLOCK FALSE
INVARIANTS RefsExact NoAbort SegmentsServed CleanDetach
