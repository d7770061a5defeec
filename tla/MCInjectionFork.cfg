SPECIFICATION Spec
CONSTANTS
    Adbi = Adbi
    A = A
    B = B
    L = L
    M = M
    Libs = {L}
    Bindings = {A, B}
    Imports <- FlatNoAdbi
    Heap <- LibFirst
    Layout <- TwoFiles
    Procs = {p, q}
    Ops = {"fork", "exec", "exit", "detach", "unload", "rescan"}
    MaxFails = 1
SYMMETRY Symmetry
CHECK_DEADLOCK FALSE
INVARIANTS RefsExact NoDangling
