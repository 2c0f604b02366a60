SPECIFICATION Spec
CONSTANTS
    t1 = t1
    t2 = t2
    t3 = t3
    boot = boot
    child = child
    Threads = {t1, t2, t3}
    Procs = {boot, child}
    BootProc = boot
    ProcOf <- TwoProcs
    LwMutexIds = {m1}
    LwCondIds = {c1}
    Modes = {"OWNED", "NOT_OWNED", "FORCED"}
    OwnsBeforeSignal = FALSE
    HoldsMax = 1
SYMMETRY ChildSymmetry
INVARIANTS
    TypeOK
    OneWaker
    DeadlineFindsWaiter
    NoBreaks
PROPERTIES
    FifoSleepers
CHECK_DEADLOCK FALSE
