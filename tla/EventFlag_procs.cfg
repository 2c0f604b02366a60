SPECIFICATION Spec
CONSTANTS
    t1 = t1
    t2 = t2
    t3 = t3
    boot = boot
    child = child
    Threads = {t1, t2, t3}
    Procs = {boot, child}
    BootProc = boot
    ProcOf <- TwoProcs
    FlagIds = {f1}
    Bits = {b1, b2}
    WaitModes <- ClearModes
SYMMETRY ChildSymmetry
INVARIANTS
    TypeOK
    NoMatchParked
    NoBreaks
    OneWaker
PROPERTIES
    ObservedTruth
    ConsumedOnce
    OldestFirst
CHECK_DEADLOCK FALSE
