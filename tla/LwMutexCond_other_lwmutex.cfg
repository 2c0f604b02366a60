SPECIFICATION Spec
CONSTANTS
    t1 = t1
    t2 = t2
    t3 = t3
    boot = boot
    child = child
    Threads = {t1, t2}
    Procs = {boot, child}
    BootProc = boot
    ProcOf <- OneProc
    LwMutexIds = {m1, m2}
    LwCondIds = {c1}
    Modes = {"OWNED", "NOT_OWNED", "FORCED"}
    OwnsBeforeSignal = TRUE
    HoldsMax = 1
INVARIANTS
    DeadlineFindsWaiter
CHECK_DEADLOCK FALSE
