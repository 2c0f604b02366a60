SPECIFICATION Spec
CONSTANTS
    t1 = t1
    t2 = t2
    t3 = t3
    boot = boot
    child = child
    Threads = {t1, t2, t3}
    Procs = {boot, child}
    BootProc = boot
    ProcOf <- TwoProcs
    MutexIds = {m1}
    CondIds = {c1}
    MutexAttrs <- PlainAttrs
    CondShared = {FALSE}
    LockCountMax = 0
    NoThread = NoThread
    NoMutex = NoMutex
INVARIANT MutexOutlivesWaiter
SYMMETRY ChildSymmetry
CHECK_DEADLOCK FALSE
