SPECIFICATION Spec
CONSTANTS
    t1 = t1
    t2 = t2
    t3 = t3
    boot = boot
    child = child
    Threads = {t1, t2, t3}
    Procs = {boot}
    BootProc = boot
    ProcOf <- OneProc
    MutexIds = {m1}
    CondIds = {c1}
    MutexAttrs <- AllAttrs
    CondShared = {TRUE, FALSE}
    LockCountMax = 2
    NoThread = NoThread
    NoMutex = NoMutex
SYMMETRY Symmetry
INVARIANTS
    TypeOK
    MutexConsistent
    
    MutexOutlivesWaiter
    LiveCondsExact
PROPERTIES
    ReturnsHoldingMutex
CHECK_DEADLOCK FALSE
