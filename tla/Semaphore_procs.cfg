SPECIFICATION Spec
CONSTANTS
    t1 = t1
    t2 = t2
    t3 = t3
    boot = boot
    child = child
    Threads = {t1, t2, t3}
    Procs = {boot, child}
    BootProc = boot
    ProcOf <- TwoProcs
    SemIds = {s1}
    MaxCount = 2
    PostMax = 4
SYMMETRY ChildSymmetry
INVARIANTS
    TypeOK
    NoWaiterBesideSlot
    NoBreaks
    OneWaker

    
CHECK_DEADLOCK FALSE
