SPECIFICATION Spec
CONSTANTS
    t1 = t1
    t2 = t2
    t3 = t3
    boot = boot
    child = child
    Threads = {t1, t2, t3}
    Procs = {boot, child}
    BootProc = boot
    ProcOf <- TwoProcs
    QueueIds = {q1}
    PortIds = {p1}
    SpuPorts = {s1}
    Keys = {k1}
    Data = {d1, d2}
    MaxSize = 2
SYMMETRY ChildSymmetry
INVARIANTS
    TypeOK
    NoEventBesideReceiver
    NoBreaks
    OneWaker
    BindingsExact
PROPERTIES
    
    OkMeansEvent
CHECK_DEADLOCK FALSE
