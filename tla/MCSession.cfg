SPECIFICATION Spec
CONSTANTS
    Leader = leader
    w1 = w1
    w2 = w2
    w3 = w3
    Procs = {leader, w1, w2, w3}
    MayLeave <- SomeWorker
INVARIANTS
    TypeOK
    NoSurvivor
    OnlySweepStrays
    WaitsForDesertersOnly
PROPERTY
    Returns
