SPECIFICATION FairSpec
CONSTANTS
    Jobs <- Four
    NbMachines = 4
    Workloads <- FewWorkloads
    Number <- Numbers
    None = None
INVARIANTS
    MachinesSharedOut
    HeadIsReserved
PROPERTIES
    EveryJobEnds
CHECK_DEADLOCK FALSE
