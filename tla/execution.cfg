SPECIFICATION Spec
CONSTANTS
    Desc <- MCDesc
    StorageMachines = {4, 5}
    Jobs <- MCJobs
    Registrable = {"late"}
    FileJobs <- MCFileJobs
    FileProfiles <- MCFileProfiles
    ProfileOf <- MCProfileOf
    NbRes <- MCNbRes
    Walltime <- MCWalltime
    Allocations <- MCAllocations
    PtaskLengths = {1, 2}
    MayKill <- MCMayKill
    MayTell = {"talker"}
    Messages = {"yes", "no"}
    MaxBuffered = 1
    GarbageCollect = TRUE
INVARIANTS
    AssertionsHold
    ExecutedAsDescribed
    KilledJobsStop
    WorkWhereAllocated
