SPECIFICATION FairSpec
CONSTANTS
    j1 = j1
    j2 = j2
    j3 = j3
    j4 = j4
    m1 = m1
    m2 = m2
    s1 = s1
    w1 = w1
    Jobs <- FourJobs
    Machines = {m1}
    Submitters = {s1, w1}
    Workflows = {w1}
    JobsOf <- StaticWorkflowAndDynamic
    Parents <- ChainAndOthers
    Ptasks = {j3}
    Driven = {j4}
    Req <- Req4
    WorkflowLimit = 1
    TerminateWithLastWorkflow = TRUE
    RegistrationEnabled = TRUE
    RegistrationAck = TRUE
    MayReject = {j4}
    MayKill = {}
    MaxKills = 0
    MaxCalls = 0
    Eager = TRUE
PROPERTIES
    SimulationEnds
