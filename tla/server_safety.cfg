SPECIFICATION Spec
CONSTANTS
    j1 = j1
    j2 = j2
    j3 = j3
    j4 = j4
    m1 = m1
    m2 = m2
    s1 = s1
    w1 = w1
    Jobs <- TwoJobs
    Machines = {m1, m2}
    Submitters = {s1}
    Workflows = {}
    JobsOf <- OneStatic
    Parents <- Independent2
    Ptasks = {j1}
    Driven = {}
    Req <- Req2
    WorkflowLimit = 0
    TerminateWithLastWorkflow = FALSE
    RegistrationEnabled = FALSE
    RegistrationAck = FALSE
    MayReject = {j2}
    MayKill = {j1, j2}
    MaxKills = 2
    MaxCalls = 1
    Eager = FALSE
INVARIANTS
    NoAssertionFails
    CountersAgree
    OneRequestAtATime
    EndIsFinal
    FreeInViewIsFree
CHECK_DEADLOCK FALSE
