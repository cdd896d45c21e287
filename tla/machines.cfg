SPECIFICATION FairSpec
CONSTANTS
    m1 = m1
    m2 = m2
    m3 = m3
    Machines <- ThreeMachines
    Computation = {"p0", "p1"}
    Sleep = {"sleep"}
    Virtual = "virtual"
    InitialPState = "p0"
    Switchable = {m1, m2}
    Failing = {m3}
    MaxSwitches = 2
    MaxJobs = 1
    MaxEvents = 2
INVARIANTS
    AssertionsHold
    StateMatchesPState
    AvailabilityFollowsEvents
PROPERTIES
    SwitchesAcknowledged
CHECK_DEADLOCK FALSE
