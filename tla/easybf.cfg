SPECIFICATION Spec2
CONSTANTS
  NbJobs = 4
  Machines <- MCMachines
  Jobs <- MCJobs
  Reservations = {}
  nb_requested_resources <- MCSize
  walltime <- MCWalltime
  NoWalltime = NoWalltime
  Horizon = 20
  subtime <- MCSubtime
  MaxDate = 9
  Generators = {"SMTBF"}
  RepairTimes = {0, 2}
  MaxTimers = 2
INVARIANTS RunsOnWorkingMachines RunningAgrees
PROPERTIES HeadNotDelayed EveryJobEnds
CHECK_DEADLOCK FALSE
