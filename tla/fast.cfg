SPECIFICATION Spec
CONSTANTS
  Machines <- MCMachines
  Jobs <- MCJobs
  Reservations = {}
  nb_requested_resources <- MCSize
  walltime <- MCWalltime
  NoWalltime = NoWalltime
  subtime <- MCSubtime
  Cores = 2
  None = None
  Simulations <- MCSimulations
  MaxTimers = 2
INVARIANTS BooksBalance PriorityOnTime
PROPERTIES FirstComeFirstServed SimulationFinishes
CHECK_DEADLOCK FALSE
