SPECIFICATION RestartSpec
CONSTANTS
  Machines <- MCMachines
  Jobs <- MCJobs
  Reservations <- MCReservations
  nb_requested_resources <- MCSize
  walltime <- MCWalltime
  NoWalltime = NoWalltime
  Horizon = 20
  subtime <- MCSubtime
  start <- MCStart
  future_allocations <- MCFuture
  Simulations <- MCSimulations
  MaxTimers = 0
  MaxRestarts = 2
INVARIANTS SavedJobsKept LatestIsConsistent LastOnesKept
PROPERTIES RestartedRunEnds
CHECK_DEADLOCK FALSE
