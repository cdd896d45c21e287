SPECIFICATION RestartSpec
CONSTANTS
  Machines <- MCMachines
  Jobs <- MCJobs
  Reservations <- MCReservations
  nb_requested_resources <- MCSize
  walltime <- MCWalltime
  NoWalltime = NoWalltime
  Horizon = 20
  subtime <- MCSubtime
  start <- MCStart
  future_allocations <- MCFuture
  Simulations <- IdleSimulation
  MaxTimers = 0
  MaxRestarts = 1
INVARIANTS NoJobForgotten
CHECK_DEADLOCK FALSE
