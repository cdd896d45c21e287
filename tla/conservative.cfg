SPECIFICATION Spec
CONSTANTS
  Machines <- MCMachines
  Jobs <- MCJobs
  Reservations <- MCReservations
  nb_requested_resources <- MCSize
  walltime <- MCWalltime
  NoWalltime = NoWalltime
  Horizon = 20
  subtime <- MCSubtime
  start <- MCStart
  future_allocations <- MCFuture
  Simulations <- MCSimulations
  MaxTimers = 2
INVARIANTS AssertionsHold PresentIsRunning ReservationsOnTime
PROPERTIES NoJobDelayed SimulationFinishes
CHECK_DEADLOCK FALSE
