SPECIFICATION ScheduleSpec
CONSTANTS
  NbJobs = 4
  Asked = {}
  Machines <- MCMachines
  Jobs <- MCJobs
  Reservations <- MCReservations
  nb_requested_resources <- MCSize
  walltime <- MCWalltime
  NoWalltime = NoWalltime
  Horizon = 10
  not_before <- MCNotBefore
  start <- MCStart
  future_allocations <- MCFuture
  Failing = {0}
  MaxFailures = 1
  LastDate = 3
INVARIANTS AssertionsHold JobsUnbroken NothingOfferedTwice
PROPERTY ImplementsCalendar
CHECK_DEADLOCK FALSE
