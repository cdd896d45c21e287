------------------------------- MODULE Schedule -------------------------------
(***************************************************************************)
(* A schedule under the calls that the algorithms of batsched make to it:  *)
(* jobs are added and removed, the present moves on, reservations are made *)
(* and started, machines go under repair and come back.  One action is one *)
(* sequence of calls that an algorithm makes without interruption.         *)
(***************************************************************************)
EXTENDS ScheduleOps

CONSTANTS
  not_before,           \* the date before which a job may not start
  start,                \* the start date of each reservation
  future_allocations,   \* the machines each reservation asks for, or {}
  Failing,              \* the machines that may go under repair
  MaxFailures,          \* bound on the number of failures
  LastDate              \* bound on the current date

ASSUME CallsAssumption ==
  /\ not_before \in [Jobs -> 0..(Horizon - 1)]
  /\ start \in [Reservations -> Nat]
  /\ \A r \in Reservations : walltime[r] # NoWalltime
  /\ future_allocations \in [Reservations -> SUBSET Machines]
  /\ Failing \subseteq Machines
  /\ MaxFailures \in Nat /\ LastDate \in Nat

VARIABLES
  schedule,   \* the schedule
  failures,   \* how often a machine has gone under repair
  asked,      \* the reservations that have been asked for
  assigned    \* the machines that a reservation asks for or has been given

scheduleVars == <<schedule, failures, asked, assigned>>

ScheduleInit ==
  /\ schedule = NewSchedule(0)
  /\ failures = 0 /\ asked = {} /\ assigned = future_allocations

now == schedule.profile[1].begin

AddJob(j) ==
  /\ j \notin Reservations /\ ~contains_job(schedule, j) /\ not_before[j] <= now
  /\ schedule' = add_job_first_fit(schedule, j, Machines, FALSE).schedule
  /\ UNCHANGED <<failures, asked, assigned>>

AddJobAfter(j) ==
  /\ j \notin Reservations /\ ~contains_job(schedule, j) /\ not_before[j] > now
  /\ schedule' = add_job_first_fit_after_time(schedule, j, not_before[j],
                                          Machines, FALSE).schedule
  /\ UNCHANGED <<failures, asked, assigned>>

\* A reservation is only removed once it has started and ended.
RemoveJob(j) ==
  /\ contains_job(schedule, j)
  /\ j \in Reservations => j \in RunningJobs(schedule)
  /\ schedule' = remove_job(schedule, j)
  /\ UNCHANGED <<failures, asked, assigned>>

\* update_first_slice; the jobs of the first slice end before time passes it.
Advance(date) ==
  /\ now < date /\ date <= schedule.profile[1].end
  /\ schedule' = update_first_slice(schedule, date)
  /\ UNCHANGED <<failures, asked, assigned>>

\* handle_reservations: the jobs in the way of reservation r are removed, its
\* place is computed again and it is put there.
MakeReservation(r) ==
  LET Cleared(res) == FoldLeft(remove_job, FoldLeft(remove_job, res.schedule,
                                                    Ascending(res.kill)),
                               Ascending(res.reschedule))
      Reserve(again, used) ==
        schedule' = add_reservation(again.schedule, r, used, again.first, again.last)
      Try(res) ==
        IF ~res.success THEN schedule' = res.schedule /\ UNCHANGED assigned
        ELSE /\ Reserve(reserve_time_slice(Cleared(res), r, start[r], res.used), res.used)
             /\ assigned' = [assigned EXCEPT ![r] = res.used]
  IN /\ r \notin asked /\ start[r] >= now
     /\ failures = 0
     /\ asked' = asked \cup {r} /\ UNCHANGED failures
     /\ Try(reserve_time_slice(schedule, r, start[r], assigned[r]))

\* make_decisions: the reservations whose date has come leave the schedule and
\* come back in its first slice.
StartReservations ==
  LET rem == remove_reservations_if_ready(schedule)
      Back(S, r) == add_current_reservation(S, r, assigned[r]).schedule
  IN /\ schedule' = FoldLeft(Back, rem.schedule, rem.removed)
     /\ UNCHANGED <<failures, asked, assigned>>

\* on_machine_down_for_repair: the jobs that run on the machine are removed.
\* Bound: failures and reservations are not combined in one behaviour, since a
\* reservation on a machine under repair is moved to another date.
MachineDown(m) ==
  LET ms == {m}
      S == add_repair_machine(schedule, ms)
  IN /\ m \notin schedule.repair /\ failures < MaxFailures /\ asked = {}
     /\ schedule' = FoldLeft(remove_job_if_exists, S,
                          Ascending(get_jobs_running_on_machines(S, ms)))
     /\ failures' = failures + 1
     /\ UNCHANGED <<asked, assigned>>

MachineUp(m) ==
  /\ m \in schedule.repair
  /\ schedule' = remove_repair_machines(schedule, {m})
  /\ UNCHANGED <<failures, asked, assigned>>

\* After a failed assertion the scheduler is gone.
ScheduleNext ==
  /\ schedule.ok
  /\ \/ \E j \in Jobs : AddJob(j) \/ AddJobAfter(j) \/ RemoveJob(j)
     \/ \E date \in 0..LastDate : Advance(date)
     \/ \E r \in Reservations : MakeReservation(r)
     \/ StartReservations
     \/ \E m \in Failing : MachineDown(m) \/ MachineUp(m)

ScheduleSpec == ScheduleInit /\ [][ScheduleNext]_scheduleVars

------------------------------------------------------------------------------
(* Properties.                                                             *)

Slice(i) == schedule.profile[i]
Slices == DOMAIN schedule.profile
MachinesOf(sl) == UNION {sl.jobs[j] : j \in DOMAIN sl.jobs}
Planned == {j \in Jobs : contains_job(schedule, j)}

\* No assertion of schedule.cpp fails: slices that hold the same jobs offer
\* the same machines when they are merged, a job is removed only when it is
\* there, and a reservation that was removed to be started finds its place.
\* This is not so after a repair: a job that is removed while a machine of its
\* slices is under repair leaves slices that the merge finds unequal.
AssertionsHold == failures = 0 => schedule.ok

\* A job keeps the same machines in consecutive slices, for its walltime or
\* what is left of it, whatever was split, merged or removed around it.
JobsUnbroken ==
  \A j \in Planned :
    LET occ == Occurrences(schedule.profile, j)
        f == Least(occ)
        l == CHOOSE x \in occ : \A y \in occ : y <= x
    IN /\ occ = f..l
       /\ \A i \in occ : Slice(i).jobs[j] = Slice(f).jobs[j]
       /\ Cardinality(Slice(f).jobs[j]) = nb_requested_resources[j]
       /\ LET w == WalltimeFrom(walltime[j], Slice(f).begin)
          IN IF f = 1 THEN Slice(l).end - Slice(f).begin <= w
             ELSE Slice(l).end - Slice(f).begin = w

\* No machine is given to two jobs at once, and none that a job holds or that
\* is under repair is offered to another job, in any slice.
NothingOfferedTwice ==
  \A i \in Slices :
    /\ \A j, k \in DOMAIN Slice(i).jobs :
         j # k => Slice(i).jobs[j] \cap Slice(i).jobs[k] = {}
    /\ Slice(i).available \cap (MachinesOf(Slice(i)) \cup schedule.repair) = {}
    /\ Slice(i).nb_available <= Cardinality(Slice(i).available)

\* The schedule implements the calendar: first fit over the slices finds the
\* earliest possible start, removing a job frees exactly its machines, and
\* starting a reservation moves nothing.
CalendarOf ==
  [j \in Planned |->
     LET occ == Occurrences(schedule.profile, j)
         f == Least(occ)
         l == CHOOSE x \in occ : \A y \in occ : y <= x
     IN [begin |-> Slice(f).begin, end |-> Slice(l).end,
         machines |-> Slice(f).jobs[j]]]

C == INSTANCE Calendar WITH earliest <- not_before, planned <- start, Forever <- Horizon,
                            alloc <- CalendarOf, today <- now,
                            repair <- schedule.repair, failed <- failures > 0

ASSUME CalendarAssumption == C!ConstantsTyped

ImplementsCalendar == C!CalendarSpec
==============================================================================
