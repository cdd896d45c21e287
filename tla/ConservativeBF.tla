---------------------------- MODULE ConservativeBF ----------------------------
(***************************************************************************)
(* Conservative backfilling (conservative_bf.cpp): every queued job has a  *)
(* place in the schedule, reservations have theirs, machines fail and are  *)
(* repaired, and jobs that a failure or a reservation kills are submitted  *)
(* again.  That takes three decisions: the first kills, the second is told *)
(* of the kill and submits the job again, the third is told of the         *)
(* submission and puts the job into the schedule.                          *)
(*                                                                         *)
(* The state of the algorithm is one record, alg; its handlers are         *)
(* operators from such records, with the decisions taken so far, to such   *)
(* records.  alg.sched.ok is FALSE once an assertion has failed.           *)
(***************************************************************************)
EXTENDS ScheduleOps, BatsimSide

CONSTANTS
  start,                \* start date of each reservation
  future_allocations    \* machines each reservation asks for, or {}

ASSUME ConservativeAssumption ==
  /\ start \in [Reservations -> Nat]
  /\ future_allocations \in [Reservations -> SUBSET Machines]
  /\ \A s \in Simulations :
       /\ s.policy \in {"AFFECTED", "ALL"}
       /\ s.queue_depth \in Nat \cup {-1}   \* -1: no limit
       /\ "MTBF" \notin s.generators

VARIABLE alg    \* the scheduler

vars == <<alg, config, inbox, batsim>>

\* Original submission date first, then the identifier.
Precedes(a, b) ==
  LET x == Base(a) y == Base(b)
  IN \/ subtime[x] < subtime[y]
     \/ subtime[x] = subtime[y] /\ (x < y \/ (x = y /\ a < b))
Sorted(S) == Listed(S, [x \in S |-> {y \in S : Precedes(y, x)}])

on_simulation_start ==
  [sched |-> NewSchedule(0), queue |-> << >>, reservation_queue |-> << >>,
   start_a_reservation |-> FALSE, need_to_compress |-> FALSE,
   killed_jobs |-> FALSE, resubmitted |-> {}, resubmitted_released |-> {},
   saved_reservations |-> << >>, saved_recently_queued |-> << >>,
   recently_under_repair |-> {}, future |-> future_allocations,
   failures |-> 0, nb_call_me_laters |-> Cardinality(config.generators),
   need_to_send_finished |-> TRUE]

Init == BatsimInit /\ alg = on_simulation_start

------------------------------------------------------------------------------
(* Steps of a decision.                                                    *)

\* Queue::remove_job asserts that the job is in the queue.
Dequeue(q, j) == Only(q, Jobs \ {j})
FromQueue(D, j) ==
  [D EXCEPT !.alg.queue = Dequeue(@, j),
            !.alg.sched = Check(@, Contains(D.alg.queue, j))]
FromReservations(D, r) ==
  [D EXCEPT !.alg.reservation_queue = Dequeue(@, r),
            !.alg.sched = Check(@, Contains(D.alg.reservation_queue, r))]

\* Mutant: a job that can start now stays in the queue.
AddOrStart_queued(D, j) ==
  LET With(a) ==
        LET B == [D EXCEPT !.alg.sched = a.schedule]
        IN IF a.inserted /\ a.started_in_first_slice THEN Execute(B, j, a.used) ELSE B
  IN With(add_job_first_fit(D.alg.sched, j, Machines, FALSE))

\* The job gets its place in the schedule, if there is one, and starts if that
\* place is the present.
AddOrStart(D, j) ==
  LET With(a) ==
        LET B == [D EXCEPT !.alg.sched = a.schedule]
        IN IF a.inserted /\ a.started_in_first_slice
           THEN FromQueue(Execute(B, j, a.used), j) ELSE B
  IN With(add_job_first_fit(D.alg.sched, j, Machines, FALSE))

\* Jobs are placed one after the other until queue_depth of them wait; n of
\* them wait already.  With again, each is first taken out of the schedule.
PlaceOne(R, j) ==
  LET Waits(B) == contains_job(B.alg.sched, j) /\ j \notin DOMAIN B.executed
      Count(B) == [R EXCEPT !.d = B, !.n = IF Waits(B) THEN @ + 1 ELSE @]
      Out == IF R.again THEN [R.d EXCEPT !.alg.sched = remove_job_if_exists(@, j)]
             ELSE R.d
  IN IF R.depth # -1 /\ R.n >= R.depth THEN R ELSE Count(AddOrStart(Out, j))

Place(D, jobs, n, depth, again) ==
  FoldLeft(PlaceOne, [d |-> D, n |-> n, depth |-> depth, again |-> again], jobs)

Waiting(D) == D.alg.sched.nb_jobs_size - get_number_of_running_jobs(D.alg.sched)

\* Mutant: all jobs leave the schedule, and the last of the queue is placed first.
Compress_reversed(D) ==
  Place([D EXCEPT !.alg.sched = FoldLeft(remove_job_if_exists, @, D.alg.queue)],
        Reverse(D.alg.queue), 0, config.queue_depth, TRUE).d

\* Every queued job is placed again, in the order of the queue.
Compress(D) == Place(D, D.alg.queue, 0, config.queue_depth, TRUE).d

RemoveAll(D, jobs) ==
  [D EXCEPT !.alg.sched = FoldLeft(remove_job, @, jobs)]
RemoveIfThere(D, jobs) ==
  [D EXCEPT !.alg.sched = FoldLeft(remove_job_if_exists, @, jobs)]

------------------------------------------------------------------------------
(* Reservations.                                                           *)

StartReservation(D, r) ==
  LET a == add_current_reservation(D.alg.sched, r, D.alg.future[r])
  IN Execute(FromReservations([D EXCEPT !.alg.sched = a.schedule], r), r, a.used)

\* The reservations whose date has come start, if the machines of all of them
\* are free; otherwise the flag stays up for the next decision.
StartReservations(D) ==
  LET rem == remove_reservations_if_ready(D.alg.sched)
      E == FoldLeft(StartReservation, [D EXCEPT !.alg.sched = rem.schedule], rem.removed)
  IN IF ~D.alg.start_a_reservation THEN D
     ELSE IF rem.ready THEN [E EXCEPT !.alg.start_a_reservation = FALSE]
     ELSE [D EXCEPT !.alg.sched = rem.schedule]

\* Mutant: the start of a reservation is not waited for.
Announce_early(D, r, now, machines) ==
  Execute(FromReservations(D, r), r, machines)

\* A reservation in the schedule: it starts now, or its start is called for.
Announce(D, r, now, machines) ==
  IF start[r] > clock THEN CallMeLater(D, "RESERVATION_START", r, start[r])
  ELSE IF now THEN Execute(FromReservations(D, r), r, machines)
  ELSE [D EXCEPT !.alg.start_a_reservation = TRUE]

\* Its place is computed, the jobs in its way leave, and it is put there.
PutReservation(D, r, res) ==
  LET Add(again) ==
        add_reservation(again.schedule, r, res.used, again.first, again.last)
      C == RemoveAll(RemoveAll([D EXCEPT !.alg.sched = res.schedule,
                                         !.alg.future[r] = res.used],
                               Sorted(res.kill)), Sorted(res.reschedule))
  IN [C EXCEPT !.alg.sched = Add(reserve_time_slice(@, r, start[r], res.used))]

\* Mutant: jobs are killed without waiting for them to be submitted again.
KillFor_notWaiting(D, r, res, recent) ==
  [D EXCEPT !.kill = @ \cup res.kill]

\* Jobs have to be killed: the rest waits until they are submitted again.
KillFor(D, r, res, recent) ==
  [D EXCEPT !.kill = @ \cup res.kill, !.alg.killed_jobs = TRUE,
            !.alg.saved_reservations =
               Append(@, [job |-> r, now |-> res.started_in_first_slice,
                          used |-> res.used, reschedule |-> res.reschedule]),
            !.alg.saved_recently_queued =
               IF config.policy = "AFFECTED" THEN @ \o recent ELSE @]

\* No job has to be killed: the jobs that left are placed again at once.
Reschedule(D, r, res) ==
  LET some == config.policy = "AFFECTED"
      P == IF some THEN Place(D, Sorted(res.reschedule), 0, -1, FALSE)
           ELSE Place(RemoveIfThere(D, D.alg.queue), D.alg.queue, 0, -1, FALSE)
  IN [Announce(P.d, r, res.started_in_first_slice, res.used)
        EXCEPT !.alg.need_to_compress = @ \/ some]

\* A reservation that has no place is rejected, and stays in the queue of
\* reservations.  The queued jobs that are still to be placed are recent.
TryReservation(R, r) ==
  LET Accept(res) ==
        LET P == PutReservation(R.d, r, res)
        IN IF res.kill # {} THEN [R EXCEPT !.d = KillFor(P, r, res, R.recent)]
           ELSE [d |-> Reschedule(P, r, res),
                 recent |-> IF config.policy = "ALL" THEN << >> ELSE R.recent]
      Try(res) ==
        IF res.success THEN Accept(res)
        ELSE [R EXCEPT !.d.rejected = @ \cup {r}, !.d.alg.sched = res.schedule]
  IN Try(reserve_time_slice(R.d.alg.sched, r, start[r], R.d.alg.future[r]))

\* Those that ask for machines first.
handle_reservations(D0, released, recent0) ==
  LET asking == {r \in ToSet(released) : D0.alg.future[r] # {}}
      order == Sorted(asking) \o Sorted(ToSet(released) \ asking)
      E == FoldLeft(TryReservation, [d |-> D0, recent |-> recent0], order)
  IN IF released = << >> THEN [d |-> D0, recent |-> recent0]
     ELSE [E EXCEPT !.d = StartReservations(@)]

------------------------------------------------------------------------------
(* Killed jobs that come back.                                             *)

\* The jobs a failure affects, and those the reservations displaced, are
\* placed again after the killed ones; then the reservations are announced.
PlaceKilled(D) ==
  LET affected == get_jobs_affected_on_machines(D.alg.sched, D.alg.recently_under_repair)
      saved == D.alg.saved_reservations
      moved == affected \cup UNION {saved[i].reschedule : i \in DOMAIN saved}
      Killed(C) == Place(C, Sorted(D.alg.resubmitted_released), Waiting(C),
                         config.queue_depth, FALSE)
      Moved(K) == Place(K.d, Sorted(moved), K.n, config.queue_depth, FALSE)
  IN [Moved(Killed(RemoveIfThere(D, Sorted(affected)))).d
        EXCEPT !.alg.resubmitted_released = {}, !.alg.need_to_compress = TRUE]

PlaceQueue(D) ==
  Place(RemoveIfThere(D, D.alg.queue), D.alg.queue, 0, config.queue_depth, FALSE).d

AnnounceOne(D, s) == Announce(D, s.job, s.now, s.used)
AnnounceSaved(D) ==
  LET E == FoldLeft(AnnounceOne, D, D.alg.saved_reservations)
  IN [E EXCEPT !.alg.saved_reservations = << >>, !.alg.killed_jobs = FALSE]

\* Nothing happens before all killed jobs are back.  A resubmitted job that is
\* not expected is an exception (std::map::at).
handle_killed_jobs(D, recent) ==
  LET back == {j \in ToSet(recent) : Version(j) > 0}
      rest == Only(recent, {j \in Jobs : Version(j) = 0})
      C == [D EXCEPT !.alg.sched = Check(@, back \subseteq D.alg.resubmitted),
                     !.alg.resubmitted = @ \ back,
                     !.alg.resubmitted_released = @ \cup back]
      all == config.policy = "ALL"
  IN IF ~(D.alg.killed_jobs /\ D.alg.resubmitted # {})
     THEN [d |-> D, recent |-> recent]
     ELSE IF C.alg.resubmitted # {} THEN [d |-> C, recent |-> rest]
     ELSE [d |-> AnnounceSaved(IF all THEN PlaceQueue(C) ELSE PlaceKilled(C)),
           recent |-> IF all THEN << >> ELSE rest]

------------------------------------------------------------------------------
(* Failures.                                                               *)

KillJobsOn(D, m) ==
  LET jobs == get_jobs_running_on_machines(D.alg.sched, {m})
      C == RemoveIfThere(D, Sorted(jobs))
  IN IF jobs = {} THEN D
     ELSE [C EXCEPT !.kill = @ \cup jobs, !.alg.killed_jobs = TRUE]

on_machine_instant_down_up(D, m) == KillJobsOn(D, m)

\* The jobs that were to use the machine are placed again, if no job is killed
\* (otherwise that has to wait).
Replan(D, m) ==
  LET affected == get_jobs_affected_on_machines(D.alg.sched, {m})
  IN IF get_number_of_running_jobs(D.alg.sched) = 0 THEN D
     ELSE IF config.policy = "ALL" THEN Compress(D)
     ELSE Place(RemoveAll(D, Sorted(affected)), Sorted(affected), 0, -1, FALSE).d

\* A machine that runs a reservation, or is under repair, does not go down.
on_machine_down_for_repair(D, m) ==
  LET C == CallMeLater([D EXCEPT !.alg.sched = add_repair_machine(@, {m}),
                                 !.alg.recently_under_repair = @ \cup {m}],
                       "REPAIR_DONE", m, clock + config.repair_time)
  IN IF \/ m \in D.alg.sched.repair
        \/ get_reservations_running_on_machines(D.alg.sched, {m}) # {}
     THEN D
     ELSE IF get_jobs_running_on_machines(D.alg.sched, {m}) # {} THEN KillJobsOn(C, m)
     ELSE Replan(C, m)

FailOn(D, m) == IF config.repair_time = 0 THEN on_machine_instant_down_up(D, m)
                ELSE on_machine_down_for_repair(D, m)
HandleFailures(D, machines) ==
  [FoldLeft(FailOn, D, machines) EXCEPT !.alg.failures = 0]

------------------------------------------------------------------------------
(* make_decisions.                                                         *)

\* Ended jobs leave the schedule, if they are in it; new jobs are queued or
\* rejected; the present of the schedule is now.
Acceptable(j) == nb_requested_resources[j] <= Cardinality(Machines)
                   /\ walltime[j] # NoWalltime
NewJobs == Only(inbox.released, {j \in Jobs \ Reservations : Acceptable(j)})
NewReservations == Only(inbox.released, Reservations)

TakeEvents(D) ==
  LET C == RemoveIfThere(D, Sorted(inbox.ended))
  IN [C EXCEPT !.alg.sched = update_first_slice(@, clock),
               !.alg.queue = @ \o NewJobs,
               !.alg.reservation_queue = @ \o NewReservations,
               !.rejected = {j \in ToSet(inbox.released) \ Reservations : ~Acceptable(j)}]

\* The queues are sorted; the killed jobs are expected back.
SortAndExpect(D) ==
  [D EXCEPT !.alg.queue = Sorted(ToSet(@)),
            !.alg.reservation_queue = Sorted(ToSet(@)),
            !.alg.resubmitted = @ \cup {NextVersion(j) : j \in inbox.killed}]

\* While no kill is in progress: jobs that are new, or were saved during a
\* kill, are placed; after an end, or when asked for, the schedule is compressed.
handle_schedule(D, recent) ==
  LET saved == recent = << >> /\ D.alg.saved_recently_queued # << >>
      jobs == IF saved THEN D.alg.saved_recently_queued ELSE recent
      P == Place(D, jobs, Waiting(D), config.queue_depth, FALSE).d
      C == IF inbox.ended # {} \/ D.alg.killed_jobs THEN D
           ELSE IF saved THEN [P EXCEPT !.alg.saved_recently_queued = << >>] ELSE P
  IN IF (inbox.ended # {} \/ D.alg.need_to_compress) /\ ~D.alg.killed_jobs
     THEN [Compress(C) EXCEPT !.alg.need_to_compress = FALSE] ELSE C

\* Nothing is left, or nothing that can run.
Idle(D) ==
  /\ ~D.alg.killed_jobs /\ inbox.killed = {} /\ D.alg.reservation_queue = << >>
  /\ D.alg.sched.size = 0 /\ D.alg.need_to_send_finished
  /\ no_more_static /\ clock >= 1

\* The loop that rejects erases the element and then steps over the next one;
\* from the end of the list (libstdc++) it steps to its begin again.
RejectedPositions[n \in Nat] ==
  {i \in 1..n : i % 2 = 1}
    \cup IF n % 2 = 1 /\ n > 1 THEN {2 * i : i \in RejectedPositions[(n - 1) \div 2]}
         ELSE {}

FinishOrReject(D) ==
  LET done == Idle(D) /\ D.alg.queue = << >>
      q == D.alg.queue
      out == {q[i] : i \in RejectedPositions[Len(q)]}
      last == D.alg.sched.profile[Len(D.alg.sched.profile)]
      able == \E j \in ToSet(q) : nb_requested_resources[j] <= Cardinality(last.available)
  IN IF done THEN [D EXCEPT !.finished = TRUE, !.alg.need_to_send_finished = FALSE]
     ELSE IF Idle(D) /\ ~able
     THEN [D EXCEPT !.rejected = @ \cup out,
                    !.alg.queue = Only(q, Jobs \ out)]
     ELSE D

Decision(machines) ==
  LET Reserve(K) == handle_reservations(K.d, NewReservations, K.recent)
      Schedule(R) == handle_schedule(handle_resubmission(HandleFailures(R.d, machines)),
                                     R.recent)
      A == SortAndExpect(StartReservations(TakeEvents(Begin(alg))))
  IN FinishOrReject(Schedule(Reserve(handle_killed_jobs(A, NewJobs))))

Take(D) == alg' = D.alg /\ Reply(D)

make_decisions ==
  /\ ~Delivered /\ Readable /\ alg.sched.ok
  /\ \E machines \in [1..alg.failures -> Machines] : Take(Decision(machines))

------------------------------------------------------------------------------
(* Timers.                                                                 *)

\* Only while there is something to do does a failure happen and the next follow.
Failure(t) ==
  /\ t.forWhat \in config.generators
  /\ IF get_number_of_running_jobs(alg.sched) > 0 \/ alg.queue # << >> \/ ~no_more_static
     THEN /\ alg' = [alg EXCEPT !.failures = @ + 1, !.nb_call_me_laters = @ + 1]
          /\ \E d \in Dates(alg.nb_call_me_laters) :
               Ring(t, {[id |-> alg.nb_call_me_laters, forWhat |-> t.forWhat,
                         about |-> 1, date |-> d]})
     ELSE Ring(t, {}) /\ UNCHANGED alg

\* The number of the call is taken for the number of the machine.
RepairDone(t) ==
  /\ t.forWhat = "REPAIR_DONE" /\ Ring(t, {})
  /\ alg' = [alg EXCEPT !.sched = remove_repair_machines(@, {t.id}),
                        !.need_to_compress = TRUE]

ReservationStart(t) ==
  /\ t.forWhat = "RESERVATION_START" /\ Ring(t, {})
  /\ alg' = [alg EXCEPT !.start_a_reservation = TRUE]

\* Timers ring at their dates: what the code does when one rings late (a shorter
\* walltime for the reservation, incorrect_call_me_later) is left out.
on_requested_call(t) ==
  alg.sched.ok /\ (Failure(t) \/ RepairDone(t) \/ ReservationStart(t))

Next ==
  \/ make_decisions
  \/ \E t \in timers : on_requested_call(t)
  \/ BatsimNext /\ UNCHANGED alg

\* The scheduler has aborted.
Stopped == ~alg.sched.ok \/ ~Readable

\* Timers ring and a message is answered: the last conjunct is weak fairness
\* of make_decisions.
Fairness ==
  /\ BatsimFairness /\ WF_vars(\E t \in timers : on_requested_call(t))
  /\ []<>(Delivered \/ Stopped)

Spec == Init /\ [][Next]_vars /\ Fairness

------------------------------------------------------------------------------
(* Properties.                                                             *)

Scheduled == {j \in Jobs : contains_job(alg.sched, j)}
StartOf(S, j) == S.profile[Least(Occurrences(S.profile, j))].begin
Quiet == Delivered /\ killing = {} /\ alg.sched.ok

\* Where machines need no repair, no assertion of schedule.cpp or queue.cpp fails.
\* (After a repair two slices may hold the same jobs and offer other machines.)
AssertionsHold == alg.sched.ok \/ (config.generators # {} /\ config.repair_time > 0)

\* The present of the schedule is what Batsim runs, on the same machines.
PresentIsRunning ==
  Quiet => /\ RunningJobs(alg.sched) = InStatus("running")
           /\ \A j \in InStatus("running") : alg.sched.profile[1].jobs[j] = on[j]

\* The promise of conservative backfilling: where nothing fails and nothing is
\* reserved, the planned start of a queued job never moves to a later date.
NoJobDelayed ==
  [][\A j \in {k \in ToSet(alg.queue) : /\ config.workload \cap Reservations = {}
                                         /\ config.generators = {}} \cap ToSet(alg'.queue) :
       contains_job(alg.sched, j) /\ alg'.sched.ok
         => /\ contains_job(alg'.sched, j)
            /\ StartOf(alg'.sched, j) <= StartOf(alg.sched, j)]_vars

\* A reservation that is not rejected starts at its date.
ReservationsOnTime ==
  \A r \in Reservations : status[r] \in {"running", "done"} => began[r] = start[r]

\* Every job is run, or rejected, or killed and submitted again, and then the
\* scheduler says that it submits no more jobs, without which Batsim never ends.
\* (With failures it says so when the next one, after the last date, is due.)
SimulationFinishes == <>(Stopped \/ (Over /\ (finished \/ timers # {})))
===============================================================================
