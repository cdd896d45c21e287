-------------------------------- MODULE EasyBF --------------------------------
(***************************************************************************)
(* EASY backfilling on a Schedule: algorithm easy_bf (easy_bf.cpp).        *)
(*                                                                         *)
(* The schedule holds the running jobs and the job at the head of the      *)
(* queue, the priority job, whose place in it is a reservation.  Another   *)
(* job runs before the head only where first fit puts it in the present.   *)
(*                                                                         *)
(* Batsim is reduced to a clock, the submissions and the ends of the jobs, *)
(* which it reports in messages; one message is one call of make_decisions.*)
(* The algorithm knows no reservations: the set Reservations is empty.     *)
(***************************************************************************)
EXTENDS ScheduleOps

CONSTANTS subtime,    \* the submission date of each job
          MaxDate     \* bound on the clock

ASSUME EasyAssumption ==
  /\ subtime \in [Jobs -> Nat] /\ MaxDate \in Nat

VARIABLES
  sched,      \* _schedule
  queue,      \* _queue
  clock,      \* Batsim: the current date
  status,     \* Batsim: the progress of each job
  began,      \* Batsim: the date at which each job started
  on,         \* Batsim: the machines each job was given
  released,   \* _jobs_released_recently, in the order of the events
  ended       \* _jobs_ended_recently

vars == <<sched, queue, clock, status, began, on, released, ended>>
batsim == <<clock, status, began, on>>

Init ==
  /\ sched = NewSchedule(0) /\ queue = << >>
  /\ clock = 0 /\ released = << >> /\ ended = {}
  /\ status = [j \in Jobs |-> "todo"]
  /\ began = [j \in Jobs |-> 0] /\ on = [j \in Jobs |-> {}]

InStatus(s) == {j \in Jobs : status[j] = s}
Delivered == released = << >> /\ ended = {}

------------------------------------------------------------------------------
(* The environment.  A job may end at any date up to its walltime, at      *)
(* which Batsim stops it.                                                  *)

Submit(j) ==
  /\ status[j] = "todo" /\ subtime[j] <= clock
  /\ status' = [status EXCEPT ![j] = "released"]
  /\ released' = Append(released, j)
  /\ UNCHANGED <<sched, queue, clock, began, on, ended>>

End(j) ==
  /\ status[j] = "running"
  /\ status' = [status EXCEPT ![j] = "done"]
  /\ ended' = ended \cup {j}
  /\ UNCHANGED <<sched, queue, clock, began, on, released>>

Overdue(date) ==
  {j \in Jobs : \/ status[j] = "todo" /\ subtime[j] < date
                \/ status[j] = "running" /\ began[j] + walltime[j] < date}

Tick ==
  /\ clock < MaxDate /\ Delivered /\ Overdue(clock + 1) = {}
  /\ clock' = clock + 1
  /\ UNCHANGED <<sched, queue, status, began, on, released, ended>>

------------------------------------------------------------------------------
(* The scheduler.  A decision in progress is a record: the schedule, the   *)
(* queue, and the machines of the jobs to execute.                         *)

Precedes(a, b) ==
  subtime[a] < subtime[b] \/ (subtime[a] = subtime[b] /\ a < b)

sort_queue(q) ==
  Listed(ToSet(q), [a \in ToSet(q) |-> {b \in ToSet(q) : Precedes(b, a)}])

first_job(q) == IF q = << >> THEN 0 ELSE Head(q)

\* Jobs that can never run are rejected; the others are queued.
Acceptable(j) == nb_requested_resources[j] <= Cardinality(Machines)
                   /\ walltime[j] # NoWalltime
Accepted == Only(released, {j \in Jobs : Acceptable(j)})

Execute(A, j, alloc) ==
  [sched |-> alloc.schedule, queue |-> Only(A.queue, Jobs \ {j}),
   executed |-> Put(A.executed, j, alloc.used)]

\* A job other than the head: it starts now or leaves the schedule again.
Backfill(A, j) ==
  LET alloc == add_job_first_fit(A.sched, j, Machines, TRUE)
  IN IF alloc.started_in_first_slice THEN Execute(A, j, alloc)
     ELSE [A EXCEPT !.sched = remove_job(alloc.schedule, j)]

\* The head: it starts now or keeps its place in the schedule.
Plan(A, j) ==
  LET alloc == add_job_first_fit(A.sched, j, Machines, TRUE)
  IN IF alloc.started_in_first_slice THEN Execute(A, j, alloc)
     ELSE [A EXCEPT !.sched = alloc.schedule]

\* The jobs at the head start one after the other, until one has to wait.
RunHead(B, j) ==
  IF first_job(B.queue) = j /\ ~contains_job(B.sched, j) THEN Plan(B, j) ELSE B
RunHeads(A) == FoldLeft(RunHead, A, A.queue)

\* Mutant: the head keeps the place it has.
sort_queue_while_handling_priority_job_kept(A, before) ==
  [A EXCEPT !.queue = sort_queue(@)]

sort_queue_while_handling_priority_job(A, before) ==
  LET B == [A EXCEPT !.queue = sort_queue(@)]
  IN IF first_job(B.queue) = before THEN B
     ELSE RunHeads(IF before = 0 THEN B
                   ELSE [B EXCEPT !.sched = remove_job_if_exists(@, before)])

\* Without an end, only the jobs that have just been queued are considered.
BackfillRecent(priority, R, j) ==
  LET B == Backfill(R.dec, j)
  IN IF /\ R.left > 0 /\ nb_requested_resources[j] <= R.left
        /\ Contains(R.dec.queue, j) /\ j # priority
     THEN [dec |-> B, left |-> IF j \in DOMAIN B.executed
                               THEN R.left - nb_requested_resources[j] ELSE R.left]
     ELSE R
BackfillNew(A, recent) ==
  LET Step(R, j) == BackfillRecent(first_job(A.queue), R, j)
  IN FoldLeft(Step, [dec |-> A,
                     left |-> Cardinality(A.sched.profile[1].available)],
              recent).dec

\* Mutant: the head is treated as the other jobs are.
BackfillAll_noHead(A) ==
  LET Step(B, j) ==
        Backfill(IF contains_job(B.sched, j)
                 THEN [B EXCEPT !.sched = remove_job(@, j)] ELSE B, j)
  IN IF A.sched.profile[1].available = {} THEN A
     ELSE FoldLeft(Step, A, A.queue)

\* After an end, the whole queue is: the head is planned again, and when it
\* starts the next job is the head.
Consider(B, j) ==
  LET C == IF contains_job(B.sched, j)
           THEN [B EXCEPT !.sched = remove_job(@, j)] ELSE B
  IN IF j = first_job(B.queue) THEN Plan(C, j) ELSE Backfill(C, j)
BackfillAll(A) ==
  IF A.sched.profile[1].available = {} THEN A ELSE FoldLeft(Consider, A, A.queue)

\* The first part of make_decisions, with what it queues.
Receive(S, q) ==
  [sched |-> FoldLeft(remove_job, S, Ascending(ended)),
   queue |-> q \o Accepted,
   executed |-> NoJobs]

\* Its last part: Batsim starts the jobs to execute.
Reply(A) ==
  /\ sched' = A.sched /\ queue' = A.queue
  /\ released' = << >>
  /\ began' = [j \in Jobs |-> IF j \in DOMAIN A.executed THEN clock ELSE began[j]]
  /\ on' = [j \in Jobs |-> IF j \in DOMAIN A.executed THEN A.executed[j] ELSE on[j]]

StatusAfter(A) ==
  [j \in Jobs |-> IF j \in DOMAIN A.executed THEN "running"
                  ELSE IF j \in ToSet(released) /\ ~Acceptable(j) THEN "rejected"
                  ELSE IF j \in ToSet(released) THEN "queued" ELSE status[j]]

make_decisions ==
  LET A == Receive(sched, queue)
      B == [A EXCEPT !.sched = update_first_slice(@, clock)]
      D == sort_queue_while_handling_priority_job(B, first_job(queue))
      E == IF ended = {} THEN BackfillNew(D, Accepted)
           ELSE BackfillAll(D)
  IN /\ ~Delivered /\ sched.ok
     /\ Reply(E) /\ status' = StatusAfter(E) /\ ended' = {}
     /\ UNCHANGED clock

Next ==
  \/ \E j \in Jobs : Submit(j) \/ End(j)
  \/ Tick
  \/ make_decisions

\* Time passes, jobs are submitted and end, and a message is answered: the
\* last conjunct is weak fairness of make_decisions, which is enabled until
\* the message is Delivered.
Fairness == /\ WF_vars(Tick)
            /\ \A j \in Jobs : WF_vars(Submit(j)) /\ WF_vars(End(j))
            /\ []<>(Delivered \/ ~sched.ok)

Spec == Init /\ [][Next]_vars /\ Fairness

------------------------------------------------------------------------------
(* Properties.                                                             *)

Scheduled == {j \in Jobs : contains_job(sched, j)}
StartOf(S, j) == S.profile[Least(Occurrences(S.profile, j))].begin

\* The planned start of the head does not move to a later date.
HeadKept ==
  \A j \in Jobs :
    (/\ first_job(queue) = j /\ first_job(queue') = j
     /\ contains_job(sched, j) /\ sched'.ok)
      => contains_job(sched', j) /\ StartOf(sched', j) <= StartOf(sched, j)

AllOver == \A j \in Jobs : status[j] \in {"done", "rejected"}
===============================================================================
