-------------------------------- MODULE FastBF --------------------------------
(***************************************************************************)
(* The fast algorithms, which keep their own sets of machines instead of a *)
(* Schedule: fcfs, fcfs_fast and fcfs_fast2 start the jobs in the order of *)
(* the queue; easy_bf_fast, easy_bf_fast2 and easy_bf_fast2_holdback take  *)
(* the job at the head out of the queue, the priority job, and start       *)
(* others before it if they end before its expected start.  The variants   *)
(* that end in 2 also handle failures and share-packing: jobs of one       *)
(* machine share machines, one core each.  The holdback variant keeps some *)
(* machines for such jobs alone.                                           *)
(*                                                                         *)
(* fcfs and fcfs_fast differ only in how machines are selected: one        *)
(* variant, "fcfs_fast", stands for both.                                  *)
(***************************************************************************)
EXTENDS BatsimSide

CONSTANTS
  Cores,      \* int(core_count * core_percent), the same for all machines
  None        \* no job

Variants == {"fcfs_fast", "fcfs_fast2", "easy_bf_fast", "easy_bf_fast2",
             "easy_bf_fast2_holdback"}

ASSUME FastAssumption ==
  /\ Cores \in Nat \ {0} /\ None \notin Jobs
  /\ \A s \in Simulations :
       /\ s.variant \in Variants /\ s.share_packing \in BOOLEAN
       /\ s.holdback \in Nat /\ s.holdback < Cardinality(Machines)
       /\ s.variant # "easy_bf_fast2_holdback" => s.holdback = 0
       /\ s.variant \in {"fcfs_fast", "easy_bf_fast"} =>
            ~s.share_packing /\ s.generators = {}

VARIABLE alg    \* the scheduler

vars == <<alg, config, inbox, batsim>>

Fcfs == config.variant \in {"fcfs_fast", "fcfs_fast2"}
HandlesFailures == config.variant \notin {"fcfs_fast", "easy_bf_fast"}

\* The machines that only share-packed jobs may use.
HeldBack == LeftOf(Machines, config.holdback)

FreeCores == [m \in Machines |-> Cores]

\* The fields of a scheduler that has been started.  mistaken is not in the code:
\* it tells that the end of a repair has been taken for that of another machine.
NewScheduler ==
  [available |-> Machines \ HeldBack, nb_available |-> Cardinality(Machines) - config.holdback,
   heldback |-> HeldBack, unavailable |-> HeldBack, repair |-> {},
   core_machines |-> {}, cores |-> FreeCores,
   allocations |-> NoJobs, running |-> {}, pending |-> << >>, my_kill_jobs |-> {},
   priority |-> None, completion_time |-> 0, horizons |-> << >>,
   recently_available |-> FALSE, need_to_send_finished |-> TRUE,
   nb_call_me_laters |-> Cardinality(config.generators), mistaken |-> FALSE,
   ok |-> TRUE]

Init == BatsimInit /\ alg = NewScheduler

------------------------------------------------------------------------------
(* Starting a job.                                                         *)

SharePacked(j) == config.share_packing /\ nb_requested_resources[j] = 1

\* The first of the machines that has a free core, if one has.
WithFreeCore(a, machines) ==
  LET free == {m \in machines : a.cores[m] >= 1}
  IN IF free = {} THEN {} ELSE LeftOf(free, 1)

Spot(kind, machines) == [kind |-> kind, machines |-> machines]

\* The first n of the machines.  There may be fewer once the end of a repair has
\* been taken for that of another machine; the program goes no further then,
\* as Batsim refuses the allocation if left itself does not.
FirstOf(machines, n) == IF n <= Cardinality(machines) THEN LeftOf(machines, n) ELSE machines

\* For a job that is not share-packed: the first machines that are free.
WholeSpot(a, j) ==
  IF nb_requested_resources[j] <= a.nb_available
  THEN Spot("whole", FirstOf(a.available, nb_requested_resources[j]))
  ELSE Spot("none", {})

\* For a share-packed job: a heldback machine, a machine that is shared
\* already, or a free machine, which is shared from now on.
SharedSpot(a) ==
  CASE WithFreeCore(a, a.heldback) # {} -> Spot("heldback", WithFreeCore(a, a.heldback))
    [] WithFreeCore(a, a.heldback) = {} /\ WithFreeCore(a, a.core_machines) # {} ->
         Spot("core", WithFreeCore(a, a.core_machines))
    [] OTHER -> IF a.nb_available > 0 THEN Spot("new_core_machine", LeftOf(a.available, 1))
                ELSE Spot("none", {})

\* Where the job could run now.
SpotFor(a, j) == IF SharePacked(j) THEN SharedSpot(a) ELSE WholeSpot(a, j)

Fits(a, j) == SpotFor(a, j).kind # "none"

\* insert_horizon_point: before the first point with a later date.
insert_horizon_point(points, p) ==
  LET Later(q) == q.date > p.date
      Earlier(q) == q.date <= p.date
  IN SelectSeq(points, Earlier) \o <<p>> \o SelectSeq(points, Later)

\* The machines are booked.  Only a job that is not on a heldback machine has a
\* point on the horizon of the backfilling variants.
Booked(a, j) ==
  LET spot == SpotFor(a, j)
      point == [date |-> clock + walltime[j], nb |-> nb_requested_resources[j],
                machines |-> spot.machines, job |-> j]
      taken == CASE spot.kind = "whole" -> nb_requested_resources[j]
                 [] spot.kind = "new_core_machine" -> 1
                 [] OTHER -> 0
  IN [a EXCEPT
        !.available = IF taken > 0 THEN @ \ spot.machines ELSE @,
        !.nb_available = @ - taken,
        !.core_machines = IF spot.kind = "new_core_machine" THEN @ \cup spot.machines
                          ELSE @,
        !.cores = [m \in Machines |->
                     IF SharePacked(j) /\ m \in spot.machines THEN @[m] - 1 ELSE @[m]],
        !.allocations = Put(@, j, spot.machines),
        !.running = @ \cup {j},
        !.horizons = IF Fcfs \/ spot.kind = "heldback" THEN @
                     ELSE insert_horizon_point(@, point)]

\* The job is executed.
Start(D, j) ==
  Execute([D EXCEPT !.alg = Booked(@, j)], j, SpotFor(D.alg, j).machines)

------------------------------------------------------------------------------
(* Ended jobs and kills.                                                   *)

\* Mutant: the machine is free again when one of its jobs has ended.
FreeAgain_first(a, m) == m \notin a.heldback

\* The last job on a shared machine has ended: it is an ordinary machine again.
\* (A heldback machine is not.)
FreeAgain(a, m) == m \notin a.heldback /\ a.cores[m] + 1 = Cores

\* A share-packed job gives back a core; the request to kill it stays.
FinishShared(a, j) ==
  LET m == CHOOSE x \in a.allocations[j] : TRUE
      b == [a EXCEPT !.cores[m] = @ + 1]
  IN IF FreeAgain(a, m)
     THEN [b EXCEPT !.core_machines = @ \ {m}, !.available = @ \cup {m},
                    !.nb_available = @ + 1]
     ELSE b

\* fcfs_fast2 keeps the machines under repair out of the free ones.
FinishAmongRepairs(a, j) ==
  LET back == a.allocations[j] \ a.unavailable
  IN [a EXCEPT !.available = (@ \cup back) \ a.unavailable,
               !.nb_available = @ + Cardinality(back), !.my_kill_jobs = @ \ {j}]

FinishWhole(a, j) ==
  [a EXCEPT !.available = @ \cup a.allocations[j],
            !.nb_available = @ + nb_requested_resources[j], !.my_kill_jobs = @ \ {j}]

\* The horizon without the point of job j.
WithoutPoint(points, j) == SelectSeq(points, LAMBDA p : p.job # j)

Finish(a, j) ==
  LET b == IF SharePacked(j) THEN FinishShared(a, j)
           ELSE IF config.variant = "fcfs_fast2" THEN FinishAmongRepairs(a, j)
           ELSE FinishWhole(a, j)
  IN [b EXCEPT !.allocations = Erase(@, j), !.running = @ \ {j},
               !.horizons = WithoutPoint(@, j)]

handle_newly_finished_jobs(D) ==
  [D EXCEPT !.alg = FoldLeft(Finish, @, Ascending(inbox.ended))]

handle_new_jobs_to_kill(D) ==
  [D EXCEPT !.kill = D.alg.my_kill_jobs, !.alg.my_kill_jobs = {}]

------------------------------------------------------------------------------
(* First come, first served.                                               *)

\* Mutant: a job that does not fit is stepped over.
Blocks_never(a, j) == FALSE

\* A job that does not fit ends the traversal of the queue, but a share-packed
\* one is stepped over.
Blocks(a, j) == ~Fits(a, j) /\ ~SharePacked(j)

ExecuteOne(R, j) ==
  IF R.stop \/ Blocks(R.d.alg, j)
  THEN [R EXCEPT !.stop = TRUE, !.left = Append(@, j)]
  ELSE IF Fits(R.d.alg, j) THEN [R EXCEPT !.d = Start(@, j)]
  ELSE [R EXCEPT !.left = Append(@, j)]

ExecuteQueue(D) ==
  LET E == FoldLeft(ExecuteOne, [d |-> D, left |-> << >>, stop |-> FALSE], D.alg.pending)
  IN [E.d EXCEPT !.alg.pending = E.left]

\* A job that was killed goes to the front of the queue.
Enqueue(D, j) ==
  [D EXCEPT !.alg.pending = IF Version(j) > 0 /\ config.variant # "fcfs_fast" /\ @ # << >>
                            THEN <<j>> \o @ ELSE Append(@, j)]

FcfsReleased(D, j) ==
  IF D.alg.pending = << >> /\ Fits(D.alg, j) THEN Start(D, j) ELSE Enqueue(D, j)

------------------------------------------------------------------------------
(* Backfilling.                                                            *)

\* The machines that the i-th point of the horizon makes whole again: with
\* share-packing, one whose last job it is.
ReleasedBy(a, i) ==
  LET p == a.horizons[i]
      m == CHOOSE x \in p.machines : TRUE
      same == {k \in 1..i : a.horizons[k].nb = 1 /\ a.horizons[k].machines = p.machines}
  IN IF config.share_packing /\ p.nb = 1
     THEN IF a.cores[m] + Cardinality(same) = Cores THEN 1 ELSE 0
     ELSE p.nb

\* compute_priority_job_expected_earliest_starting_time: the date of the first
\* point at which enough machines are free, or one core if that is enough.
Enough(a, j, i) ==
  \/ config.share_packing /\ a.horizons[i].nb = 1 /\ nb_requested_resources[j] = 1
  \/ FoldLeft(LAMBDA n, k : n + ReleasedBy(a, k), a.nb_available, [k \in 1..i |-> k])
       >= nb_requested_resources[j]

\* The assertion: "The job will never be executable."
BecomePriority(D, j) ==
  LET a == D.alg
      points == {i \in DOMAIN a.horizons : Enough(a, j, i)}
      first == CHOOSE i \in points : \A k \in points : i <= k
  IN [D EXCEPT !.alg.priority = j,
               !.alg.completion_time = IF points = {} THEN 0 ELSE a.horizons[first].date,
               !.alg.ok = @ /\ points # {}]

\* Mutant: the job must begin, not end, before the start of the priority job.
MayStart_late(a, j) == Fits(a, j)

\* Without hindering the priority job; a heldback machine never does.
MayStart(a, j) ==
  /\ Fits(a, j)
  /\ \/ a.priority = None
     \/ SpotFor(a, j).kind = "heldback"
     \/ clock + walltime[j] <= a.completion_time

\* The queue is executed up to the first job that does not fit, which becomes
\* the priority job.
ExecuteOrWait(R, j) ==
  LET B == [R EXCEPT !.alg.pending = Tail(@)]
  IN IF R.alg.priority # None THEN R
     ELSE IF Fits(R.alg, j) THEN Start(B, j) ELSE BecomePriority(B, j)

ExecuteToPriority(D) == FoldLeft(ExecuteOrWait, D, D.alg.pending)

\* The priority job starts if it fits; easy_bf_fast2 does not note that it runs
\* unless it is share-packed.
StartPriority(D) ==
  LET p == D.alg.priority
      S == Start(D, p)
  IN IF Fits(D.alg, p)
     THEN ExecuteToPriority(
            [S EXCEPT !.alg.priority = None,
                      !.alg.running = IF SharePacked(p) THEN @ ELSE @ \ {p}])
     ELSE D

BackfillOne(R, j) == IF MayStart(R.d.alg, j) THEN [R EXCEPT !.d = Start(@, j)]
                     ELSE [R EXCEPT !.left = Append(@, j)]

Backfill(D) ==
  LET E == FoldLeft(BackfillOne, [d |-> D, left |-> << >>], D.alg.pending)
  IN [E.d EXCEPT !.alg.pending = E.left]

EasyReleased(D, j) ==
  IF MayStart(D.alg, j) THEN Start(D, j)
  ELSE IF D.alg.priority = None THEN BecomePriority(D, j)
  ELSE Enqueue(D, j)

------------------------------------------------------------------------------
(* make_decisions.                                                         *)

handle_machines_coming_available(D) ==
  IF config.variant = "fcfs_fast2" /\ D.alg.recently_available THEN ExecuteQueue(D) ELSE D

handle_ended_job_execution(D) ==
  IF inbox.ended = {} THEN D
  ELSE IF Fcfs THEN ExecuteQueue(D)
  ELSE IF D.alg.priority = None THEN D
  ELSE Backfill(StartPriority(D))

ReleaseOne(D, j) ==
  IF nb_requested_resources[j] > Cardinality(Machines) - config.holdback
  THEN [D EXCEPT !.rejected = @ \cup {j}]
  ELSE IF Fcfs THEN FcfsReleased(D, j) ELSE EasyReleased(D, j)

handle_newly_released_jobs(D) == FoldLeft(ReleaseOne, D, inbox.released)

NothingLeft(D) ==
  /\ inbox.killed = {} /\ D.alg.pending = << >> /\ D.alg.running = {}
  /\ no_more_static /\ clock # 0

FinishSubmitting(D) ==
  IF HandlesFailures /\ D.alg.need_to_send_finished /\ NothingLeft(D)
  THEN [D EXCEPT !.finished = TRUE, !.alg.need_to_send_finished = FALSE]
  ELSE D

Decision ==
  LET F == handle_new_jobs_to_kill(handle_newly_finished_jobs(Begin(alg)))
      A == handle_machines_coming_available(handle_resubmission(F))
      E == handle_newly_released_jobs(handle_ended_job_execution(A))
  IN [FinishSubmitting(E) EXCEPT !.alg.recently_available = FALSE]

make_decisions ==
  /\ ~Delivered /\ Readable /\ alg.ok
  /\ alg' = Decision.alg /\ Reply(Decision)

------------------------------------------------------------------------------
(* Failures.                                                               *)

KillJobsOn(a, m) ==
  IF a.running = {} THEN a
  ELSE [a EXCEPT !.my_kill_jobs = @ \cup {j \in DOMAIN a.allocations : m \in a.allocations[j]}]

on_machine_instant_down_up(m) == [Begin(alg) EXCEPT !.alg = KillJobsOn(@, m)]

on_machine_down_for_repair(m) ==
  LET a == [alg EXCEPT !.available = @ \ {m}, !.unavailable = @ \cup {m},
                       !.repair = @ \cup {m},
                       !.nb_available = Cardinality(alg.available \ {m})]
      C == CallMeLater(Begin(a), "REPAIR_DONE", m, clock + config.repair_time)
  IN IF m \in alg.repair THEN Begin(alg) ELSE [C EXCEPT !.alg = KillJobsOn(@, m)]

\* One running job is killed, whichever comes first.
on_myKillJob_notify_event ==
  IF alg.running = {} THEN {Begin(alg)}
  ELSE {[Begin(alg) EXCEPT !.alg.my_kill_jobs = @ \cup {j}] : j \in alg.running}

\* Any machine may be drawn.
Failures(forWhat) ==
  IF forWhat = "MTBF" THEN on_myKillJob_notify_event
  ELSE IF config.repair_time = 0 THEN {on_machine_instant_down_up(m) : m \in Machines}
  ELSE {on_machine_down_for_repair(m) : m \in Machines}

\* Only while there is something to do does a failure happen and the next follow.
Failure(t) ==
  /\ t.forWhat \in config.generators
  /\ IF alg.running # {} \/ alg.pending # << >> \/ ~no_more_static
     THEN \E F \in Failures(t.forWhat), d \in Dates(alg.nb_call_me_laters) :
            LET C == CallMeLater(F, t.forWhat, 1, d)
            IN alg' = C.alg /\ Ring(t, ToSet(C.calls))
     ELSE Ring(t, {}) /\ UNCHANGED alg

\* The number of the call is taken for the machine that was repaired, though it
\* may be that of a busy machine or of none.
RepairDone(t) ==
  /\ t.forWhat = "REPAIR_DONE" /\ Ring(t, {})
  /\ alg' = [alg EXCEPT !.available = @ \cup {t.id}, !.unavailable = @ \ {t.id},
                        !.repair = @ \ {t.id},
                        !.nb_available = Cardinality(alg.available \cup {t.id}),
                        !.recently_available = TRUE,
                        !.mistaken = @ \/ t.id # t.about]

on_requested_call(t) == alg.ok /\ (Failure(t) \/ RepairDone(t))

\* Batsim stops if a job is given fewer machines than it asked for, one that does
\* not exist, or one that executes another job while time-sharing, which is
\* switched on for share-packing only, is off.
Refused ==
  \E j \in InStatus("running") :
    \/ ~(on[j] \subseteq Machines)
    \/ Cardinality(on[j]) # nb_requested_resources[j]
    \/ /\ ~config.share_packing
       /\ \E k \in InStatus("running") \ {j} : on[j] \cap on[k] # {}

Next ==
  /\ ~Refused
  /\ \/ make_decisions
     \/ \E t \in timers : on_requested_call(t)
     \/ BatsimNext /\ UNCHANGED alg

Stopped == ~alg.ok \/ ~Readable \/ Refused

\* Timers ring and a message is answered: the last conjunct is weak fairness
\* of make_decisions.
Fairness ==
  /\ BatsimFairness /\ WF_vars(\E t \in timers : on_requested_call(t))
  /\ []<>(Delivered \/ Stopped)

Spec == Init /\ [][Next]_vars /\ Fairness

------------------------------------------------------------------------------
(* Properties.                                                             *)

\* Once a message is answered the books are right: the machines counted as
\* free are those no job is on, a shared machine has the cores left that its
\* jobs leave, and no job is on a machine that Batsim refuses; until the end of
\* a repair is taken for that of another machine.
BooksBalance ==
  Delivered /\ alg.ok /\ ~alg.mistaken =>
    LET busy == UNION {on[j] : j \in InStatus("running")}
    IN /\ alg.nb_available = Cardinality(alg.available)
       /\ alg.available = Machines \ (busy \cup alg.unavailable)
       /\ \A m \in Machines :
            alg.cores[m] = Cores - Cardinality({j \in InStatus("running") :
                                                  SharePacked(j) /\ m \in on[j]})
       /\ ~Refused

\* The promise of EASY backfilling, and the reason why jobs may pass the
\* priority job: it starts at its expected start or before.
PriorityOnTime == alg.priority # None => alg.ok /\ clock <= alg.completion_time

\* Without backfilling no job starts while one waits that was before it in the
\* queue, also where jobs share machines or come back after a kill.
FirstComeFirstServed ==
  [][Fcfs => \A j \in ToSet(alg.pending), i \in ToSet(alg'.pending) :
       j \notin ToSet(alg'.pending) /\ i \in ToSet(alg.pending) =>
         \E k, l \in DOMAIN alg.pending :
           k < l /\ alg.pending[k] = j /\ alg.pending[l] = i]_vars

\* Every job is run, or rejected, or killed and submitted again, and then the
\* scheduler says that it submits no more jobs, unless a repair is taken for that
\* of another machine: the machine that failed may then be missing for ever.
\* (With failures it says so when the next one, after the last date, is due.)
SimulationFinishes ==
  <>(Stopped \/ alg.mistaken \/ (Over /\ (finished \/ timers # {} \/ ~HandlesFailures)))
===============================================================================
