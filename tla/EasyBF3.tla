------------------------------ MODULE EasyBF3 ------------------------------
(***************************************************************************)
(* The EASY backfilling scheduler of batsched4/src/algo/easy_bf3.cpp.      *)
(*                                                                         *)
(* make_decisions is one call of the scheduler; its loops are steps of the *)
(* specification (pc), and nothing else happens until it returns.  Around  *)
(* it Batsim submits each job at its submission date, runs the jobs that   *)
(* the decisions execute and ends each of them at its walltime at latest.  *)
(* Dates are small naturals.                                               *)
(***************************************************************************)
EXTENDS Integers, SequencesExt

CONSTANTS
    Jobs, NbMachines,
    Workloads,  \* the workloads that may be replayed
    Number,     \* Number[j]: the order of the job identifiers
    None        \* nullptr

\* A job of the workload.  The walltime is 0 when the job has none.
Job == [nb_requested_resources : Nat \ {0}, walltime : Nat, submission_time : Nat]

ASSUME EasyAssumption ==
    /\ IsFiniteSet(Jobs) /\ None \notin Jobs
    /\ NbMachines \in Nat \ {0}
    /\ Workloads \subseteq [Jobs -> Job]
    /\ Number \in [Jobs -> Nat]
    /\ \A j, k \in Jobs : Number[j] = Number[k] => j = k

VARIABLES
    workload,              \* the jobs of this simulation
    date,                  \* the date of the simulation
    status,                \* status[j]: where Batsim has job j
    jobs_ended_recently, jobs_released_recently,
    queue,                 \* _queue
    scheduled_jobs,        \* _scheduled_jobs
    available_machines, nb_available_machines,
    p_job,                 \* *_p_job
    pc,                    \* where make_decisions is
    priority_job_before, priority_job_after,
    recently_queued_jobs,
    cursor,                \* the loop index, or the position of job_it
    machine_count, scan    \* the loop of check_priority_job

jobVars == <<priority_job_before, priority_job_after, recently_queued_jobs>>
scanVars == <<machine_count, scan>>
callVars == <<pc, jobVars, cursor, scanVars>>
recentVars == <<jobs_ended_recently, jobs_released_recently>>
machineVars == <<scheduled_jobs, available_machines, nb_available_machines>>
vars == <<workload, date, status, recentVars, queue, machineVars, p_job, callVars>>

Machines == 0..(NbMachines - 1)

Status == {"unsubmitted", "released", "queued", "running", "ended", "done",
           "rejected"}

Scheduled_Job == [id : Jobs, requested_resources : Nat,
                  est_finish_time : Nat, allocated_machines : SUBSET Machines]

Priority_Job == [id : Jobs \cup {None}, requested_resources : Nat,
                 extra_resources : Nat, shadow_time : Nat]

Req(j) == workload[j].nb_requested_resources
Walltime(j) == workload[j].walltime
Subtime(j) == workload[j].submission_time

Init ==
    /\ workload \in Workloads
    /\ date = 0
    /\ status = [j \in Jobs |-> "unsubmitted"]
    /\ jobs_ended_recently = <<>> /\ jobs_released_recently = <<>>
    /\ queue = <<>> /\ scheduled_jobs = <<>>
    /\ available_machines = Machines /\ nb_available_machines = NbMachines
    /\ p_job = [id |-> None, requested_resources |-> 0, extra_resources |-> 0,
                shadow_time |-> 0]
    /\ pc = "return"
    /\ priority_job_before = None /\ priority_job_after = None
    /\ recently_queued_jobs = <<>> /\ cursor = 0
    /\ machine_count = 0 /\ scan = 0
-----------------------------------------------------------------------------
(* Batsim.                                                                 *)

InStatus(S) == {j \in Jobs : status[j] \in S}

\* Time passes until something must happen: a submission, or the end of a
\* job that reached its walltime.
Tick ==
    /\ pc = "return" /\ recentVars = << <<>>, <<>> >>
    /\ \A j \in InStatus({"unsubmitted"}) : date < Subtime(j)
    /\ \A i \in DOMAIN scheduled_jobs : date < scheduled_jobs[i].est_finish_time
    /\ InStatus({"unsubmitted", "running"}) # {}
    /\ date' = date + 1
    /\ UNCHANGED <<workload, status, recentVars, queue, machineVars, p_job,
                   callVars>>

\* JOB_SUBMITTED: on_job_release.
Submit(j) ==
    /\ pc = "return"
    /\ status[j] = "unsubmitted" /\ date = Subtime(j)
    /\ status' = [status EXCEPT ![j] = "released"]
    /\ jobs_released_recently' = Append(jobs_released_recently, j)
    /\ UNCHANGED <<workload, date, jobs_ended_recently, queue, machineVars, p_job, callVars>>

\* JOB_COMPLETED: on_job_end.  A job may end before its walltime.
Complete(j) ==
    /\ pc = "return"
    /\ status[j] = "running"
    /\ status' = [status EXCEPT ![j] = "ended"]
    /\ jobs_ended_recently' = Append(jobs_ended_recently, j)
    /\ UNCHANGED <<workload, date, jobs_released_recently, queue, machineVars, p_job,
                   callVars>>
-----------------------------------------------------------------------------
(* The queue and the schedule.                                             *)

\* OriginalFCFSOrder::compare.
Precedes(j, k) ==
    IF Subtime(j) = Subtime(k) THEN Number[j] < Number[k]
    ELSE Subtime(j) < Subtime(k)

\* The orders in which a sequence can be put.
Permuted(s) ==
    {[i \in DOMAIN s |-> s[f[i]]] : f \in Bijection(DOMAIN s, DOMAIN s)}

\* sort_queue.  There is one sorted version of a queue.
SortedQueues_Unsorted(q) == Permuted(q)
SortedQueues(q) ==
    {t \in Permuted(q) : \A i, k \in DOMAIN t : i < k => Precedes(t[i], t[k])}

\* sort_max_heap: the schedule by increasing est_finish_time, in any order
\* where they are equal (module HeapSort models how it is sorted).
SortedVersions(s) ==
    {t \in Permuted(s) : \A i, k \in DOMAIN t :
        i < k => t[i].est_finish_time <= t[k].est_finish_time}

QueueJobs == {queue[i] : i \in DOMAIN queue}

\* first_job_or_nullptr.
First(q) == IF q = <<>> THEN None ELSE q[1]

\* IntervalSet::left: the n leftmost machines of S.  It aborts if S has less.
Leftmost(S, n) ==
    {A \in SUBSET S : Cardinality(A) = n /\ \A m \in A, k \in S \ A : m < k}

Dequeue(j) ==
    \E i \in DOMAIN queue : queue[i] = j /\ queue' = RemoveAt(queue, i)

\* A job starts: handle_scheduled_job, the sort, add_execute_job, remove_job.
Execute(j) ==
    /\ \E A \in Leftmost(available_machines, Req(j)) :
         /\ scheduled_jobs' \in SortedVersions(Append(scheduled_jobs,
              [id |-> j, requested_resources |-> Req(j),
               est_finish_time |-> date + Walltime(j), allocated_machines |-> A]))
         /\ available_machines' = available_machines \ A
    /\ nb_available_machines' = nb_available_machines - Req(j)
    /\ Dequeue(j)
    /\ status' = [status EXCEPT ![j] = "running"]
-----------------------------------------------------------------------------
(* make_decisions.                                                         *)

\* The call.  (Called with nothing new, as at the start of the simulation, it
\* changes nothing.)
make_decisions ==
    /\ pc = "return" /\ recentVars # << <<>>, <<>> >>
    /\ priority_job_before' = First(queue)
    /\ pc' = "finished" /\ cursor' = 1
    /\ UNCHANGED <<workload, date, status, recentVars, queue, machineVars, p_job,
                   priority_job_after, recently_queued_jobs, scanVars>>

\* The machines of the entry i of the schedule are available again.
ReleaseMachines_CountedOnly(i) ==
    /\ nb_available_machines' = nb_available_machines
                                   + scheduled_jobs[i].requested_resources
    /\ UNCHANGED available_machines
ReleaseMachines_NotCounted(i) ==
    /\ available_machines' = available_machines
                                \cup scheduled_jobs[i].allocated_machines
    /\ UNCHANGED nb_available_machines
ReleaseMachines(i) ==
    /\ available_machines' = available_machines
                                \cup scheduled_jobs[i].allocated_machines
    /\ nb_available_machines' = nb_available_machines
                                   + scheduled_jobs[i].requested_resources

\* handle_finished_job, for one job after the other.
handle_finished_job ==
    /\ pc = "finished" /\ cursor <= Len(jobs_ended_recently)
    /\ \E i \in DOMAIN scheduled_jobs :
         /\ scheduled_jobs[i].id = jobs_ended_recently[cursor]
         /\ ReleaseMachines(i)
         /\ scheduled_jobs' = RemoveAt(scheduled_jobs, i)
    /\ status' = [status EXCEPT ![jobs_ended_recently[cursor]] = "done"]
    /\ cursor' = cursor + 1
    /\ UNCHANGED <<workload, date, recentVars, queue, p_job, pc, jobVars, scanVars>>

AllFinished ==
    /\ pc = "finished" /\ cursor > Len(jobs_ended_recently)
    /\ pc' = "released" /\ cursor' = 1
    /\ UNCHANGED <<workload, date, status, recentVars, queue, machineVars, p_job,
                   jobVars, scanVars>>

\* A job that is rejected when it is released.
Rejected(j) == Req(j) > NbMachines \/ Walltime(j) = 0

\* The jobs that were released are rejected or queued.
HandleReleased ==
    /\ pc = "released" /\ cursor <= Len(jobs_released_recently)
    /\ LET j == jobs_released_recently[cursor]
       IN \/ /\ Rejected(j)
             /\ status' = [status EXCEPT ![j] = "rejected"]
             /\ UNCHANGED <<queue, recently_queued_jobs>>
          \/ /\ ~Rejected(j)
             /\ status' = [status EXCEPT ![j] = "queued"]
             /\ queue' = Append(queue, j)
             /\ recently_queued_jobs' = Append(recently_queued_jobs, j)
    /\ cursor' = cursor + 1
    /\ UNCHANGED <<workload, date, recentVars, machineVars, p_job, pc,
                   priority_job_before, priority_job_after, scanVars>>

\* sort_queue_while_handling_priority_job, up to its loop.
SortQueue ==
    /\ pc = "released" /\ cursor > Len(jobs_released_recently)
    /\ queue' \in SortedQueues(queue)
    /\ priority_job_after' = First(queue')
    /\ pc' = IF First(queue') # priority_job_before THEN "priority"
             ELSE "backfill"
    /\ cursor' = 1
    /\ UNCHANGED <<workload, date, status, recentVars, machineVars, p_job,
                   priority_job_before, recently_queued_jobs, scanVars>>

Fits(j) == Req(j) <= nb_available_machines

\* check_priority_job, when the job can run.
RunPriority(j) ==
    /\ Fits(j)
    /\ Execute(j)
    /\ p_job' = [p_job EXCEPT !.id = j, !.requested_resources = Req(j)]
    /\ priority_job_after' = First(queue')
    /\ UNCHANGED scanVars

\* check_priority_job, when it cannot: its start is computed.
ReservePriority(j) ==
    /\ ~Fits(j)
    /\ p_job' = [p_job EXCEPT !.id = j, !.requested_resources = Req(j)]
    /\ pc' = "reserve"
    /\ machine_count' = nb_available_machines /\ scan' = 1
    /\ UNCHANGED <<status, queue, machineVars, priority_job_after>>

Enough(count) == count >= p_job.requested_resources

ReserveScan ==
    /\ pc = "reserve" /\ scan <= Len(scheduled_jobs)
    /\ machine_count' = machine_count + scheduled_jobs[scan].requested_resources
    /\ \/ /\ Enough(machine_count')
          /\ p_job' = [p_job EXCEPT
               !.shadow_time = scheduled_jobs[scan].est_finish_time,
               !.extra_resources = machine_count' - p_job.requested_resources]
          /\ pc' = "backfill" /\ UNCHANGED scan
       \/ /\ ~Enough(machine_count')
          /\ scan' = scan + 1
          /\ UNCHANGED <<p_job, pc>>
    /\ UNCHANGED <<workload, date, status, recentVars, queue, machineVars,
                   jobVars, cursor>>

\* sort_queue_while_handling_priority_job: one turn of its loop.
SortQueuePriority ==
    /\ pc = "priority"
    /\ \/ /\ priority_job_after # None
          /\ RunPriority(priority_job_after)
          /\ UNCHANGED pc
       \/ /\ priority_job_after # None
          /\ ReservePriority(priority_job_after)
       \/ /\ priority_job_after = None
          /\ pc' = "backfill"
          /\ UNCHANGED <<status, queue, machineVars, p_job, priority_job_after,
                         scanVars>>
    /\ UNCHANGED <<workload, date, recentVars, priority_job_before,
                   recently_queued_jobs, cursor>>

\* check_next_job: whether a job may be backfilled.
CanBackfill(j) ==
    /\ Fits(j)
    /\ \/ date + Walltime(j) <= p_job.shadow_time
       \/ Req(j) <= p_job.extra_resources

\* No job ended: only the new jobs are tried.
BackfillNew ==
    /\ pc = "backfill" /\ jobs_ended_recently = <<>>
    /\ cursor <= Len(recently_queued_jobs) /\ nb_available_machines > 0
    /\ LET j == recently_queued_jobs[cursor]
           tried == j \in QueueJobs /\ j # priority_job_after /\ CanBackfill(j)
       IN \/ tried /\ Execute(j)
          \/ ~tried /\ UNCHANGED <<status, queue, machineVars>>
    /\ cursor' = cursor + 1
    /\ UNCHANGED <<workload, date, recentVars, p_job, pc, jobVars, scanVars>>

\* Some job ended: the whole queue is tried.
BackfillAll ==
    /\ pc = "backfill" /\ jobs_ended_recently # <<>>
    /\ cursor <= Len(queue) /\ nb_available_machines > 0
    /\ LET j == queue[cursor]
       IN \/ /\ j = priority_job_after
             /\ RunPriority(j)
             /\ UNCHANGED <<pc, cursor>>
          \/ /\ j = priority_job_after
             /\ ReservePriority(j)
             /\ cursor' = cursor + 1
          \/ /\ j # priority_job_after /\ CanBackfill(j)
             /\ Execute(j)
             /\ UNCHANGED <<p_job, pc, priority_job_after, cursor, scanVars>>
          \/ /\ j # priority_job_after /\ ~CanBackfill(j)
             /\ cursor' = cursor + 1
             /\ UNCHANGED <<status, queue, machineVars, p_job, pc,
                            priority_job_after, scanVars>>
    /\ UNCHANGED <<workload, date, recentVars, priority_job_before,
                   recently_queued_jobs>>

\* The call returns, then clear_recent_data_structures.
Return ==
    /\ pc = "backfill"
    /\ \/ nb_available_machines = 0
       \/ cursor > Len(IF jobs_ended_recently = <<>> THEN recently_queued_jobs
                       ELSE queue)
    /\ pc' = "return"
    /\ jobs_ended_recently' = <<>> /\ jobs_released_recently' = <<>>
    /\ recently_queued_jobs' = <<>> /\ cursor' = 0
    /\ priority_job_before' = None /\ priority_job_after' = None
    /\ machine_count' = 0 /\ scan' = 0
    /\ UNCHANGED <<workload, date, status, queue, machineVars, p_job>>

Next ==
    \/ Tick \/ \E j \in Jobs : Submit(j) \/ Complete(j)
    \/ make_decisions \/ handle_finished_job \/ AllFinished \/ HandleReleased
    \/ SortQueue \/ SortQueuePriority \/ ReserveScan
    \/ BackfillNew \/ BackfillAll \/ Return

Spec == Init /\ [][Next]_vars

\* Time passes, jobs reach their walltime and the scheduler answers.
FairSpec == Spec /\ WF_vars(Next)
-----------------------------------------------------------------------------
\* The types of the members of EasyBackfilling3 and of the locals of
\* make_decisions: the counts of machines never become negative, and the
\* indices of the loops start at 1.
TypeOK ==
    /\ workload \in Workloads
    /\ date \in Nat /\ status \in [Jobs -> Status]
    /\ jobs_ended_recently \in Seq(Jobs) /\ jobs_released_recently \in Seq(Jobs)
    /\ queue \in Seq(Jobs) /\ scheduled_jobs \in Seq(Scheduled_Job)
    /\ available_machines \subseteq Machines /\ nb_available_machines \in Nat
    /\ p_job \in Priority_Job
    /\ pc \in {"return", "finished", "released", "priority", "reserve", "backfill"}
    /\ priority_job_before \in Jobs \cup {None}
    /\ priority_job_after \in Jobs \cup {None}
    /\ recently_queued_jobs \in Seq(Jobs) /\ cursor \in Nat
    /\ machine_count \in Nat /\ scan \in Nat
    /\ pc # "return" => cursor > 0
    /\ pc = "reserve" => scan > 0

Allocation(i) == scheduled_jobs[i].allocated_machines

\* The machines are shared out: those of an execution are used by no other
\* and are not available, and every machine is available or allocated.
MachinesSharedOut ==
    /\ \A i \in DOMAIN scheduled_jobs :
         /\ Allocation(i) \cap available_machines = {}
         /\ \A k \in DOMAIN scheduled_jobs \ {i} : Allocation(i) \cap Allocation(k) = {}
    /\ Machines = available_machines
                    \cup UNION {Allocation(i) : i \in DOMAIN scheduled_jobs}

\* _nb_available_machines, which the decisions compare sizes with, is the size
\* of _available_machines, and a job has as many machines as it asked for.
MachinesCounted ==
    /\ nb_available_machines = Cardinality(available_machines)
    /\ \A i \in DOMAIN scheduled_jobs :
         Cardinality(Allocation(i)) = Req(scheduled_jobs[i].id)

\* First come first served among the jobs that wait: the head of the queue
\* came before all of them, and it is the job of the reservation whenever a
\* machine is left to backfill on.
HeadIsReserved ==
    pc = "return" /\ queue # <<>> =>
        /\ \A i \in 2..Len(queue) : Precedes(queue[1], queue[i])
        /\ nb_available_machines > 0 => p_job.id = queue[1]

\* Every job that is submitted is eventually rejected or done.
EveryJobEnds == \A j \in Jobs : <>(status[j] \in {"done", "rejected"})

=============================================================================
