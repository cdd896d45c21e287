------------------------------- MODULE EasyBF2 --------------------------------
(***************************************************************************)
(* Algorithm easy_bf2 (easy_bf2.cpp): easy_bf on machines that fail.       *)
(*                                                                         *)
(* Failures come from timers (SMTBF, FIXED_FAILURE) that the scheduler     *)
(* asks Batsim for.  When one rings, a failure is noted; make_decisions    *)
(* then draws the machine that fails, kills the jobs that run on it and,   *)
(* if repairs take time, asks for a REPAIR_DONE call.                      *)
(***************************************************************************)
EXTENDS EasyBF

CONSTANTS
  Generators,     \* the kinds of failures that are switched on
  RepairTimes,    \* the repair times to check
  MaxTimers       \* bound on the number of timers that ring before MaxDate

ASSUME FailureAssumption ==
  /\ Generators \subseteq {"SMTBF", "FIXED_FAILURE"}
  /\ RepairTimes \subseteq Nat /\ MaxTimers \in Nat

VARIABLES
  algorithm,            \* which of the two algorithms the scheduler runs
  repair_time,          \* of the simulation; 0: the machine is up again at once
  timers,               \* Batsim: the calls that are still to come
  nb_call_me_laters,    \* the number of calls asked for
  deferred,             \* failures noted since the last decision
  no_more_static,       \* _no_more_static_job_to_submit_received
  notified              \* the message holds another event than those of EasyBF

faults == <<algorithm, repair_time, timers, nb_call_me_laters, deferred,
            no_more_static, notified>>
vars2 == <<vars, faults>>

\* add_call_me_later(forWhat, id, date): the call gets the next number; the
\* id that was passed, kept here as what the call is about, is not sent.
CallMeLater(T, n, forWhat, about, date) ==
  T \cup {[id |-> n, forWhat |-> forWhat, about |-> about, date |-> date]}

\* Beyond the bound a timer rings after the last date.
Dates == IF nb_call_me_laters < MaxTimers THEN (clock + 1)..(MaxDate + 1)
         ELSE {MaxDate + 1}

InitTimers ==
  \E d \in [Generators -> 1..(MaxDate + 1)] :
    /\ timers = {[id |-> IF g = "SMTBF" /\ "FIXED_FAILURE" \in Generators THEN 1 ELSE 0,
                  forWhat |-> g, about |-> 1, date |-> d[g]] : g \in Generators}
    /\ nb_call_me_laters = Cardinality(Generators)

\* easy_bf has no failures: it sets no timer.
Init2 ==
  /\ Init
  /\ \/ /\ algorithm = "easy_bf" /\ repair_time = 0
        /\ timers = {} /\ nb_call_me_laters = 0
     \/ /\ algorithm = "easy_bf2" /\ repair_time \in RepairTimes
        /\ InitTimers
  /\ deferred = 0 /\ no_more_static = FALSE /\ notified = FALSE

NoMoreStatic ==
  /\ InStatus("todo") = {} /\ ~no_more_static
  /\ no_more_static' = TRUE /\ notified' = TRUE
  /\ UNCHANGED <<vars, algorithm, repair_time, timers, nb_call_me_laters, deferred>>

Failure(t) ==
  /\ t.forWhat \in Generators
  /\ IF get_number_of_running_jobs(sched) > 0 \/ queue # << >> \/ ~no_more_static
     THEN /\ deferred' = deferred + 1
          /\ nb_call_me_laters' = nb_call_me_laters + 1
          /\ \E d \in Dates :
               timers' = CallMeLater(timers \ {t}, nb_call_me_laters, t.forWhat, 1, d)
     ELSE /\ timers' = timers \ {t} /\ UNCHANGED <<deferred, nb_call_me_laters>>
  /\ UNCHANGED sched

\* The number of the call is taken for the number of the machine.
RepairDone(t) ==
  /\ t.forWhat = "REPAIR_DONE"
  /\ sched' = remove_repair_machines(sched, {t.id})
  /\ timers' = timers \ {t}
  /\ UNCHANGED <<deferred, nb_call_me_laters>>

on_requested_call(t) ==
  /\ t.date <= clock /\ sched.ok
  /\ Failure(t) \/ RepairDone(t)
  /\ notified' = TRUE
  /\ UNCHANGED <<queue, batsim, released, ended, algorithm, repair_time, no_more_static>>

------------------------------------------------------------------------------
(* The failures of a decision in progress: kill collects the jobs to kill, *)
(* repairs the machines whose repair begins.                               *)

\* Mutant: all running jobs leave the schedule, those on ms are killed.
KillJobsOn_forgetAll(D, ms) ==
  [D EXCEPT !.kill = @ \cup get_jobs_running_on_machines(D.sched, ms),
            !.sched = FoldLeft(remove_job_if_exists, @,
                               Ascending(RunningJobs(@)))]

KillJobsOn(D, ms) ==
  LET jobs == get_jobs_running_on_machines(D.sched, ms)
  IN [D EXCEPT !.kill = @ \cup jobs,
               !.sched = FoldLeft(remove_job_if_exists, @, Ascending(jobs))]

on_machine_instant_down_up(D, m) == KillJobsOn(D, {m})

\* Mutant: the jobs on the machine keep running.
on_machine_down_for_repair_alive(D, m) ==
  IF m \in D.sched.repair THEN D
  ELSE [D EXCEPT !.sched = add_repair_machine(@, {m}), !.repairs = Append(@, m)]

\* A machine that is already under repair does not fail again.
on_machine_down_for_repair(D, m) ==
  IF m \in D.sched.repair THEN D
  ELSE KillJobsOn([D EXCEPT !.sched = add_repair_machine(@, {m}),
                            !.repairs = Append(@, m)], {m})

FailOn(time, D, m) == IF time = 0 THEN on_machine_instant_down_up(D, m)
                      ELSE on_machine_down_for_repair(D, m)
HandleFailures(A, machines) ==
  LET Fail1(D, m) == FailOn(repair_time, D, m)
  IN FoldLeft(Fail1, [sched |-> A.sched, kill |-> {}, repairs |-> << >>], machines)

\* The jobs killed are reported as ended, and nobody submits them again.
make_decisions2 ==
  \E machines \in [1..deferred -> Machines] :
    LET A == Receive(sched, queue)
        F == HandleFailures([A EXCEPT !.sched = update_first_slice(@, clock)], machines)
        D == sort_queue_while_handling_priority_job(
               [A EXCEPT !.sched = F.sched], first_job(queue))
        E == IF ended = {} THEN BackfillNew(D, Accepted)
             ELSE BackfillAll(D)
        killed == F.kill \cap InStatus("running")
        Id(m) == nb_call_me_laters + CHOOSE i \in 1..Len(F.repairs) : F.repairs[i] = m
    IN /\ ~Delivered \/ notified
       /\ sched.ok
       /\ Reply(E)
       /\ status' = [j \in Jobs |-> IF j \in killed THEN "done" ELSE StatusAfter(E)[j]]
       /\ ended' = killed
       /\ timers' = timers \cup
            {[id |-> Id(m) - 1, forWhat |-> "REPAIR_DONE", about |-> m,
              date |-> clock + repair_time] : m \in ToSet(F.repairs)}
       /\ nb_call_me_laters' = nb_call_me_laters + Len(F.repairs)
       /\ deferred' = 0 /\ notified' = FALSE
       /\ UNCHANGED <<clock, algorithm, repair_time, no_more_static>>

\* Time passes once every message is answered and no timer is due.
Tick2 ==
  /\ Tick /\ ~notified /\ \A t \in timers : t.date > clock
  /\ UNCHANGED faults

Next2 ==
  \/ algorithm = "easy_bf" /\ Next /\ UNCHANGED faults
  \/ /\ algorithm = "easy_bf2"
     /\ \/ \E j \in Jobs : (Submit(j) \/ End(j)) /\ UNCHANGED faults
        \/ NoMoreStatic
        \/ \E t \in timers : on_requested_call(t)
        \/ Tick2
        \/ make_decisions2

\* Nothing is claimed to happen eventually under easy_bf2, whose repairs end
\* with calls that name the wrong machine.
Spec2 == Init2 /\ [][Next2]_vars2 /\ (algorithm = "easy_bf" => Fairness)

------------------------------------------------------------------------------
(* Properties.                                                             *)

\* The reservation of the head is kept: while a job is the head, its planned
\* start never moves to a later date, whatever is backfilled before it, unless
\* a machine fails.
HeadNotDelayed == [][deferred = 0 => HeadKept]_vars2

\* Under easy_bf every job is run to its end or rejected, also the head that
\* waits for many machines while small jobs pass it.
EveryJobEnds == algorithm = "easy_bf" => <>[]AllOver

\* A machine that fails takes its jobs with it and is given to no other before
\* it leaves the list of machines under repair.
RunsOnWorkingMachines ==
  \A j \in InStatus("running") : on[j] \cap sched.repair = {}

\* While the scheduler works, the schedule agrees with Batsim on the jobs that
\* run and on their machines, also after failures.
RunningAgrees ==
  Delivered /\ sched.ok =>
    \A j \in InStatus("running") :
      j \in RunningJobs(sched) /\ sched.profile[1].jobs[j] = on[j]

===============================================================================
