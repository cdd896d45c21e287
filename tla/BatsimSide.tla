------------------------------ MODULE BatsimSide ------------------------------
(***************************************************************************)
(* Batsim as a scheduler of batsched sees it: a clock, the submissions and *)
(* the ends of the jobs, the kills that take effect some time after they   *)
(* are asked for, the timers, and the jobs that come back after a kill.    *)
(* Events are collected in a message; one message is one call of the       *)
(* scheduler's make_decisions, which a module that extends this one adds.  *)
(*                                                                         *)
(* The version v of job j is the number j + 10 * v: version 0 is in the    *)
(* workload, the others are the resubmissions "j#v".                       *)
(***************************************************************************)
EXTENDS Platform

CONSTANTS
  subtime,      \* submission date of each job of the workload
  Simulations,  \* the simulations to check: records with the options of both
                \* programs, and at least the fields of the assumption
  MaxTimers     \* bound on the failures that happen before the last date

ASSUME SimulationAssumption ==
  /\ subtime \in [Jobs -> Nat] /\ MaxTimers \in Nat
  /\ \A j \in Jobs : nb_requested_resources[j] > 0
  /\ \A s \in Simulations :
       /\ s.workload \subseteq Jobs
       /\ s.generators \subseteq {"SMTBF", "FIXED_FAILURE", "MTBF"} \* failures switched on
       /\ s.repair_time \in Nat /\ s.last \in Nat                  \* bound on the clock

VARIABLES
  config,           \* the simulation
  inbox,            \* the events of the message that Batsim is writing
  clock,            \* the date
  status,           \* the progress of each job
  began,            \* the date each job started
  on,               \* the machines each job was given
  timers,           \* the calls that are still to come
  killing,          \* the kill requests in progress, sets of jobs
  no_more_static,   \* NO_MORE_STATIC_JOB_TO_SUBMIT has been sent
  finished          \* the scheduler has said that it submits no more jobs

batsim == <<clock, status, began, on, timers, killing, no_more_static, finished>>

Version(j) == j \div 10
Base(j) == j % 10
NextVersion(j) == j + 10

NoEvents == [released |-> << >>, ended |-> {}, killed |-> {}, other |-> FALSE]

\* set_generators: one timer for each generator of failures.
BatsimInit ==
  /\ config \in Simulations
  /\ inbox = NoEvents /\ clock = 0 /\ killing = {}
  /\ finished = FALSE /\ no_more_static = FALSE
  /\ status = [j \in Jobs |-> IF j \in config.workload THEN "todo" ELSE "none"]
  /\ began = [j \in Jobs |-> 0] /\ on = [j \in Jobs |-> {}]
  /\ \E d \in [config.generators -> 1..(config.last + 1)] :
       timers = {[id |-> IF g = "SMTBF" /\ "FIXED_FAILURE" \in config.generators
                         THEN 1 ELSE 0,
                  forWhat |-> g, about |-> 1, date |-> d[g]] : g \in config.generators}

InStatus(s) == {j \in Jobs : status[j] = s}
Delivered == inbox = NoEvents

\* The acknowledgement of a kill names the jobs that ended by themselves too, and
\* reads their progress, which nobody wrote: the scheduler gets no further.
Readable == inbox.killed \subseteq InStatus("killed")

------------------------------------------------------------------------------
(* A decision in progress: the record alg, the state of the scheduler,     *)
(* with the decisions in it.                                               *)

Begin(a) == [alg |-> a, executed |-> NoJobs, rejected |-> {}, kill |-> {},
             calls |-> << >>, submit |-> {}, finished |-> FALSE]

Execute(D, j, machines) == [D EXCEPT !.executed = Put(@, j, machines)]

\* add_call_me_later: the call gets the next number, the id is not sent.
CallMeLater(D, forWhat, about, date) ==
  [D EXCEPT !.calls = Append(@, [id |-> D.alg.nb_call_me_laters, forWhat |-> forWhat,
                                 about |-> about, date |-> date]),
            !.alg.nb_call_me_laters = @ + 1]

\* Mutant: a killed job is forgotten.
handle_resubmission_forgotten(D) == D

\* Every job the kill named is registered again as its next version.
handle_resubmission(D) ==
  [D EXCEPT !.submit = {NextVersion(j) : j \in inbox.killed}]

\* Batsim receives the decisions; since gives the start of the jobs it executes.
\* A job that is registered is submitted at once: the next message begins with it.
ReplySince(D, since) ==
  /\ inbox' = [NoEvents EXCEPT !.released = Ascending(D.submit \cap InStatus("none"))]
  /\ status' = [j \in Jobs |->
       CASE j \in DOMAIN D.executed -> "running"
         [] j \in D.rejected -> "rejected"
         [] j \in D.submit /\ status[j] = "none" -> "released"
         [] status[j] = "released" /\ j \notin DOMAIN D.executed \cup D.rejected -> "queued"
         [] OTHER -> status[j]]
  /\ began' = [j \in Jobs |-> IF j \in DOMAIN D.executed THEN since[j] ELSE began[j]]
  /\ on' = [j \in Jobs |-> IF j \in DOMAIN D.executed THEN D.executed[j] ELSE on[j]]
  /\ timers' = timers \cup ToSet(D.calls)
  /\ killing' = IF D.kill = {} THEN killing ELSE killing \cup {D.kill}
  /\ finished' = (finished \/ D.finished)
  /\ UNCHANGED <<config, clock, no_more_static>>

Reply(D) == ReplySince(D, [j \in Jobs |-> clock])

------------------------------------------------------------------------------
(* What happens in Batsim.                                                 *)

\* The dates at which the next failure may be drawn.
Dates(n) == IF n < MaxTimers THEN (clock + 1)..(config.last + 1) ELSE {config.last + 1}

\* A timer rings: the scheduler is told in the next message.
Ring(t, again) ==
  /\ t.date <= clock
  /\ timers' = (timers \ {t}) \cup again
  /\ inbox' = [inbox EXCEPT !.other = TRUE]
  /\ UNCHANGED <<config, clock, status, began, on, killing, no_more_static, finished>>

NoMoreStatic ==
  /\ InStatus("todo") = {} /\ ~no_more_static
  /\ no_more_static' = TRUE
  /\ inbox' = [inbox EXCEPT !.other = TRUE]
  /\ UNCHANGED <<config, clock, status, began, on, timers, killing, finished>>

Submit(j) ==
  /\ status[j] = "todo" /\ subtime[j] <= clock
  /\ status' = [status EXCEPT ![j] = "released"]
  /\ inbox' = [inbox EXCEPT !.released = Append(@, j)]
  /\ UNCHANGED <<config, clock, began, on, timers, killing, no_more_static, finished>>

\* A job may end at any date up to its walltime, at which Batsim stops it.
End(j) ==
  /\ status[j] = "running"
  /\ status' = [status EXCEPT ![j] = "done"]
  /\ inbox' = [inbox EXCEPT !.ended = @ \cup {j}]
  /\ UNCHANGED <<config, clock, began, on, timers, killing, no_more_static, finished>>

\* The kill takes effect: the jobs that still run are killed and reported as
\* ended; the acknowledgement names all the jobs of the request.
KillDone(k) ==
  /\ killing' = killing \ {k}
  /\ status' = [j \in Jobs |-> IF j \in k /\ status[j] = "running" THEN "killed"
                               ELSE status[j]]
  /\ inbox' = [inbox EXCEPT !.ended = @ \cup (k \cap InStatus("running")),
                            !.killed = @ \cup k]
  /\ UNCHANGED <<config, clock, began, on, timers, no_more_static, finished>>

Overdue(date) ==
  {j \in Jobs : \/ status[j] = "todo" /\ subtime[j] < date
                \/ status[j] = "running" /\ began[j] + walltime[j] < date}

\* Time passes once every message is answered.
Tick ==
  /\ clock < config.last /\ Delivered /\ killing = {} /\ Overdue(clock + 1) = {}
  /\ \A t \in timers : t.date > clock
  /\ clock' = clock + 1
  /\ UNCHANGED <<config, inbox, status, began, on, timers, killing, no_more_static, finished>>

BatsimNext ==
  \/ NoMoreStatic
  \/ \E j \in Jobs : Submit(j) \/ End(j)
  \/ \E k \in killing : KillDone(k)
  \/ Tick

\* Time passes, events happen, and kills take effect.
BatsimFairness ==
  LET v == <<config, inbox, batsim>>
  IN /\ WF_v(Tick) /\ WF_v(NoMoreStatic) /\ WF_v(\E k \in killing : KillDone(k))
     /\ \A j \in Jobs : WF_v(Submit(j)) /\ WF_v(End(j))

\* No job is left to run, and each job of the workload ran to its end in some
\* version unless it was rejected.
Over ==
  /\ \A j \in Jobs : status[j] \in {"none", "done", "killed", "rejected"}
  /\ \A j \in config.workload :
       \E v \in Jobs : Base(v) = Base(j) /\ status[v] \in {"done", "rejected"}
===============================================================================
