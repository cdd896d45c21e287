---------------------------- MODULE BatsimServer ----------------------------
(***************************************************************************)
(* The orchestrating server of Batsim (batsim4/src/server.cpp), with the   *)
(* SimGrid actors that talk to it through the "server" mailbox: the job    *)
(* submitters, the job execution actors, the killers, the CALL_ME_LATER    *)
(* waiters and the REQ-REP actor that carries one request to the           *)
(* scheduler and applies the decisions of its reply.                       *)
(*                                                                         *)
(* Time is abstracted: a task ends, a waiter wakes and a submission date   *)
(* comes at any moment.  The scheduler is external: it may take every      *)
(* decision that follows from the messages it has received (its "view"),   *)
(* and it never sees the state of the server itself.                       *)
(*                                                                         *)
(* Identifiers keep the names of the C++ fields.                           *)
(***************************************************************************)
EXTENDS Integers, Sequences, FiniteSets

CONSTANTS
    Jobs,          \* every job of the simulation
    Machines,      \* the compute machines
    Submitters,    \* the static job submitters (one per workload/workflow)
    Workflows,     \* the submitters that run a workflow
    JobsOf,        \* JobsOf[s]: the jobs submitter s is in charge of
    Parents,       \* Parents[j]: the workflow tasks that precede task j
    Ptasks,        \* jobs whose profile runs as a SimGrid parallel task
    Driven,        \* jobs the scheduler drives with CHANGE_JOB_STATE
    Req,           \* Req[j]: the requested number of machines
    WorkflowLimit, \* --workflow-jobs-limit (0: no limit)
    TerminateWithLastWorkflow, \* -k
    RegistrationEnabled,       \* --enable-dynamic-jobs
    RegistrationAck,           \* --acknowledge-dynamic-jobs
    MayReject, MayKill,        \* jobs the scheduler may reject, may kill
    MaxKills, MaxCalls,        \* bounds: KILL_JOB and CALL_ME_LATER requests
    Eager          \* TRUE: the scheduler never idles when it can act

\* The jobs the scheduler registers itself (dynamic jobs).
DynJobs == Jobs \ UNION {JobsOf[s] : s \in Submitters}

ASSUME ServerAssumption ==
    /\ IsFiniteSet(Jobs) /\ IsFiniteSet(Machines) /\ IsFiniteSet(Submitters)
    /\ Submitters \cap {"reqrep", "job", "killer", "waiter"} = {}
    /\ Workflows \subseteq Submitters
    /\ JobsOf \in [Submitters -> SUBSET Jobs]
    /\ \A s, t \in Submitters : s # t => JobsOf[s] \cap JobsOf[t] = {}
    /\ Parents \in [Jobs -> SUBSET Jobs]
    /\ Ptasks \subseteq Jobs /\ Driven \subseteq Jobs
    /\ MayReject \subseteq Jobs /\ MayKill \subseteq Jobs
    /\ Req \in [Jobs -> Nat \ {0}]
    /\ WorkflowLimit \in Nat /\ MaxKills \in Nat /\ MaxCalls \in Nat
    /\ {TerminateWithLastWorkflow, RegistrationEnabled,
        RegistrationAck, Eager} \subseteq BOOLEAN
    /\ ~RegistrationEnabled => DynJobs = {}

VARIABLES
    \* ServerData
    server_pc,         \* where the server is in its loop: "receive", "tail", "exited"
    nb_submitted_jobs, nb_running_jobs, nb_completed_jobs, nb_killed_jobs,
    nb_killers, nb_waiters,
    nb_submitters_finished, nb_workflow_submitters_finished,
    sched_ready, end_of_simulation_sent, end_of_simulation_ack_received,
    submitters,        \* submitters that said hello and not goodbye
    origin_of_jobs,    \* jobs whose submitter must be called back
    jobs_to_be_deleted,\* how often each job is in the vector of that name
    \* BatsimContext
    proto_writer,      \* the events buffered for the scheduler, in order
    registration_sched_finished,
    job_state, kill_requested,
    deleted,           \* jobs erased from the workloads
    jobs_being_computed, \* jobs_being_computed[m]
    \* SimGrid
    mailbox,           \* the "server" mailbox, first in first out
    inbox,             \* inbox[s]: the mailbox of workflow submitter s
    actor,             \* actor[j]: the job execution actor of j
    killers,           \* the killer actors that have not run: their jobs
    sleeping,          \* the number of waiters asleep
    todo,              \* todo[s]: jobs submitter s has not sent yet
    submitted_tasks,   \* submitted_tasks[s]: workflow tasks awaiting callback
    submitter_pc,      \* "start", "submitting" or "bye"
    reqrep,            \* the REQ-REP actor: "none" or "active"
    aborted,           \* an xbt_assert failed
    \* the scheduler
    view,              \* what the scheduler knows of each job
    alloc,             \* alloc[j]: the SchedulingAllocation it chose
    told_end, end_register, calls, kills, unacked

counters == <<nb_submitted_jobs, nb_running_jobs, nb_completed_jobs,
              nb_killed_jobs>>
helpers == <<nb_killers, nb_waiters>>
submitterCounters == <<nb_submitters_finished,
                       nb_workflow_submitters_finished, submitters>>
loopVars == <<sched_ready, end_of_simulation_sent,
              end_of_simulation_ack_received>>
contextVars == <<registration_sched_finished, kill_requested, deleted>>
jobVars == <<job_state, actor, jobs_being_computed>>
submitterVars == <<inbox, todo, submitted_tasks, submitter_pc>>
schedVars == <<view, alloc, told_end, end_register, calls, kills, unacked>>

vars == <<server_pc, counters, helpers, submitterCounters, loopVars,
          origin_of_jobs, jobs_to_be_deleted, proto_writer, contextVars,
          jobVars, mailbox, killers, sleeping, submitterVars, reqrep,
          aborted, schedVars>>
-----------------------------------------------------------------------------
(* Messages of the mailbox and events of the protocol.  A message or an    *)
(* event that the code repeats for every job of a list carries the set.    *)

\* What a submitter says, and what the REQ-REP actor says for the scheduler.
FromSubmitter == {"SUBMITTER_HELLO", "SUBMITTER_BYE", "JOB_SUBMITTED"}

Decisions ==
    {"SCHED_EXECUTE_JOB", "SCHED_REJECT_JOB", "SCHED_KILL_JOB",
     "SCHED_CALL_ME_LATER", "CHANGE_TO_RUNNING", "CHANGE_TO_COMPLETED",
     "CHANGE_TO_REJECTED", "JOB_REGISTERED_BY_DP", "END_DYNAMIC_REGISTER",
     "CONTINUE_DYNAMIC_REGISTER", "SCHED_READY"}

Message ==
    [type : FromSubmitter, from : Submitters, jobs : SUBSET Jobs]
    \cup [type : Decisions, from : {"reqrep"}, jobs : SUBSET Jobs]
    \cup [type : {"JOB_COMPLETED"}, from : {"job"}, jobs : SUBSET Jobs]
    \cup [type : {"KILLING_DONE"}, from : {"killer"}, jobs : SUBSET Jobs]
    \cup [type : {"WAITING_DONE"}, from : {"waiter"}, jobs : SUBSET Jobs]

Msg(type, from, jobs) == [type |-> type, from |-> from, jobs |-> jobs]

EventTypes == {"JOB_SUBMITTED", "JOB_COMPLETED", "JOB_KILLED",
               "REQUESTED_CALL", "NO_MORE_STATIC_JOB"}

Event == [type : EventTypes, jobs : SUBSET Jobs]

Evt(type, jobs) == <<[type |-> type, jobs |-> jobs]>>

JobState == {"not_submitted", "submitted", "running", "completed", "killed",
             "rejected"}

\* SUCCESSFULLY, FAILED and WALLTIME_REACHED are one state, "completed":
\* the server treats them alike.
IsComplete(j) == job_state[j] \in {"completed", "killed", "rejected"}

\* A sender of a blocking put is blocked until the server takes the message.
Blocked(p) == \E i \in DOMAIN mailbox : mailbox[i].from = p

Send(type, from, jobs) == mailbox' = Append(mailbox, Msg(type, from, jobs))

\* SimGrid runs every actor that is ready before a communication completes:
\* freshly created job actors and killers, and actors whose task was
\* cancelled, run before the server receives its next message.
NoActorReady ==
    /\ killers = {}
    /\ \A j \in Jobs : actor[j] \notin {"spawned", "cancelled"}
-----------------------------------------------------------------------------
(* The initial state: server_process has created the REQ-REP actor that    *)
(* carries SIMULATION_BEGINS.                                              *)

Init ==
    /\ server_pc = "receive"
    /\ nb_submitted_jobs = 0 /\ nb_running_jobs = 0
    /\ nb_completed_jobs = 0 /\ nb_killed_jobs = 0
    /\ nb_killers = 0 /\ nb_waiters = 0
    /\ nb_submitters_finished = 0 /\ nb_workflow_submitters_finished = 0
    /\ sched_ready = FALSE
    /\ end_of_simulation_sent = FALSE
    /\ end_of_simulation_ack_received = FALSE
    /\ submitters = {} /\ origin_of_jobs = {}
    /\ jobs_to_be_deleted = [j \in Jobs |-> 0]
    /\ proto_writer = <<>>
    /\ registration_sched_finished = FALSE
    /\ job_state = [j \in Jobs |-> "not_submitted"]
    /\ kill_requested = {} /\ deleted = {}
    /\ jobs_being_computed = [m \in Machines |-> {}]
    /\ mailbox = <<>>
    /\ inbox = [s \in Submitters |-> <<>>]
    /\ actor = [j \in Jobs |-> "none"]
    /\ killers = {} /\ sleeping = 0
    /\ todo = JobsOf
    /\ submitted_tasks = [s \in Submitters |-> {}]
    /\ submitter_pc = [s \in Submitters |-> "start"]
    /\ reqrep = "active" /\ aborted = FALSE
    /\ view = [j \in Jobs |-> "unknown"]
    /\ alloc = [j \in Jobs |-> {}]
    /\ told_end = FALSE /\ end_register = "open"
    /\ calls = 0 /\ kills = 0 /\ unacked = 0
-----------------------------------------------------------------------------
(* The submitters.  Submission dates are abstracted, so a static submitter *)
(* sends any batch of its remaining jobs, and a workflow submitter any     *)
(* ready task.                                                             *)

serverSide == <<server_pc, counters, helpers, submitterCounters, loopVars,
                origin_of_jobs, jobs_to_be_deleted, proto_writer>>

SubmitterHello(s) ==
    /\ ~aborted /\ submitter_pc[s] = "start"
    /\ submitter_pc' = [submitter_pc EXCEPT ![s] = "submitting"]
    /\ Send("SUBMITTER_HELLO", s, {})
    /\ UNCHANGED <<serverSide, contextVars, jobVars, killers, sleeping, inbox,
                   todo, submitted_tasks, reqrep, aborted, schedVars>>

StaticSubmit(s, S) ==
    /\ s \notin Workflows
    /\ ~aborted /\ submitter_pc[s] = "submitting" /\ ~Blocked(s)
    /\ S # {} /\ S \subseteq todo[s]
    /\ todo' = [todo EXCEPT ![s] = @ \ S]
    /\ Send("JOB_SUBMITTED", s, S)
    /\ UNCHANGED <<serverSide, contextVars, jobVars, killers, sleeping, inbox,
                   submitted_tasks, submitter_pc, reqrep, aborted, schedVars>>

\* Tasks of workflow s whose parents have all completed.
ReadyTasks(s) ==
    {j \in todo[s] : Parents[j] \cap (todo[s] \cup submitted_tasks[s]) = {}}

\* The inner loop submits as long as it has ready tasks and the limit allows.
CanSubmitTask(s) ==
    /\ ReadyTasks(s) # {}
    /\ WorkflowLimit = 0 \/ Cardinality(submitted_tasks[s]) < WorkflowLimit

WorkflowSubmit(s, j) ==
    /\ s \in Workflows
    /\ ~aborted /\ submitter_pc[s] = "submitting" /\ ~Blocked(s)
    /\ CanSubmitTask(s) /\ j \in ReadyTasks(s)
    /\ todo' = [todo EXCEPT ![s] = @ \ {j}]
    /\ submitted_tasks' = [submitted_tasks EXCEPT ![s] = @ \cup {j}]
    /\ Send("JOB_SUBMITTED", s, {j})
    /\ UNCHANGED <<serverSide, contextVars, jobVars, killers, sleeping, inbox,
                   submitter_pc, reqrep, aborted, schedVars>>

\* wait_for_job_completion: the submitter reads one SUBMITTER_CALLBACK.
WorkflowCallback(s) ==
    /\ s \in Workflows
    /\ ~aborted /\ submitter_pc[s] = "submitting" /\ ~Blocked(s)
    /\ ~CanSubmitTask(s) /\ submitted_tasks[s] # {}
    /\ inbox[s] # <<>>
    /\ inbox' = [inbox EXCEPT ![s] = Tail(@)]
    /\ submitted_tasks' =
         [submitted_tasks EXCEPT ![s] = @ \ {Head(inbox[s])}]
    /\ UNCHANGED <<serverSide, contextVars, jobVars, mailbox, killers,
                   sleeping, todo, submitter_pc, reqrep, aborted, schedVars>>

SubmitterBye(s) ==
    /\ ~aborted /\ submitter_pc[s] = "submitting" /\ ~Blocked(s)
    /\ IF s \in Workflows
       THEN ReadyTasks(s) = {} /\ submitted_tasks[s] = {}
       ELSE todo[s] = {}
    /\ submitter_pc' = [submitter_pc EXCEPT ![s] = "bye"]
    /\ Send("SUBMITTER_BYE", s, {})
    /\ UNCHANGED <<serverSide, contextVars, jobVars, killers, sleeping, inbox,
                   todo, submitted_tasks, reqrep, aborted, schedVars>>
-----------------------------------------------------------------------------
(* The REQ-REP actor: it applies the decisions of the reply one by one,    *)
(* each with a blocking put, then sends SCHED_READY.  The decisions are    *)
(* the scheduler's, chosen from its view.                                  *)

Deciding == ~aborted /\ reqrep = "active" /\ ~Blocked("reqrep")

\* Machines the scheduler believes to be free.
FreeInView ==
    Machines \ UNION {alloc[j] : j \in {k \in Jobs : view[k] = "running"}}

notSched == <<serverSide, contextVars, killers, sleeping, submitterVars,
              reqrep>>

\* EXECUTE_JOB: handle_execute_job looks the job up (job_at).
SchedExecute(j, A) ==
    /\ Deciding /\ ~told_end /\ j \notin Driven
    /\ view[j] = "submitted"
    /\ A \subseteq FreeInView /\ Cardinality(A) = Req[j]
    /\ view' = [view EXCEPT ![j] = "running"]
    /\ alloc' = [alloc EXCEPT ![j] = A]
    /\ Send("SCHED_EXECUTE_JOB", "reqrep", {j})
    /\ aborted' = (j \in deleted)
    /\ UNCHANGED <<notSched, jobVars, told_end, end_register, calls, kills,
                   unacked>>

SchedReject(j) ==
    /\ Deciding /\ ~told_end /\ j \in MayReject
    /\ view[j] = "submitted"
    /\ view' = [view EXCEPT ![j] = "done"]
    /\ \/ j \notin Driven /\ Send("SCHED_REJECT_JOB", "reqrep", {j})
       \/ j \in Driven /\ Send("CHANGE_TO_REJECTED", "reqrep", {j})
    /\ UNCHANGED <<notSched, jobVars, aborted, alloc, told_end, end_register,
                   calls, kills, unacked>>

SchedKill(K) ==
    /\ Deciding /\ ~told_end
    /\ K # {} /\ K \subseteq {j \in MayKill : view[j] = "running"}
    /\ kills < MaxKills
    /\ kills' = kills + 1 /\ unacked' = unacked + 1
    /\ Send("SCHED_KILL_JOB", "reqrep", K)
    /\ UNCHANGED <<notSched, jobVars, aborted, view, alloc, told_end,
                   end_register, calls>>

SchedCallMeLater ==
    /\ Deciding /\ ~told_end /\ calls < MaxCalls
    /\ calls' = calls + 1
    /\ Send("SCHED_CALL_ME_LATER", "reqrep", {})
    /\ UNCHANGED <<notSched, jobVars, aborted, view, alloc, told_end,
                   end_register, kills, unacked>>

\* CHANGE_JOB_STATE for the jobs the scheduler drives itself.
SchedChangeState(j) ==
    /\ Deciding /\ ~told_end /\ j \in Driven
    /\ \/ /\ view[j] = "submitted"
          /\ view' = [view EXCEPT ![j] = "driven"]
          /\ Send("CHANGE_TO_RUNNING", "reqrep", {j})
       \/ /\ view[j] = "driven"
          /\ view' = [view EXCEPT ![j] = "done"]
          /\ Send("CHANGE_TO_COMPLETED", "reqrep", {j})
    /\ UNCHANGED <<notSched, jobVars, aborted, alloc, told_end, end_register,
                   calls, kills, unacked>>

\* REGISTER_JOB: handle_register_job adds the job to its workload in state
\* SUBMITTED, then tells the server.
SchedRegister(j) ==
    /\ Deciding /\ ~told_end /\ end_register \in {"open", "reopened"}
    /\ j \in DynJobs /\ view[j] = "unknown"
    /\ view' = [view EXCEPT ![j] =
                  IF RegistrationAck THEN "registered" ELSE "submitted"]
    /\ job_state' = [job_state EXCEPT ![j] = "submitted"]
    /\ aborted' = registration_sched_finished
    /\ Send("JOB_REGISTERED_BY_DP", "reqrep", {j})
    /\ UNCHANGED <<notSched, actor, jobs_being_computed, alloc, told_end,
                   end_register, calls, kills, unacked>>

\* NOTIFY registration_finished / continue_registration.  Bound: the
\* scheduler reopens registration at most once.
SchedNotifyRegistration ==
    /\ Deciding /\ ~told_end /\ RegistrationEnabled
    /\ \/ /\ end_register \in {"open", "reopened"}
          /\ end_register' = IF end_register = "open" THEN "ended" ELSE "closed"
          /\ Send("END_DYNAMIC_REGISTER", "reqrep", {})
       \/ /\ end_register = "ended"
          /\ end_register' = "reopened"
          /\ Send("CONTINUE_DYNAMIC_REGISTER", "reqrep", {})
    /\ UNCHANGED <<notSched, jobVars, aborted, view, alloc, told_end, calls,
                   kills, unacked>>

\* What a scheduler that does not idle still has to do before it answers.
NothingToDecide ==
    \/ told_end
    \/ /\ \A j \in Jobs : /\ view[j] # "driven"
                          /\ view[j] = "submitted" =>
                               /\ j \notin Driven
                               /\ Cardinality(FreeInView) < Req[j]
       /\ \/ ~RegistrationEnabled \/ end_register \in {"ended", "closed"}
          \/ \E j \in Jobs : view[j] = "running"

SchedReady ==
    /\ Deciding
    /\ Eager => NothingToDecide
    /\ reqrep' = "none"
    /\ Send("SCHED_READY", "reqrep", {})
    /\ UNCHANGED <<serverSide, contextVars, jobVars, killers, sleeping,
                   submitterVars, aborted, schedVars>>
-----------------------------------------------------------------------------
(* The job execution actors, the killers and the waiters.                  *)

\* update_machines_on_job_end for the jobs J.
MachinesOnJobEnd_Forgotten(J) == UNCHANGED jobs_being_computed
MachinesOnJobEnd(J) ==
    jobs_being_computed' =
        [m \in Machines |-> jobs_being_computed[m] \ {j \in J : m \in alloc[j]}]

\* Its assertions: each job is being computed on each of its machines.
NotComputed(J) ==
    \E j \in J : \E m \in alloc[j] : j \notin jobs_being_computed[m]

\* execute_job_process up to execute_task: update_machines_on_job_run.
JobStart(j) ==
    /\ ~aborted /\ actor[j] = "spawned"
    /\ actor' = [actor EXCEPT ![j] = "executing"]
    /\ jobs_being_computed' =
         [m \in Machines |-> IF m \in alloc[j]
                             THEN jobs_being_computed[m] \cup {j}
                             ELSE jobs_being_computed[m]]
    /\ UNCHANGED <<serverSide, contextVars, job_state, mailbox, killers,
                   sleeping, submitterVars, reqrep, aborted, schedVars>>

\* The task ends by itself (success, failure or walltime).
JobEnd(j) ==
    /\ ~aborted /\ actor[j] = "executing"
    /\ actor' = [actor EXCEPT ![j] = "done"]
    /\ job_state' = [job_state EXCEPT ![j] = "completed"]
    /\ MachinesOnJobEnd({j}) /\ aborted' = NotComputed({j})
    /\ Send("JOB_COMPLETED", "job", {j})
    /\ UNCHANGED <<serverSide, contextVars, killers, sleeping, submitterVars,
                   reqrep, schedVars>>

\* The parallel task was cancelled: return code -2.  Nothing is sent, the
\* completion is managed in server_on_killing_done.
JobCancelled(j) ==
    /\ ~aborted /\ actor[j] = "cancelled"
    /\ actor' = [actor EXCEPT ![j] = "done"]
    /\ job_state' = [job_state EXCEPT ![j] = "killed"]
    /\ MachinesOnJobEnd({j}) /\ aborted' = NotComputed({j})
    /\ UNCHANGED <<serverSide, contextVars, mailbox, killers, sleeping,
                   submitterVars, reqrep, schedVars>>

StillRunning(K) == {j \in K : job_state[j] = "running"}

\* killer_process: parallel tasks are cancelled, other actors are killed.
KillerProcess(K) ==
    LET running == StillRunning(K)
        killed == running \ Ptasks
    IN /\ ~aborted /\ K \in killers
       /\ killers' = killers \ {K}
       /\ aborted' = \/ \E j \in K : \/ j \in deleted
                                      \/ job_state[j] \in {"rejected",
                                           "submitted", "not_submitted"}
                     \/ NotComputed(killed)
       /\ actor' = [j \in Jobs |->
                      IF j \in killed THEN "done"
                      ELSE IF j \in running THEN "cancelled" ELSE actor[j]]
       /\ job_state' = [j \in Jobs |-> IF j \in killed THEN "killed"
                                       ELSE job_state[j]]
       /\ MachinesOnJobEnd(killed)
       /\ Send("KILLING_DONE", "killer", K)
       /\ UNCHANGED <<serverSide, contextVars, sleeping, submitterVars, reqrep,
                      schedVars>>

\* waiter_process once its date is reached.
WaiterProcess ==
    /\ ~aborted /\ sleeping > 0
    /\ sleeping' = sleeping - 1
    /\ IF end_of_simulation_sent
       THEN UNCHANGED mailbox
       ELSE Send("WAITING_DONE", "waiter", {})
    /\ UNCHANGED <<serverSide, contextVars, jobVars, killers, submitterVars,
                   reqrep, aborted, schedVars>>
-----------------------------------------------------------------------------
(* The server: it takes one message, runs its handler, then executes the   *)
(* tail of its loop.                                                       *)

Receive(type) ==
    /\ ~aborted /\ server_pc = "receive" /\ ~end_of_simulation_ack_received
    /\ NoActorReady
    /\ mailbox # <<>> /\ Head(mailbox).type = type
    /\ mailbox' = Tail(mailbox)
    /\ server_pc' = "tail"

\* The jobs and the sender named by the message being handled.
MsgJobs == Head(mailbox).jobs
MsgFrom == Head(mailbox).from

\* What most handlers leave alone.
actorVars == <<actor, jobs_being_computed, sleeping, submitterVars, reqrep,
               schedVars>>

server_on_submitter_hello ==
    /\ Receive("SUBMITTER_HELLO")
    /\ aborted' = (end_of_simulation_sent \/ MsgFrom \in submitters)
    /\ submitters' = submitters \cup {MsgFrom}
    /\ UNCHANGED <<counters, helpers, nb_submitters_finished,
                   nb_workflow_submitters_finished, loopVars, origin_of_jobs,
                   jobs_to_be_deleted, proto_writer, contextVars, job_state,
                   killers, actorVars>>

server_on_submitter_bye ==
    /\ Receive("SUBMITTER_BYE")
    /\ aborted' = (MsgFrom \notin submitters)
    /\ submitters' = submitters \ {MsgFrom}
    /\ nb_submitters_finished' = nb_submitters_finished + 1
    /\ proto_writer' =
         IF nb_submitters_finished + 1 = Cardinality(Submitters)
         THEN proto_writer \o Evt("NO_MORE_STATIC_JOB", {})
         ELSE proto_writer
    /\ nb_workflow_submitters_finished' =
         nb_workflow_submitters_finished + (IF MsgFrom \in Workflows THEN 1 ELSE 0)
    /\ UNCHANGED <<counters, helpers, loopVars, origin_of_jobs,
                   jobs_to_be_deleted, contextVars, job_state, killers,
                   actorVars>>

\* -k: every submission is ignored once all the workflows have finished.
IgnoreSubmission ==
    /\ Workflows # {} /\ TerminateWithLastWorkflow
    /\ nb_workflow_submitters_finished = Cardinality(Workflows)

server_on_job_submitted ==
    /\ Receive("JOB_SUBMITTED")
    /\ \/ /\ IgnoreSubmission
          /\ UNCHANGED <<aborted, origin_of_jobs, job_state, nb_submitted_jobs,
                         proto_writer>>
       \/ /\ ~IgnoreSubmission
          /\ aborted' = \/ MsgFrom \notin submitters
                        \/ MsgFrom \in Workflows /\ MsgJobs \cap origin_of_jobs # {}
          /\ origin_of_jobs' = IF MsgFrom \in Workflows
                               THEN origin_of_jobs \cup MsgJobs
                               ELSE origin_of_jobs
          /\ job_state' = [j \in Jobs |-> IF j \in MsgJobs THEN "submitted"
                                          ELSE job_state[j]]
          /\ nb_submitted_jobs' = nb_submitted_jobs + Cardinality(MsgJobs)
          /\ proto_writer' = proto_writer \o Evt("JOB_SUBMITTED", MsgJobs)
    /\ UNCHANGED <<nb_running_jobs, nb_completed_jobs, nb_killed_jobs, helpers,
                   submitterCounters, loopVars, jobs_to_be_deleted,
                   contextVars, killers, actorVars>>

server_on_register_job ==
    /\ Receive("JOB_REGISTERED_BY_DP")
    /\ nb_submitted_jobs' = nb_submitted_jobs + 1
    /\ proto_writer' = IF RegistrationAck
                       THEN proto_writer \o Evt("JOB_SUBMITTED", MsgJobs)
                       ELSE proto_writer
    /\ UNCHANGED <<nb_running_jobs, nb_completed_jobs, nb_killed_jobs, helpers,
                   submitterCounters, loopVars, origin_of_jobs,
                   jobs_to_be_deleted, contextVars, job_state, killers,
                   aborted, actorVars>>

\* jobs_to_be_deleted.push_back for every job of J.
MarkForDeletion(J) ==
    jobs_to_be_deleted' =
        [j \in Jobs |-> jobs_to_be_deleted[j] + (IF j \in J THEN 1 ELSE 0)]

\* SUBMITTER_CALLBACK to the submitter that wants to hear of job j.
CallBackOrigin_Forgotten(j) == UNCHANGED inbox
CallBackOrigin(j) ==
    inbox' = [s \in Submitters |->
                IF j \in origin_of_jobs \cap JobsOf[s]
                THEN Append(inbox[s], j) ELSE inbox[s]]

server_on_job_completed ==
    /\ Receive("JOB_COMPLETED")
    /\ origin_of_jobs' = origin_of_jobs \ MsgJobs
    /\ \E j \in MsgJobs : CallBackOrigin(j)
    /\ nb_running_jobs' = nb_running_jobs - 1
    /\ nb_completed_jobs' = nb_completed_jobs + 1
    /\ aborted' = \/ nb_running_jobs < 1
                  \/ nb_completed_jobs + nb_running_jobs > nb_submitted_jobs
    /\ proto_writer' = proto_writer \o Evt("JOB_COMPLETED", MsgJobs)
    /\ MarkForDeletion(MsgJobs)
    /\ UNCHANGED <<nb_submitted_jobs, nb_killed_jobs, helpers,
                   submitterCounters, loopVars, contextVars, jobVars, killers,
                   sleeping, todo, submitted_tasks, submitter_pc, reqrep,
                   schedVars>>

KillingDoneEvents(killed, J) ==
    (IF killed = {} THEN <<>> ELSE Evt("JOB_COMPLETED", killed))
    \o Evt("JOB_KILLED", J)

\* Only the jobs whose state is COMPLETED_KILLED are accounted here: the
\* others ended by themselves and have their own JOB_COMPLETED message.
CountKilled_NotCompleted(n) ==
    /\ nb_running_jobs' = nb_running_jobs - n
    /\ nb_completed_jobs' = nb_completed_jobs
    /\ nb_killed_jobs' = nb_killed_jobs + n
CountKilled(n) ==
    /\ nb_running_jobs' = nb_running_jobs - n
    /\ nb_completed_jobs' = nb_completed_jobs + n
    /\ nb_killed_jobs' = nb_killed_jobs + n

server_on_killing_done ==
    /\ Receive("KILLING_DONE")
    /\ LET killed == {j \in MsgJobs : job_state[j] = "killed"}
           n == Cardinality(killed)
       IN /\ CountKilled(n)
          /\ aborted' = \/ MsgJobs \cap deleted # {}
                        \/ nb_running_jobs < n
                        \/ nb_completed_jobs + nb_running_jobs
                              > nb_submitted_jobs
          /\ proto_writer' = proto_writer \o KillingDoneEvents(killed, MsgJobs)
          /\ MarkForDeletion(killed)
    /\ nb_killers' = nb_killers - 1
    /\ UNCHANGED <<nb_submitted_jobs, nb_waiters, submitterCounters, loopVars,
                   origin_of_jobs, contextVars, job_state, killers, actorVars>>

server_on_waiting_done ==
    /\ Receive("WAITING_DONE")
    /\ proto_writer' = proto_writer \o Evt("REQUESTED_CALL", {})
    /\ nb_waiters' = nb_waiters - 1
    /\ UNCHANGED <<counters, nb_killers, submitterCounters, loopVars,
                   origin_of_jobs, jobs_to_be_deleted, contextVars, job_state,
                   killers, aborted, actorVars>>

server_on_sched_ready ==
    /\ Receive("SCHED_READY")
    /\ sched_ready' = TRUE
    /\ end_of_simulation_ack_received' = end_of_simulation_sent
    /\ UNCHANGED <<counters, helpers, submitterCounters,
                   end_of_simulation_sent, origin_of_jobs, jobs_to_be_deleted,
                   proto_writer, contextVars, job_state, killers, aborted,
                   actorVars>>

server_on_execute_job ==
    /\ Receive("SCHED_EXECUTE_JOB")
    /\ \E j \in MsgJobs :
         /\ aborted' = \/ job_state[j] # "submitted"
                       \/ nb_running_jobs + 1 > nb_submitted_jobs
                       \/ \E m \in alloc[j] : jobs_being_computed[m] # {}
                       \/ Cardinality(alloc[j]) # Req[j]
         /\ job_state' = [job_state EXCEPT ![j] = "running"]
         /\ actor' = [actor EXCEPT ![j] = "spawned"]
    /\ nb_running_jobs' = nb_running_jobs + 1
    /\ UNCHANGED <<nb_submitted_jobs, nb_completed_jobs, nb_killed_jobs,
                   helpers, submitterCounters, loopVars, origin_of_jobs,
                   jobs_to_be_deleted, proto_writer, contextVars,
                   jobs_being_computed, killers, sleeping, submitterVars,
                   reqrep, schedVars>>

server_on_reject_job ==
    /\ Receive("SCHED_REJECT_JOB")
    /\ \E j \in MsgJobs :
         /\ aborted' = (j \in deleted \/ job_state[j] # "submitted")
         /\ job_state' = [job_state EXCEPT ![j] = "rejected"]
    /\ nb_completed_jobs' = nb_completed_jobs + 1
    /\ MarkForDeletion(MsgJobs)
    /\ UNCHANGED <<nb_submitted_jobs, nb_running_jobs, nb_killed_jobs, helpers,
                   submitterCounters, loopVars, origin_of_jobs, proto_writer,
                   contextVars, killers, actorVars>>

\* Jobs whose kill has already been requested are discarded.
server_on_kill_jobs ==
    /\ Receive("SCHED_KILL_JOB")
    /\ LET to_kill == MsgJobs \ kill_requested
       IN /\ aborted' = \/ MsgJobs \cap deleted # {}
                        \/ \E j \in to_kill : job_state[j] # "running"
                                              /\ ~IsComplete(j)
          /\ kill_requested' = kill_requested \cup to_kill
          /\ killers' = IF to_kill = {} THEN killers
                        ELSE killers \cup {to_kill}
          /\ nb_killers' = nb_killers + (IF to_kill = {} THEN 0 ELSE 1)
    /\ UNCHANGED <<counters, nb_waiters, submitterCounters, loopVars,
                   origin_of_jobs, jobs_to_be_deleted, proto_writer,
                   registration_sched_finished, deleted, job_state, actorVars>>

server_on_call_me_later ==
    /\ Receive("SCHED_CALL_ME_LATER")
    /\ sleeping' = sleeping + 1
    /\ nb_waiters' = nb_waiters + 1
    /\ UNCHANGED <<counters, nb_killers, submitterCounters, loopVars,
                   origin_of_jobs, jobs_to_be_deleted, proto_writer,
                   contextVars, jobVars, killers, submitterVars, reqrep,
                   aborted, schedVars>>

\* CHANGE_JOB_STATE: the two transitions of a submitted job and the one of a
\* running job that the handler accepts.
server_on_change_job_state ==
    /\ \/ /\ Receive("CHANGE_TO_RUNNING")
          /\ job_state' = [j \in Jobs |-> IF j \in MsgJobs THEN "running"
                                          ELSE job_state[j]]
          /\ nb_running_jobs' = nb_running_jobs + 1
          /\ aborted' = \/ \E j \in MsgJobs : job_state[j] # "submitted"
                        \/ MsgJobs \cap deleted # {}
                        \/ nb_running_jobs + 1 > nb_submitted_jobs
          /\ UNCHANGED <<nb_completed_jobs, jobs_to_be_deleted>>
       \/ /\ Receive("CHANGE_TO_REJECTED")
          /\ job_state' = [j \in Jobs |-> IF j \in MsgJobs THEN "rejected"
                                          ELSE job_state[j]]
          /\ nb_completed_jobs' = nb_completed_jobs + 1
          /\ aborted' = \/ \E j \in MsgJobs : job_state[j] # "submitted"
                        \/ MsgJobs \cap deleted # {}
                        \/ nb_completed_jobs + 1 + nb_running_jobs
                              > nb_submitted_jobs
          /\ MarkForDeletion(MsgJobs)
          /\ UNCHANGED nb_running_jobs
       \/ /\ Receive("CHANGE_TO_COMPLETED")
          /\ job_state' = [j \in Jobs |-> IF j \in MsgJobs THEN "completed"
                                          ELSE job_state[j]]
          /\ nb_running_jobs' = nb_running_jobs - 1
          /\ nb_completed_jobs' = nb_completed_jobs + 1
          /\ aborted' = \/ \E j \in MsgJobs : job_state[j] # "running"
                        \/ MsgJobs \cap deleted # {}
                        \/ nb_running_jobs < 1
                        \/ nb_completed_jobs + nb_running_jobs
                              > nb_submitted_jobs
          /\ MarkForDeletion(MsgJobs)
    /\ UNCHANGED <<nb_submitted_jobs, nb_killed_jobs, helpers,
                   submitterCounters, loopVars, origin_of_jobs, proto_writer,
                   contextVars, killers, actorVars>>

\* server_on_end_dynamic_register and server_on_continue_dynamic_register.
server_on_dynamic_register ==
    /\ \/ /\ Receive("END_DYNAMIC_REGISTER")
          /\ registration_sched_finished' = TRUE
       \/ /\ Receive("CONTINUE_DYNAMIC_REGISTER")
          /\ registration_sched_finished' = FALSE
    /\ UNCHANGED <<counters, helpers, submitterCounters, loopVars,
                   origin_of_jobs, jobs_to_be_deleted, proto_writer,
                   kill_requested, deleted, job_state, killers, aborted,
                   actorVars>>
-----------------------------------------------------------------------------
(* The tail of the loop.                                                   *)

\* Mutants: the waiters, or the registration of dynamic jobs, are forgotten.
is_simulation_finished_NoWaiters ==
    /\ nb_submitters_finished = Cardinality(Submitters)
    /\ ~RegistrationEnabled \/ registration_sched_finished
    /\ nb_completed_jobs = nb_submitted_jobs
    /\ nb_running_jobs = 0 /\ nb_killers = 0

\* The code also waits for the event submitters and for machines that switch
\* their pstate.  Here there are neither: they are in BatsimMachines.
is_simulation_finished ==
    /\ nb_submitters_finished = Cardinality(Submitters)
    /\ ~RegistrationEnabled \/ registration_sched_finished
    /\ nb_completed_jobs = nb_submitted_jobs
    /\ nb_running_jobs = 0
    /\ nb_waiters = 0
    /\ nb_killers = 0

\* The jobs named by the events of a type in the buffer.
EventJobs(type) ==
    UNION {proto_writer[i].jobs :
             i \in {k \in DOMAIN proto_writer : proto_writer[k].type = type}}

\* What the scheduler learns from the buffered events.
Learn ==
    /\ view' = [j \in Jobs |->
                  CASE j \in EventJobs("JOB_COMPLETED") -> "done"
                    [] j \in EventJobs("JOB_SUBMITTED") -> "submitted"
                    [] OTHER -> view[j]]
    /\ unacked' = unacked - Cardinality({i \in DOMAIN proto_writer :
                                proto_writer[i].type = "JOB_KILLED"})

\* generate_and_send_message: a new REQ-REP actor carries the request.
CallScheduler_StillReady == reqrep' = "active" /\ UNCHANGED sched_ready
CallScheduler == reqrep' = "active" /\ sched_ready' = FALSE

\* generate_and_send_message, then delete_jobs: deleting a job twice
\* dereferences a job that is not there.
SendEvents ==
    /\ proto_writer # <<>>
    /\ CallScheduler
    /\ Learn
    /\ proto_writer' = <<>>
    /\ aborted' = \E j \in Jobs : \/ jobs_to_be_deleted[j] > 1
                                  \/ jobs_to_be_deleted[j] > 0 /\ j \in deleted
    /\ deleted' = deleted \cup {j \in Jobs : jobs_to_be_deleted[j] > 0}
    /\ jobs_to_be_deleted' = [j \in Jobs |-> 0]
    /\ UNCHANGED <<end_of_simulation_sent, told_end>>

SendSimulationEnds ==
    /\ proto_writer = <<>>
    /\ is_simulation_finished /\ ~end_of_simulation_sent
    /\ CallScheduler
    /\ end_of_simulation_sent' = TRUE /\ told_end' = TRUE
    /\ UNCHANGED <<view, unacked, proto_writer, aborted, deleted,
                   jobs_to_be_deleted>>

MayCallScheduler_AnyMailbox == sched_ready /\ ~end_of_simulation_ack_received
MayCallScheduler ==
    sched_ready /\ ~end_of_simulation_ack_received /\ mailbox = <<>>

ServerTail ==
    /\ ~aborted /\ server_pc = "tail"
    /\ server_pc' = "receive"
    /\ \/ MayCallScheduler /\ SendEvents
       \/ MayCallScheduler /\ SendSimulationEnds
       \/ /\ \/ ~MayCallScheduler
             \/ /\ proto_writer = <<>>
                /\ ~(is_simulation_finished /\ ~end_of_simulation_sent)
          /\ UNCHANGED <<reqrep, sched_ready, end_of_simulation_sent, told_end,
                         view, unacked, proto_writer, aborted, deleted,
                         jobs_to_be_deleted>>
    /\ UNCHANGED <<counters, helpers, submitterCounters,
                   end_of_simulation_ack_received, origin_of_jobs,
                   registration_sched_finished, kill_requested, jobVars,
                   mailbox, killers, sleeping, submitterVars, alloc,
                   end_register, calls, kills>>

\* The loop is left: the assertions at the end of server_process.
ServerExit ==
    /\ ~aborted
    /\ end_of_simulation_ack_received /\ server_pc = "receive"
    /\ server_pc' = "exited"
    /\ aborted' = ~(/\ end_of_simulation_sent /\ sched_ready
                    /\ nb_running_jobs = 0 /\ nb_killers = 0 /\ nb_waiters = 0
                    /\ nb_completed_jobs = nb_submitted_jobs)
    /\ UNCHANGED <<counters, helpers, submitterCounters, loopVars,
                   origin_of_jobs, jobs_to_be_deleted, proto_writer,
                   contextVars, jobVars, mailbox, killers, sleeping,
                   submitterVars, reqrep, schedVars>>

\* The simulation is over.
Finished == server_pc = "exited" /\ UNCHANGED vars
-----------------------------------------------------------------------------
ServerStep ==
    \/ server_on_submitter_hello \/ server_on_submitter_bye
    \/ server_on_job_submitted \/ server_on_register_job
    \/ server_on_job_completed \/ server_on_killing_done
    \/ server_on_waiting_done \/ server_on_sched_ready
    \/ server_on_execute_job \/ server_on_reject_job
    \/ server_on_kill_jobs \/ server_on_call_me_later
    \/ server_on_change_job_state \/ server_on_dynamic_register
    \/ ServerTail \/ ServerExit

SubmitterStep ==
    \E s \in Submitters :
        \/ SubmitterHello(s) \/ SubmitterBye(s) \/ WorkflowCallback(s)
        \/ \E S \in SUBSET JobsOf[s] : StaticSubmit(s, S)
        \/ \E j \in JobsOf[s] : WorkflowSubmit(s, j)

SchedulerStep ==
    \/ \E j \in Jobs : \/ \E A \in SUBSET Machines : SchedExecute(j, A)
                       \/ SchedReject(j) \/ SchedChangeState(j)
                       \/ SchedRegister(j)
    \/ \E K \in SUBSET Jobs : SchedKill(K)
    \/ SchedCallMeLater \/ SchedNotifyRegistration \/ SchedReady

ActorStep ==
    \/ \E j \in Jobs : JobStart(j) \/ JobEnd(j) \/ JobCancelled(j)
    \/ \E K \in SUBSET Jobs : KillerProcess(K)
    \/ WaiterProcess

Next == ServerStep \/ SubmitterStep \/ SchedulerStep \/ ActorStep \/ Finished

Spec == Init /\ [][Next]_vars

\* SimGrid runs every actor that is ready, tasks and sleeps end, and the
\* scheduler answers: no component stops while it can make a step.
FairSpec == Spec /\ WF_vars(Next)
-----------------------------------------------------------------------------
(* Properties.                                                             *)

\* The types of ServerData, of the context and of the actors.  Each message of
\* the mailbox has a sender that may send it; a counter that is decremented
\* once too often shows in CountersAgree.
TypeOK ==
    /\ server_pc \in {"receive", "tail", "exited"}
    /\ nb_submitted_jobs \in Int /\ nb_running_jobs \in Int
    /\ nb_completed_jobs \in Int /\ nb_killed_jobs \in Int
    /\ nb_killers \in Int /\ nb_waiters \in Int
    /\ nb_submitters_finished \in Nat
    /\ nb_workflow_submitters_finished \in Nat
    /\ sched_ready \in BOOLEAN /\ end_of_simulation_sent \in BOOLEAN
    /\ end_of_simulation_ack_received \in BOOLEAN
    /\ submitters \subseteq Submitters /\ origin_of_jobs \subseteq Jobs
    /\ jobs_to_be_deleted \in [Jobs -> Nat]
    /\ proto_writer \in Seq(Event)
    /\ registration_sched_finished \in BOOLEAN
    /\ job_state \in [Jobs -> JobState]
    /\ kill_requested \subseteq Jobs /\ deleted \subseteq Jobs
    /\ jobs_being_computed \in [Machines -> SUBSET Jobs]
    /\ mailbox \in Seq(Message)
    /\ inbox \in [Submitters -> Seq(Jobs)]
    /\ actor \in [Jobs -> {"none", "spawned", "executing", "cancelled", "done"}]
    /\ killers \subseteq SUBSET Jobs /\ sleeping \in Nat
    /\ todo \in [Submitters -> SUBSET Jobs]
    /\ submitted_tasks \in [Submitters -> SUBSET Jobs]
    /\ submitter_pc \in [Submitters -> {"start", "submitting", "bye"}]
    /\ reqrep \in {"none", "active"} /\ aborted \in BOOLEAN
    /\ view \in [Jobs -> {"unknown", "registered", "submitted", "running",
                          "driven", "done"}]
    /\ alloc \in [Jobs -> SUBSET Machines]
    /\ told_end \in BOOLEAN
    /\ end_register \in {"open", "ended", "reopened", "closed"}
    /\ calls \in Nat /\ kills \in Nat /\ unacked \in Int

\* No xbt_assert of the server, of the job actors or of the killers fires,
\* whatever a scheduler does that follows from the messages it received: a
\* decision taken before the scheduler hears of a completion is harmless,
\* and so are the assertions at the end of server_process.
NoAssertionFails == ~aborted

MailJobs(type) ==
    UNION {mailbox[i].jobs :
             i \in {k \in DOMAIN mailbox : mailbox[k].type = type}}

NbMessages(type) ==
    Cardinality({k \in DOMAIN mailbox : mailbox[k].type = type})

InState(S) == {j \in Jobs : job_state[j] \in S}

\* Jobs that ended and whose end the server has not accounted yet.
EndInFlight ==
    {j \in InState({"completed"}) : j \in MailJobs("JOB_COMPLETED")}
    \cup {j \in InState({"killed"}) : j \in MailJobs("KILLING_DONE")}

\* The counters of ServerData agree with the jobs, the helpers and the
\* messages in flight: each completion, rejection and kill is counted once,
\* whichever of the job actor and the killer ends the job.
CountersAgree ==
    /\ nb_submitted_jobs = Cardinality((Jobs \ InState({"not_submitted"}))
                                         \ MailJobs("JOB_REGISTERED_BY_DP"))
    /\ nb_running_jobs = Cardinality(InState({"running"}) \cup EndInFlight)
    /\ nb_completed_jobs =
         Cardinality(InState({"completed", "killed", "rejected"}) \ EndInFlight)
    /\ nb_killed_jobs = Cardinality(InState({"killed"}) \ EndInFlight)
    /\ nb_killers = Cardinality(killers) + NbMessages("KILLING_DONE")
    /\ nb_waiters = sleeping + NbMessages("WAITING_DONE")

\* The scheduler has at most one request to answer: it is ready exactly when
\* no REQ-REP actor runs and no SCHED_READY is on its way, never both, and
\* at most one decision of that actor is in the mailbox.
OneRequestAtATime ==
    /\ sched_ready <=> /\ reqrep = "none"
                       /\ \A i \in DOMAIN mailbox :
                            mailbox[i].type # "SCHED_READY"
    /\ reqrep = "active" => \A i \in DOMAIN mailbox :
                              mailbox[i].type # "SCHED_READY"
    /\ \A i, k \in DOMAIN mailbox :
         mailbox[i].from = "reqrep" /\ mailbox[k].from = "reqrep"
         => i = k /\ ~sched_ready

\* SIMULATION_ENDS is sent when nothing is left: no message but the answer,
\* no actor and no submitter can reach the server afterwards.
EndIsFinal ==
    end_of_simulation_sent =>
        /\ \A i \in DOMAIN mailbox : mailbox[i].type = "SCHED_READY"
        /\ killers = {} /\ sleeping = 0 /\ proto_writer = <<>>
        /\ \A j \in Jobs : actor[j] \in {"none", "done"}
        /\ \A s \in Submitters : submitter_pc[s] = "bye"

\* What the scheduler believes free is free: no two jobs ever compute on one
\* machine, and a machine is released before its release can be told.
FreeInViewIsFree ==
    /\ \A m \in FreeInView : jobs_being_computed[m] = {}
    /\ \A m \in Machines : Cardinality(jobs_being_computed[m]) <= 1

\* With a scheduler that does not idle, the simulation ends.
SimulationEnds == <>(server_pc = "exited")

=============================================================================
