------------------------- MODULE BatsimServerProofs -------------------------
(***************************************************************************)
(* The Batsim server, for every set of jobs, machines and submitters: its  *)
(* types, one request at a time, no assertion fires, the counters agree    *)
(* with the jobs, no machine computes two jobs, SIMULATION_ENDS is final.  *)
(* The last four are proved together, from an invariant that follows each  *)
(* job, each kill request, each submitter and each message from their      *)
(* start to their end.                                                     *)
(***************************************************************************)
EXTENDS BatsimServer, FiniteSetTheorems, TLAPS

\* The groups of variables that the actions leave alone.
USE DEF serverSide, counters, helpers, submitterCounters, loopVars,
        contextVars, jobVars, submitterVars, schedVars, actorVars, notSched
-----------------------------------------------------------------------------
(* Type correctness.                                                       *)

\* Every set of jobs has a natural number of elements.
LEMMA JobSetSize ==
  ASSUME NEW S \in SUBSET Jobs PROVE Cardinality(S) \in Nat
<1>1. IsFiniteSet(S)
  BY FS_Subset, ServerAssumption DEF ServerAssumption
<1> QED BY <1>1, FS_CardinalityType

\* Sending a message keeps the mailbox well typed.
LEMMA SendType ==
  ASSUME mailbox \in Seq(Message), NEW type, NEW from, NEW jobs,
         Msg(type, from, jobs) \in Message, Send(type, from, jobs)
  PROVE  mailbox' \in Seq(Message)
BY DEF Send

\* The messages of each sender are messages.
LEMMA MessageType ==
  ASSUME NEW jobs \in SUBSET Jobs
  PROVE  /\ \A s \in Submitters, t \in FromSubmitter : Msg(t, s, jobs) \in Message
         /\ \A t \in Decisions : Msg(t, "reqrep", jobs) \in Message
         /\ Msg("JOB_COMPLETED", "job", jobs) \in Message
         /\ Msg("KILLING_DONE", "killer", jobs) \in Message
         /\ Msg("WAITING_DONE", "waiter", jobs) \in Message
BY DEF Msg, Message

\* Receiving leaves a well typed mailbox and names known jobs; the sender of
\* a submitter's message is a submitter.
LEMMA ReceiveType ==
  ASSUME mailbox \in Seq(Message), NEW type, Receive(type)
  PROVE  /\ mailbox' \in Seq(Message) /\ server_pc' = "tail"
         /\ MsgJobs \in SUBSET Jobs
         /\ type \in FromSubmitter => MsgFrom \in Submitters
<1>1. mailbox # <<>> /\ mailbox' = Tail(mailbox) /\ server_pc' = "tail"
      /\ Head(mailbox).type = type
  BY DEF Receive
<1>2. Head(mailbox) \in Message /\ Tail(mailbox) \in Seq(Message)
  BY <1>1
<1>3. Head(mailbox).jobs \in SUBSET Jobs
      /\ (type \in FromSubmitter => Head(mailbox).from \in Submitters)
  BY <1>1, <1>2 DEF Message, FromSubmitter, Decisions
<1> QED BY <1>1, <1>2, <1>3 DEF MsgJobs, MsgFrom

\* Buffering one event keeps the writer well typed.
LEMMA EventType ==
  ASSUME NEW w \in Seq(Event), NEW type \in EventTypes,
         NEW jobs \in SUBSET Jobs
  PROVE  /\ Evt(type, jobs) \in Seq(Event)
         /\ w \o Evt(type, jobs) \in Seq(Event)
BY DEF Evt, Event

\* The steps of the submitters keep the types.
LEMMA SubmitterType ==
  ASSUME TypeOK, NEW s \in Submitters,
         \/ SubmitterHello(s) \/ SubmitterBye(s) \/ WorkflowCallback(s)
         \/ \E S \in SUBSET JobsOf[s] : StaticSubmit(s, S)
         \/ \E j \in JobsOf[s] : WorkflowSubmit(s, j)
  PROVE  TypeOK'
<1> JobsOf[s] \subseteq Jobs 
  BY ServerAssumption DEF ServerAssumption
<1>1. CASE SubmitterHello(s)
  BY <1>1, SendType, MessageType DEF TypeOK, SubmitterHello, FromSubmitter
<1>2. CASE SubmitterBye(s)
  BY <1>2, SendType, MessageType DEF TypeOK, SubmitterBye, FromSubmitter
<1>3. CASE WorkflowCallback(s)
  BY <1>3 DEF TypeOK, WorkflowCallback
<1>4. ASSUME NEW S \in SUBSET JobsOf[s], StaticSubmit(s, S) PROVE TypeOK'
  BY <1>4, SendType, MessageType DEF TypeOK, StaticSubmit, FromSubmitter
<1>5. ASSUME NEW j \in JobsOf[s], WorkflowSubmit(s, j) PROVE TypeOK'
  <2>1. mailbox' \in Seq(Message)
    <3>1. Send("JOB_SUBMITTED", s, {j}) /\ {j} \in SUBSET Jobs
      BY <1>5 DEF WorkflowSubmit
    <3>2. Msg("JOB_SUBMITTED", s, {j}) \in Message
      BY <3>1, MessageType DEF FromSubmitter
    <3> QED BY <3>1, <3>2, SendType DEF TypeOK
  <2> QED BY <1>5, <2>1 DEF TypeOK, WorkflowSubmit
<1> QED BY <1>1, <1>2, <1>3, <1>4, <1>5

\* The decisions of the REQ-REP actor keep the types.
LEMMA SchedulerType ==
  ASSUME TypeOK, SchedulerStep PROVE TypeOK'
<1>1. ASSUME NEW j \in Jobs, NEW A \in SUBSET Machines, SchedExecute(j, A)
      PROVE  TypeOK'
  BY <1>1, SendType, MessageType DEF TypeOK, SchedExecute, Decisions
<1>2. ASSUME NEW j \in Jobs, SchedReject(j) PROVE TypeOK'
  BY <1>2, SendType, MessageType DEF TypeOK, SchedReject, Decisions
<1>3. ASSUME NEW j \in Jobs, SchedChangeState(j) PROVE TypeOK'
  <2>1. mailbox' \in Seq(Message)
    BY <1>3, SendType, MessageType DEF TypeOK, SchedChangeState, Decisions
  <2>2. view' \in [Jobs -> {"unknown", "registered", "submitted", "running",
                            "driven", "done"}]
    BY <1>3 DEF TypeOK, SchedChangeState
  <2>3. UNCHANGED <<notSched, jobVars, aborted, alloc, told_end, end_register,
                    calls, kills, unacked>>
    BY <1>3 DEF SchedChangeState
  <2> QED BY <2>1, <2>2, <2>3 DEF TypeOK
<1>4. ASSUME NEW j \in Jobs, SchedRegister(j) PROVE TypeOK'
  BY <1>4, SendType, MessageType DEF TypeOK, SchedRegister, Decisions, JobState
<1>5. ASSUME NEW K \in SUBSET Jobs, SchedKill(K) PROVE TypeOK'
  BY <1>5, SendType, MessageType DEF TypeOK, SchedKill, Decisions
<1>6. CASE SchedCallMeLater
  BY <1>6, SendType, MessageType DEF TypeOK, SchedCallMeLater, Decisions
<1>7. CASE SchedNotifyRegistration
  BY <1>7, SendType, MessageType DEF TypeOK, SchedNotifyRegistration, Decisions
<1>8. CASE SchedReady
  BY <1>8, SendType, MessageType DEF TypeOK, SchedReady, Decisions
<1> QED BY <1>1, <1>2, <1>3, <1>4, <1>5, <1>6, <1>7, <1>8 DEF SchedulerStep

\* The job actors, the killers and the waiters keep the types.
LEMMA ActorType ==
  ASSUME TypeOK, ActorStep PROVE TypeOK'
<1>1. ASSUME NEW j \in Jobs, JobStart(j) PROVE TypeOK'
  BY <1>1 DEF TypeOK, JobStart
<1>2. ASSUME NEW j \in Jobs, JobEnd(j) PROVE TypeOK'
  BY <1>2, SendType, MessageType
     DEF TypeOK, JobEnd, MachinesOnJobEnd, NotComputed, Decisions, JobState
<1>3. ASSUME NEW j \in Jobs, JobCancelled(j) PROVE TypeOK'
  BY <1>3 DEF TypeOK, JobCancelled, MachinesOnJobEnd, NotComputed, JobState
<1>4. ASSUME NEW K \in SUBSET Jobs, KillerProcess(K) PROVE TypeOK'
  BY <1>4, SendType, MessageType
     DEF TypeOK, KillerProcess, StillRunning, MachinesOnJobEnd, NotComputed,
         Decisions, JobState
<1>5. CASE WaiterProcess
  BY <1>5, SendType, MessageType DEF TypeOK, WaiterProcess, Decisions
<1> QED BY <1>1, <1>2, <1>3, <1>4, <1>5 DEF ActorStep

\* The handlers that only count, buffer an event or set a flag.
LEMMA HandlerType ==
  ASSUME TypeOK,
         \/ server_on_submitter_hello \/ server_on_submitter_bye
         \/ server_on_register_job \/ server_on_waiting_done
         \/ server_on_sched_ready \/ server_on_call_me_later
         \/ server_on_dynamic_register
  PROVE  TypeOK'
<1>1. CASE server_on_submitter_hello
  BY <1>1, ReceiveType DEF TypeOK, server_on_submitter_hello, FromSubmitter
<1>2. CASE server_on_submitter_bye
  BY <1>2, ReceiveType, EventType
     DEF TypeOK, server_on_submitter_bye, FromSubmitter, EventTypes
<1>3. CASE server_on_register_job
  BY <1>3, ReceiveType, EventType
     DEF TypeOK, server_on_register_job, EventTypes
<1>4. CASE server_on_waiting_done
  BY <1>4, ReceiveType, EventType DEF TypeOK, server_on_waiting_done, EventTypes
<1>5. CASE server_on_sched_ready
  BY <1>5, ReceiveType DEF TypeOK, server_on_sched_ready
<1>6. CASE server_on_call_me_later
  BY <1>6, ReceiveType DEF TypeOK, server_on_call_me_later
<1>7. CASE server_on_dynamic_register
  BY <1>7, ReceiveType DEF TypeOK, server_on_dynamic_register
<1> QED BY <1>1, <1>2, <1>3, <1>4, <1>5, <1>6, <1>7

\* The handlers that change the state of jobs.
LEMMA JobHandlerType ==
  ASSUME TypeOK,
         \/ server_on_job_submitted \/ server_on_job_completed
         \/ server_on_killing_done \/ server_on_execute_job
         \/ server_on_reject_job \/ server_on_kill_jobs
         \/ server_on_change_job_state
  PROVE  TypeOK'
<1>1. CASE server_on_job_submitted
  <2>1. mailbox' \in Seq(Message) /\ server_pc' = "tail"
        /\ MsgJobs \in SUBSET Jobs
    BY <1>1, ReceiveType DEF TypeOK, server_on_job_submitted
  <2>2. Cardinality(MsgJobs) \in Nat
        /\ proto_writer \o Evt("JOB_SUBMITTED", MsgJobs) \in Seq(Event)
    BY <2>1, JobSetSize, EventType DEF TypeOK, EventTypes
  <2>3. /\ nb_submitted_jobs' \in Int /\ proto_writer' \in Seq(Event)
        /\ origin_of_jobs' \subseteq Jobs /\ aborted' \in BOOLEAN
    <3>1. CASE IgnoreSubmission
      BY <1>1, <3>1 DEF TypeOK, server_on_job_submitted
    <3>2. CASE ~IgnoreSubmission
      <4>1. /\ nb_submitted_jobs' = nb_submitted_jobs + Cardinality(MsgJobs)
            /\ proto_writer' = proto_writer \o Evt("JOB_SUBMITTED", MsgJobs)
            /\ origin_of_jobs' = IF MsgFrom \in Workflows
                                 THEN origin_of_jobs \cup MsgJobs
                                 ELSE origin_of_jobs
            /\ aborted' = (\/ MsgFrom \notin submitters
                           \/ MsgFrom \in Workflows
                              /\ MsgJobs \cap origin_of_jobs # {})
        BY <1>1, <3>2 DEF server_on_job_submitted
      <4>2. aborted' \in BOOLEAN
        BY <4>1, Zenon
      <4> QED BY <2>1, <2>2, <4>1, <4>2 DEF TypeOK
    <3> QED BY <3>1, <3>2
  <2>4. job_state' \in [Jobs -> JobState]
    BY <1>1 DEF TypeOK, server_on_job_submitted, JobState
  <2>5. UNCHANGED <<nb_running_jobs, nb_completed_jobs, nb_killed_jobs, helpers,
                    submitterCounters, loopVars, jobs_to_be_deleted,
                    contextVars, killers, actorVars>>
    BY <1>1 DEF server_on_job_submitted
  <2> QED BY <2>1, <2>3, <2>4, <2>5 DEF TypeOK
<1>2. CASE server_on_job_completed
  <2>1. mailbox' \in Seq(Message) /\ server_pc' = "tail"
        /\ MsgJobs \in SUBSET Jobs
    BY <1>2, ReceiveType DEF TypeOK, server_on_job_completed
  <2>2. proto_writer' \in Seq(Event)
    BY <1>2, <2>1, EventType DEF TypeOK, EventTypes, server_on_job_completed
  <2>3. inbox' \in [Submitters -> Seq(Jobs)]
    BY <1>2, <2>1 DEF TypeOK, server_on_job_completed, CallBackOrigin
  <2> QED BY <1>2, <2>1, <2>2, <2>3
          DEF TypeOK, server_on_job_completed, MarkForDeletion
<1>3. CASE server_on_killing_done
  <2> DEFINE killed == {j \in MsgJobs : job_state[j] = "killed"}
  <2>1. mailbox' \in Seq(Message) /\ server_pc' = "tail"
        /\ MsgJobs \in SUBSET Jobs
    BY <1>3, ReceiveType DEF TypeOK, server_on_killing_done
  <2>2. Cardinality(killed) \in Nat
    BY <2>1, JobSetSize
  <2>3. proto_writer' \in Seq(Event)
    <3>1. proto_writer' = proto_writer \o KillingDoneEvents(killed, MsgJobs)
      BY <1>3 DEF server_on_killing_done
    <3>2. KillingDoneEvents(killed, MsgJobs) \in Seq(Event)
      <4>1. Evt("JOB_KILLED", MsgJobs) \in Seq(Event)
            /\ Evt("JOB_COMPLETED", killed) \in Seq(Event)
        BY <2>1 DEF Evt, Event, EventTypes
      <4> QED BY <4>1 DEF KillingDoneEvents
    <3> QED BY <3>1, <3>2 DEF TypeOK
  <2>4. /\ nb_running_jobs' \in Int /\ nb_completed_jobs' \in Int
        /\ nb_killed_jobs' \in Int /\ nb_killers' \in Int
    BY <1>3, <2>2 DEF TypeOK, server_on_killing_done, CountKilled
  <2>5. jobs_to_be_deleted' \in [Jobs -> Nat] /\ aborted' \in BOOLEAN
    BY <1>3 DEF TypeOK, server_on_killing_done, MarkForDeletion
  <2>6. UNCHANGED <<nb_submitted_jobs, nb_waiters, submitterCounters, loopVars,
                    origin_of_jobs, contextVars, job_state, killers, actorVars>>
    BY <1>3 DEF server_on_killing_done
  <2> QED BY <2>1, <2>3, <2>4, <2>5, <2>6 DEF TypeOK
<1>4. CASE server_on_execute_job
  BY <1>4, ReceiveType DEF TypeOK, server_on_execute_job, JobState
<1>5. CASE server_on_reject_job
  BY <1>5, ReceiveType DEF TypeOK, server_on_reject_job, JobState, MarkForDeletion
<1>6. CASE server_on_kill_jobs
  BY <1>6, ReceiveType DEF TypeOK, server_on_kill_jobs
<1>7. CASE server_on_change_job_state
  <2>1. mailbox' \in Seq(Message) /\ server_pc' = "tail"
    BY <1>7, ReceiveType DEF TypeOK, server_on_change_job_state
  <2>2. job_state' \in [Jobs -> JobState] /\ aborted' \in BOOLEAN
    BY <1>7 DEF TypeOK, server_on_change_job_state, JobState
  <2>3. UNCHANGED <<nb_submitted_jobs, nb_killed_jobs, helpers,
                    submitterCounters, loopVars, origin_of_jobs, proto_writer,
                    contextVars, killers, actorVars>>
    BY <1>7 DEF server_on_change_job_state
  <2>4. /\ \/ UNCHANGED jobs_to_be_deleted \/ MarkForDeletion(MsgJobs)
        /\ nb_running_jobs' \in {nb_running_jobs - 1, nb_running_jobs,
                                 nb_running_jobs + 1}
        /\ nb_completed_jobs' \in {nb_completed_jobs, nb_completed_jobs + 1}
    BY <1>7, Zenon DEF server_on_change_job_state
  <2>5. jobs_to_be_deleted' \in [Jobs -> Nat]
    <3>1. CASE UNCHANGED jobs_to_be_deleted
      BY <3>1 DEF TypeOK
    <3>2. CASE MarkForDeletion(MsgJobs)
      BY <3>2 DEF TypeOK, MarkForDeletion
    <3> QED BY <2>4, <3>1, <3>2
  <2> QED BY <2>1, <2>2, <2>3, <2>4, <2>5 DEF TypeOK
<1> QED BY <1>1, <1>2, <1>3, <1>4, <1>5, <1>6, <1>7

\* The tail and the end of the loop.
LEMMA LoopType ==
  ASSUME TypeOK, ServerTail \/ ServerExit PROVE TypeOK'
<1>1. CASE ServerExit
  BY <1>1 DEF TypeOK, ServerExit
<1>2. CASE ServerTail
  <2>1. UNCHANGED <<counters, helpers, submitterCounters,
                    end_of_simulation_ack_received, origin_of_jobs,
                    registration_sched_finished, kill_requested, jobVars,
                    mailbox, killers, sleeping, submitterVars, alloc,
                    end_register, calls, kills>> /\ server_pc' = "receive"
    BY <1>2 DEF ServerTail
  <2>2. CASE SendEvents
    <3>1. /\ view' \in [Jobs -> {"unknown", "registered", "submitted",
                                  "running", "driven", "done"}]
      BY <2>2 DEF TypeOK, SendEvents, Learn
    <3>2. unacked' \in Int
      <4> DEFINE acks == {i \in DOMAIN proto_writer :
                            proto_writer[i].type = "JOB_KILLED"}
      <4>1. DOMAIN proto_writer = 1..Len(proto_writer) /\ Len(proto_writer) \in Nat
        BY DEF TypeOK
      <4>2. IsFiniteSet(1..Len(proto_writer))
        BY <4>1, FS_Interval
      <4>3. Cardinality(acks) \in Nat
        BY <4>1, <4>2, FS_Subset, FS_CardinalityType
      <4> QED BY <2>2, <4>3 DEF TypeOK, SendEvents, Learn
    <3>3. /\ proto_writer' \in Seq(Event) /\ deleted' \subseteq Jobs
          /\ jobs_to_be_deleted' \in [Jobs -> Nat] /\ aborted' \in BOOLEAN
          /\ UNCHANGED <<end_of_simulation_sent, told_end>>
      BY <2>2 DEF TypeOK, SendEvents
    <3>4. reqrep' = "active" /\ sched_ready' = FALSE
      BY <2>2 DEF SendEvents, CallScheduler
    <3> QED BY <2>1, <3>1, <3>2, <3>3, <3>4 DEF TypeOK
  <2>3. CASE SendSimulationEnds
    BY <2>1, <2>3 DEF TypeOK, SendSimulationEnds, CallScheduler
  <2>4. CASE UNCHANGED <<reqrep, sched_ready, end_of_simulation_sent, told_end,
                         view, unacked, proto_writer, aborted, deleted,
                         jobs_to_be_deleted>>
    BY <2>1, <2>4 DEF TypeOK
  <2> QED BY <1>2, <2>2, <2>3, <2>4 DEF ServerTail
<1> QED BY <1>1, <1>2

\* server_process starts in a well-typed state.
LEMMA TypeInit == Init => TypeOK
<1> SUFFICES ASSUME Init PROVE TypeOK
  OBVIOUS
<1>1. /\ proto_writer \in Seq(Event) /\ mailbox \in Seq(Message)
      /\ inbox \in [Submitters -> Seq(Jobs)]
  BY DEF Init
<1>2. todo \in [Submitters -> SUBSET Jobs]
  BY ServerAssumption DEF Init, ServerAssumption
<1>3. /\ job_state \in [Jobs -> JobState]
      /\ jobs_to_be_deleted \in [Jobs -> Nat]
  BY DEF Init, JobState
<1>4. /\ submitted_tasks \in [Submitters -> SUBSET Jobs]
      /\ submitter_pc \in [Submitters -> {"start", "submitting", "bye"}]
      /\ jobs_being_computed \in [Machines -> SUBSET Jobs]
      /\ alloc \in [Jobs -> SUBSET Machines]
  BY DEF Init
<1>5. /\ actor \in [Jobs -> {"none", "spawned", "executing", "cancelled",
                              "done"}]
      /\ view \in [Jobs -> {"unknown", "registered", "submitted", "running",
                             "driven", "done"}]
  BY DEF Init
<1>6. /\ {sched_ready, end_of_simulation_sent, end_of_simulation_ack_received,
          registration_sched_finished, aborted, told_end} \subseteq BOOLEAN
  BY Zenon DEF Init
<1> QED BY <1>1, <1>2, <1>3, <1>4, <1>5, <1>6 DEF Init, TypeOK

\* Every step keeps the types.
LEMMA TypeNext == TypeOK /\ [Next]_vars => TypeOK'
<1> SUFFICES ASSUME TypeOK, [Next]_vars PROVE TypeOK'
  OBVIOUS
<1>1. CASE ServerStep
  BY <1>1, HandlerType, JobHandlerType, LoopType DEF ServerStep
<1>2. CASE SubmitterStep
  BY <1>2, SubmitterType DEF SubmitterStep
<1>3. CASE SchedulerStep
  BY <1>3, SchedulerType
<1>4. CASE ActorStep
  BY <1>4, ActorType
<1>5. CASE UNCHANGED vars
  BY <1>5 DEF TypeOK, vars
<1> QED BY <1>1, <1>2, <1>3, <1>4, <1>5 DEF Next, Finished

\* Every field of the server, of its actors and of the scheduler's view keeps
\* its type, and each message of the mailbox comes from an actor that sends
\* messages of its kind.
THEOREM TypeCorrect == Spec => []TypeOK
BY TypeInit, TypeNext, PTL DEF Spec
-----------------------------------------------------------------------------
(* One request at a time.  With the types of the messages the invariant is *)
(* inductive: only the REQ-REP actor sends SCHED_READY, and its put blocks *)
(* until the server has taken the previous decision.                       *)

\* A message of another actor does not disturb the invariant.
LEMMA OtherSend ==
  ASSUME TypeOK, OneRequestAtATime, UNCHANGED <<reqrep, sched_ready>>,
         NEW t, NEW from, NEW jobs, Send(t, from, jobs),
         t # "SCHED_READY", from # "reqrep"
  PROVE  OneRequestAtATime'
<1>1. mailbox' = Append(mailbox, Msg(t, from, jobs)) /\ mailbox \in Seq(Message)
  BY DEF Send, TypeOK
<1>2. \A i \in DOMAIN mailbox' :
        \/ i \in DOMAIN mailbox /\ mailbox'[i] = mailbox[i]
        \/ mailbox'[i].type = t /\ mailbox'[i].from = from
  BY <1>1 DEF Msg
<1>3. \A i \in DOMAIN mailbox : i \in DOMAIN mailbox' /\ mailbox'[i] = mailbox[i]
  BY <1>1
<1> QED BY <1>2, <1>3 DEF OneRequestAtATime

\* A decision of the REQ-REP actor other than its last one.
LEMMA DecisionSend ==
  ASSUME TypeOK, OneRequestAtATime, UNCHANGED <<reqrep, sched_ready>>, Deciding,
         NEW t, NEW jobs, Send(t, "reqrep", jobs), t # "SCHED_READY"
  PROVE  OneRequestAtATime'
<1>1. mailbox' = Append(mailbox, Msg(t, "reqrep", jobs)) /\ mailbox \in Seq(Message)
  BY DEF Send, TypeOK
<1>2. \A i \in DOMAIN mailbox' :
        \/ i \in DOMAIN mailbox /\ mailbox'[i] = mailbox[i]
        \/ i = Len(mailbox) + 1 /\ mailbox'[i].type = t
  BY <1>1 DEF Msg
<1>3. reqrep = "active" /\ \A i \in DOMAIN mailbox : mailbox[i].from # "reqrep"
  BY DEF Deciding, Blocked
<1> QED BY <1>2, <1>3 DEF OneRequestAtATime

\* The server takes a message that is not SCHED_READY.
LEMMA OtherReceive ==
  ASSUME TypeOK, OneRequestAtATime, UNCHANGED <<reqrep, sched_ready>>,
         NEW t, Receive(t), t # "SCHED_READY"
  PROVE  OneRequestAtATime'
<1>1. /\ mailbox # <<>> /\ mailbox' = Tail(mailbox) /\ mailbox \in Seq(Message)
      /\ mailbox[1].type # "SCHED_READY"
  BY DEF Receive, TypeOK
<1>2. \A i \in DOMAIN mailbox' : i + 1 \in DOMAIN mailbox
                               /\ mailbox'[i] = mailbox[i + 1]
  BY <1>1
<1>3. \A i \in DOMAIN mailbox :
        i # 1 => i - 1 \in DOMAIN mailbox' /\ mailbox'[i - 1] = mailbox[i]
  <2> TAKE i \in DOMAIN mailbox
  <2> HAVE i # 1
  <2>1. i \in 2..Len(mailbox) /\ Len(Tail(mailbox)) = Len(mailbox) - 1
    BY <1>1
  <2>2. i - 1 \in 1..Len(Tail(mailbox)) /\ Tail(mailbox)[i - 1] = mailbox[i]
    BY <1>1, <2>1
  <2> QED BY <1>1, <2>2
<1>4. /\ (\A i \in DOMAIN mailbox : mailbox[i].type # "SCHED_READY")
         <=> (\A i \in DOMAIN mailbox' : mailbox'[i].type # "SCHED_READY")
  BY <1>1, <1>2, <1>3
<1>5. \A i, k \in DOMAIN mailbox' : i + 1 = k + 1 => i = k
  BY <1>1
<1> QED BY <1>2, <1>4, <1>5 DEF OneRequestAtATime

\* The server takes SCHED_READY: it was the only message of the REQ-REP actor.
LEMMA ReadyReceive ==
  ASSUME TypeOK, OneRequestAtATime, server_on_sched_ready
  PROVE  OneRequestAtATime'
<1>1. /\ mailbox # <<>> /\ mailbox' = Tail(mailbox) /\ mailbox \in Seq(Message)
      /\ mailbox[1].type = "SCHED_READY"
      /\ sched_ready' = TRUE /\ reqrep' = reqrep
  BY DEF server_on_sched_ready, Receive, TypeOK
<1>2. \A i \in DOMAIN mailbox' : i + 1 \in DOMAIN mailbox /\ i + 1 # 1
                               /\ mailbox'[i] = mailbox[i + 1]
  BY <1>1
<1>3. \A i \in DOMAIN mailbox :
        mailbox[i].type = "SCHED_READY" => mailbox[i].from = "reqrep"
  <2> TAKE i \in DOMAIN mailbox
  <2>1. mailbox[i] \in Message
    BY <1>1
  <2> QED BY <2>1 DEF Message, FromSubmitter, Decisions
<1>4. 1 \in DOMAIN mailbox /\ mailbox[1].from = "reqrep"
  BY <1>1, <1>3
<1>5. \A i \in DOMAIN mailbox' : mailbox'[i].from # "reqrep"
  BY <1>2, <1>4 DEF OneRequestAtATime
<1>6. \A i \in DOMAIN mailbox' : mailbox'[i].type # "SCHED_READY"
  BY <1>2, <1>3, <1>5
<1>7. reqrep' = "none"
  BY <1>1, <1>4 DEF OneRequestAtATime, TypeOK
<1> QED BY <1>1, <1>5, <1>6, <1>7 DEF OneRequestAtATime

\* The REQ-REP actor ends with SCHED_READY.
LEMMA ReadySend ==
  ASSUME TypeOK, OneRequestAtATime, SchedReady
  PROVE  OneRequestAtATime'
<1>1. /\ mailbox' = Append(mailbox, Msg("SCHED_READY", "reqrep", {}))
      /\ mailbox \in Seq(Message)
      /\ reqrep' = "none" /\ sched_ready' = sched_ready
  BY DEF SchedReady, Send, TypeOK
<1>2. \A i \in DOMAIN mailbox' :
        \/ i \in DOMAIN mailbox /\ mailbox'[i] = mailbox[i]
        \/ i = Len(mailbox) + 1
  BY <1>1
<1>3. /\ Len(mailbox) + 1 \in DOMAIN mailbox'
      /\ mailbox'[Len(mailbox) + 1].type = "SCHED_READY"
  BY <1>1 DEF Msg
<1>4. reqrep = "active" /\ \A i \in DOMAIN mailbox : mailbox[i].from # "reqrep"
  BY DEF SchedReady, Deciding, Blocked
<1> QED BY <1>1, <1>2, <1>3, <1>4 DEF OneRequestAtATime

\* The scheduler is called only when it is ready.
LEMMA TailCall ==
  ASSUME TypeOK, OneRequestAtATime, ServerTail
  PROVE  OneRequestAtATime'
<1>1. mailbox' = mailbox
  BY DEF ServerTail
<1>2. CASE MayCallScheduler /\ (SendEvents \/ SendSimulationEnds)
  <2>1. sched_ready /\ reqrep' = "active" /\ sched_ready' = FALSE
    BY <1>2 DEF MayCallScheduler, SendEvents, SendSimulationEnds, CallScheduler
  <2> QED BY <1>1, <2>1 DEF OneRequestAtATime
<1>3. CASE UNCHANGED <<reqrep, sched_ready>>
  BY <1>1, <1>3 DEF OneRequestAtATime
<1> QED BY <1>2, <1>3 DEF ServerTail

\* SIMULATION_BEGINS is the one request outstanding at the start.
LEMMA RequestInit == Init => OneRequestAtATime
BY DEF Init, OneRequestAtATime

\* Every step passes the token on, or leaves it where it is.
LEMMA RequestNext == TypeOK /\ OneRequestAtATime /\ [Next]_vars => OneRequestAtATime'
<1> SUFFICES ASSUME TypeOK, OneRequestAtATime, [Next]_vars
             PROVE  OneRequestAtATime'
  OBVIOUS
<1>1. CASE ServerStep
  <2>1. CASE server_on_sched_ready
    BY <2>1, ReadyReceive
  <2>2. CASE ServerTail
    BY <2>2, TailCall
  <2>3. CASE ServerExit
    BY <2>3 DEF ServerExit, OneRequestAtATime
  <2>4. CASE server_on_submitter_hello \/ server_on_submitter_bye
    BY <2>4, OtherReceive
       DEF server_on_submitter_hello, server_on_submitter_bye
  <2>5. CASE server_on_job_submitted \/ server_on_register_job
    BY <2>5, OtherReceive DEF server_on_job_submitted, server_on_register_job
  <2>6. CASE server_on_job_completed \/ server_on_killing_done
    BY <2>6, OtherReceive DEF server_on_job_completed, server_on_killing_done
  <2>7. CASE server_on_waiting_done \/ server_on_call_me_later
    BY <2>7, OtherReceive DEF server_on_waiting_done, server_on_call_me_later
  <2>8. CASE server_on_execute_job \/ server_on_reject_job
    BY <2>8, OtherReceive DEF server_on_execute_job, server_on_reject_job
  <2>9. CASE server_on_kill_jobs \/ server_on_dynamic_register
    BY <2>9, OtherReceive DEF server_on_kill_jobs, server_on_dynamic_register
  <2>10. CASE server_on_change_job_state
    BY <2>10, OtherReceive DEF server_on_change_job_state
  <2> QED BY <1>1, <2>1, <2>2, <2>3, <2>4, <2>5, <2>6, <2>7, <2>8, <2>9, <2>10
          DEF ServerStep
<1>2. CASE SubmitterStep
  <2>1. PICK s \in Submitters :
          \/ SubmitterHello(s) \/ SubmitterBye(s) \/ WorkflowCallback(s)
          \/ \E S \in SUBSET JobsOf[s] : StaticSubmit(s, S)
          \/ \E j \in JobsOf[s] : WorkflowSubmit(s, j)
    BY <1>2 DEF SubmitterStep
  <2>2. s # "reqrep"
    BY ServerAssumption DEF ServerAssumption
  <2>3. CASE SubmitterHello(s) \/ SubmitterBye(s)
    BY <2>2, <2>3, OtherSend DEF SubmitterHello, SubmitterBye
  <2>4. CASE WorkflowCallback(s)
    BY <2>4 DEF WorkflowCallback, OneRequestAtATime
  <2>5. CASE \E S \in SUBSET JobsOf[s] : StaticSubmit(s, S)
    BY <2>2, <2>5, OtherSend DEF StaticSubmit
  <2>6. CASE \E j \in JobsOf[s] : WorkflowSubmit(s, j)
    BY <2>2, <2>6, OtherSend DEF WorkflowSubmit
  <2> QED BY <2>1, <2>3, <2>4, <2>5, <2>6
<1>3. CASE SchedulerStep
  <2>1. CASE \E j \in Jobs : \E A \in SUBSET Machines : SchedExecute(j, A)
    BY <2>1, DecisionSend DEF SchedExecute
  <2>2. CASE \E j \in Jobs : SchedReject(j) \/ SchedChangeState(j)
    BY <2>2, DecisionSend DEF SchedReject, SchedChangeState
  <2>3. CASE \E j \in Jobs : SchedRegister(j)
    BY <2>3, DecisionSend DEF SchedRegister
  <2>4. CASE \E K \in SUBSET Jobs : SchedKill(K)
    BY <2>4, DecisionSend DEF SchedKill
  <2>5. CASE SchedCallMeLater \/ SchedNotifyRegistration
    BY <2>5, DecisionSend DEF SchedCallMeLater, SchedNotifyRegistration
  <2>6. CASE SchedReady
    BY <2>6, ReadySend
  <2> QED BY <1>3, <2>1, <2>2, <2>3, <2>4, <2>5, <2>6 DEF SchedulerStep
<1>4. CASE ActorStep
  <2>1. CASE \E j \in Jobs : JobStart(j) \/ JobCancelled(j)
    BY <2>1 DEF JobStart, JobCancelled, OneRequestAtATime
  <2>2. CASE \E j \in Jobs : JobEnd(j)
    BY <2>2, OtherSend DEF JobEnd
  <2>3. CASE \E K \in SUBSET Jobs : KillerProcess(K)
    BY <2>3, OtherSend DEF KillerProcess
  <2>4. CASE WaiterProcess
    <3>1. CASE end_of_simulation_sent
      BY <2>4, <3>1 DEF WaiterProcess, OneRequestAtATime
    <3>2. CASE ~end_of_simulation_sent
      BY <2>4, <3>2, OtherSend DEF WaiterProcess
    <3> QED BY <3>1, <3>2
  <2> QED BY <1>4, <2>1, <2>2, <2>3, <2>4 DEF ActorStep
<1>5. CASE UNCHANGED vars
  BY <1>5 DEF vars, OneRequestAtATime
<1> QED BY <1>1, <1>2, <1>3, <1>4, <1>5 DEF Next, Finished

\* The server never has two requests to the scheduler outstanding, and it
\* knows exactly whether one is: the REQ-REP actor, the SCHED_READY message
\* and the flag sched_ready hand one token around.
THEOREM RequestsAlternate == Spec => []OneRequestAtATime
<1>1. Init => TypeOK /\ OneRequestAtATime
  BY TypeInit, RequestInit
<1>2. TypeOK /\ OneRequestAtATime /\ [Next]_vars
        => TypeOK' /\ OneRequestAtATime'
  BY TypeNext, RequestNext
<1> QED BY <1>1, <1>2, PTL DEF Spec
-----------------------------------------------------------------------------
(* The mailbox.                                                            *)

\* Submitter s has a message of the type in the mailbox.
Said(s, type) ==
    \E i \in DOMAIN mailbox : mailbox[i].from = s /\ mailbox[i].type = type

\* A message of the type is in the mailbox.
Posted(type) == \E i \in DOMAIN mailbox : mailbox[i].type = type

\* Messages that name one job.
OfOneJob == {"JOB_REGISTERED_BY_DP", "SCHED_EXECUTE_JOB", "SCHED_REJECT_JOB",
             "CHANGE_TO_RUNNING", "CHANGE_TO_COMPLETED", "CHANGE_TO_REJECTED",
             "JOB_COMPLETED"}

\* Two messages of a type name different jobs, a submitter and the REQ-REP
\* actor have one message each, and a submitter names its own jobs.
MailSound ==
    /\ \A i, k \in DOMAIN mailbox : i # k =>
         /\ mailbox[i].type = mailbox[k].type
              => mailbox[i].jobs \cap mailbox[k].jobs = {}
         /\ mailbox[i].from = mailbox[k].from
              => mailbox[i].from \notin Submitters \cup {"reqrep"}
    /\ \A i \in DOMAIN mailbox :
         /\ mailbox[i].type \in OfOneJob => \E j \in Jobs : mailbox[i].jobs = {j}
         /\ mailbox[i].type = "JOB_SUBMITTED"
              => mailbox[i].jobs \subseteq JobsOf[mailbox[i].from]
-----------------------------------------------------------------------------
(* The life of a job.                                                      *)

\* Messages that name jobs, and the events that do: what tells where a job is.
LifeMail == OfOneJob \cup {"JOB_SUBMITTED"}

Mail(j) == {t \in LifeMail : j \in MailJobs(t)}
News(j) == {t \in {"JOB_SUBMITTED", "JOB_COMPLETED"} : j \in EventJobs(t)}

\* The state the server gives a job, what the scheduler knows, the actor.
In(j, state, v, a) == job_state[j] = state /\ view[j] = v /\ actor[j] = a

\* The job is in its workload and not marked; it is marked once, or erased.
Kept(j) == jobs_to_be_deleted[j] = 0 /\ j \notin deleted
Dropped(j) == \/ jobs_to_be_deleted[j] = 1 /\ j \notin deleted
              \/ jobs_to_be_deleted[j] = 0 /\ j \in deleted

\* Jobs of a KILLING_DONE that the server has not read.
KillsDone == MailJobs("KILLING_DONE")

\* Before its submission is handled (or it is registered).
Waiting(j) ==
    /\ In(j, "not_submitted", "unknown", "none") /\ Kept(j) /\ News(j) = {}
    /\ \/ Mail(j) = {}
       \/ Mail(j) = {"JOB_SUBMITTED"} /\ j \notin DynJobs
\* Submitted, and its JOB_SUBMITTED is buffered.
Announced(j) ==
    /\ In(j, "submitted", "unknown", "none") /\ Kept(j) /\ Mail(j) = {}
    /\ News(j) = {"JOB_SUBMITTED"} /\ j \notin DynJobs
\* Registered by a scheduler that waits for the acknowledgement.
Registered(j) ==
    /\ In(j, "submitted", "registered", "none") /\ Kept(j)
    /\ \/ Mail(j) = {"JOB_REGISTERED_BY_DP"} /\ News(j) = {} /\ RegistrationAck
       \/ Mail(j) = {} /\ News(j) = {"JOB_SUBMITTED"}
\* The scheduler knows it and has not decided.
Offered(j) ==
    /\ In(j, "submitted", "submitted", "none") /\ Kept(j) /\ News(j) = {}
    /\ \/ Mail(j) = {}
       \/ Mail(j) = {"JOB_REGISTERED_BY_DP"} /\ ~RegistrationAck
\* EXECUTE_JOB is on its way.
Ordered(j) ==
    /\ In(j, "submitted", "running", "none") /\ Kept(j) /\ News(j) = {}
    /\ Mail(j) = {"SCHED_EXECUTE_JOB"} /\ j \notin Driven
\* Its execute_job_process runs.
Computing(j) ==
    /\ job_state[j] = "running" /\ view[j] = "running"
    /\ actor[j] \in {"spawned", "executing", "cancelled"}
    /\ Kept(j) /\ News(j) = {} /\ Mail(j) = {}
\* Its actor ended by itself; JOB_COMPLETED is on its way.
Ended(j) ==
    /\ In(j, "completed", "running", "done") /\ Kept(j) /\ News(j) = {}
    /\ Mail(j) = {"JOB_COMPLETED"}
\* It was killed; the KILLING_DONE that counts it is on its way.
Killed(j) ==
    /\ In(j, "killed", "running", "done") /\ Kept(j) /\ News(j) = {}
    /\ Mail(j) = {} /\ j \in KillsDone
\* Its end is counted, and buffered for the scheduler.
Counted(j) ==
    /\ \/ In(j, "completed", "running", "done")
       \/ In(j, "killed", "running", "done") /\ j \notin KillsDone
    /\ jobs_to_be_deleted[j] = 1 /\ j \notin deleted
    /\ Mail(j) = {} /\ News(j) = {"JOB_COMPLETED"}
\* The scheduler knows its end; the job is erased.
Deleted(j) ==
    /\ \/ In(j, "completed", "done", "done")
       \/ In(j, "killed", "done", "done") /\ j \notin KillsDone
    /\ jobs_to_be_deleted[j] = 0 /\ j \in deleted
    /\ Mail(j) = {} /\ News(j) = {}
\* A rejection is on its way.
Refused(j) ==
    /\ In(j, "submitted", "done", "none") /\ Kept(j) /\ News(j) = {}
    /\ Mail(j) \in {{"SCHED_REJECT_JOB"}, {"CHANGE_TO_REJECTED"}}
\* A job the scheduler drives, between its two changes of state.
Steered(j) ==
    /\ j \in Driven
    /\ \/ /\ In(j, "submitted", "driven", "none") /\ Mail(j) = {"CHANGE_TO_RUNNING"}
       \/ /\ In(j, "running", "driven", "none") /\ Mail(j) = {}
       \/ /\ In(j, "running", "done", "none") /\ Mail(j) = {"CHANGE_TO_COMPLETED"}
    /\ Kept(j) /\ News(j) = {}
\* Rejected, or driven to its end.
Closed(j) ==
    /\ \/ In(j, "rejected", "done", "none")
       \/ In(j, "completed", "done", "none") /\ j \in Driven
    /\ Dropped(j) /\ Mail(j) = {} /\ News(j) = {}

Lives(j) ==
    \/ Waiting(j) \/ Announced(j) \/ Registered(j) \/ Offered(j)
    \/ Ordered(j) \/ Computing(j) \/ Ended(j) \/ Killed(j)
    \/ Counted(j) \/ Deleted(j) \/ Refused(j) \/ Steered(j) \/ Closed(j)

\* Each job is at one of these points.
LifeCycle == \A j \in Jobs : Lives(j)
-----------------------------------------------------------------------------
\* Kill requests.  A job whose kill was requested has an actor that has started;
\* a killer has jobs that the scheduler ran, that nobody killed and that are not
\* erased, and works while the scheduler cannot be called; a cancelled actor, and
\* a killed job, belong to a request.
KillInv ==
    /\ \A j \in kill_requested : actor[j] \notin {"none", "spawned"}
    /\ \A j \in MailJobs("SCHED_KILL_JOB") : view[j] = "running"
    /\ \A K \in killers : K \subseteq kill_requested
    /\ KillsDone \subseteq kill_requested
    /\ (UNION killers) \cap KillsDone = {}
    /\ (KillsDone \cup UNION killers) \cap deleted = {}
    /\ \A j \in UNION killers : job_state[j] # "killed"
    /\ \A K, L \in killers : K = L
    /\ killers # {} => ~sched_ready /\ \A j \in Jobs : actor[j] # "spawned"
    /\ \A j \in Jobs : /\ actor[j] = "cancelled" => j \in KillsDone
                       /\ job_state[j] = "killed" => j \in kill_requested

\* update_machines_on_job_run and _on_job_end: a machine lists the jobs that
\* execute on it, and the allocations the scheduler holds are disjoint.
MachineInv ==
    /\ \A m \in Machines, j \in Jobs :
         j \in jobs_being_computed[m]
           <=> actor[j] \in {"executing", "cancelled"} /\ m \in alloc[j]
    /\ \A j \in Jobs : view[j] = "running" => Cardinality(alloc[j]) = Req[j]
    /\ \A j, k \in Jobs : view[j] = "running" /\ view[k] = "running" /\ j # k
                            => alloc[j] \cap alloc[k] = {}

\* A submitter says hello, submits, says goodbye, and is in the map of the server
\* from the hello to the goodbye; what it has not sent nobody has seen.
SubmitterInv ==
    /\ \A s \in Submitters :
         /\ submitter_pc[s] = "start" => ~Blocked(s) /\ s \notin submitters
         /\ submitter_pc[s] = "submitting" =>
              ~Said(s, "SUBMITTER_BYE") /\ (s \in submitters <=> ~Said(s, "SUBMITTER_HELLO"))
         /\ submitter_pc[s] = "bye" =>
              /\ ~Said(s, "SUBMITTER_HELLO") /\ ~Said(s, "JOB_SUBMITTED")
              /\ s \in submitters <=> Said(s, "SUBMITTER_BYE")
         /\ todo[s] \subseteq JobsOf[s]
         /\ \A j \in todo[s] : job_state[j] = "not_submitted" /\ Mail(j) = {}
    /\ \A j \in origin_of_jobs : job_state[j] # "not_submitted"
    /\ nb_submitters_finished =
         Cardinality({s \in Submitters : submitter_pc[s] = "bye" /\ s \notin submitters})

\* While the scheduler may register jobs, the server that believes registration
\* finished has the CONTINUE_DYNAMIC_REGISTER still to read.
RegistrationInv ==
    /\ registration_sched_finished /\ end_register \in {"open", "reopened"}
         => Posted("CONTINUE_DYNAMIC_REGISTER")
    /\ Posted("END_DYNAMIC_REGISTER") => end_register \in {"ended", "closed"}

\* After SIMULATION_ENDS: nothing is left, and the counters stay at zero.
EndInv ==
    /\ told_end = end_of_simulation_sent
    /\ EndIsFinal
    /\ end_of_simulation_sent => /\ nb_running_jobs = 0 /\ nb_killers = 0
                                 /\ nb_waiters = 0
                                 /\ nb_completed_jobs = nb_submitted_jobs
    /\ end_of_simulation_ack_received => end_of_simulation_sent /\ sched_ready

\* The inductive invariant (with TypeOK and OneRequestAtATime).
SafeInv ==
    /\ MailSound /\ LifeCycle /\ KillInv /\ MachineInv /\ SubmitterInv
    /\ RegistrationInv /\ EndInv /\ CountersAgree /\ NoAssertionFails
-----------------------------------------------------------------------------
(* What sending and receiving do to the mailbox.                           *)

\* The number of messages of a type is a natural number.
LEMMA NbMessagesType ==
  ASSUME TypeOK, NEW T
  PROVE  /\ IsFiniteSet({k \in DOMAIN mailbox : mailbox[k].type = T})
         /\ NbMessages(T) \in Nat
<1>1. DOMAIN mailbox = 1..Len(mailbox) /\ Len(mailbox) \in Nat
  BY DEF TypeOK
<1>2. IsFiniteSet(1..Len(mailbox))
  BY <1>1, FS_Interval
<1>3. IsFiniteSet({k \in DOMAIN mailbox : mailbox[k].type = T})
  BY <1>1, <1>2, FS_Subset
<1> QED BY <1>3, FS_CardinalityType DEF NbMessages

\* A message that is sent is added to the mailbox.
LEMMA SendEffect ==
  ASSUME TypeOK, NEW t, NEW f, NEW J \in SUBSET Jobs, Send(t, f, J)
  PROVE  /\ \A T : MailJobs(T)' = IF T = t THEN MailJobs(T) \cup J ELSE MailJobs(T)
         /\ \A T : Posted(T)' <=> Posted(T) \/ T = t
         /\ \A s, T : Said(s, T)' <=> Said(s, T) \/ (s = f /\ T = t)
         /\ \A s : Blocked(s)' <=> Blocked(s) \/ s = f
         /\ \A T : NbMessages(T)' = IF T = t THEN NbMessages(T) + 1
                                             ELSE NbMessages(T)
<1> DEFINE m == Msg(t, f, J)
<1>1. mailbox' = Append(mailbox, m) /\ mailbox \in Seq(Message)
  BY DEF Send, TypeOK
<1>2. m.type = t /\ m.from = f /\ m.jobs = J
  BY DEF Msg
<1> HIDE DEF m
<1>3. /\ \A i \in DOMAIN mailbox : i \in DOMAIN mailbox' /\ mailbox'[i] = mailbox[i]
      /\ \A i \in DOMAIN mailbox' :
           \/ i \in DOMAIN mailbox /\ mailbox'[i] = mailbox[i]
           \/ i = Len(mailbox) + 1 /\ mailbox'[i] = m
      /\ Len(mailbox) + 1 \in DOMAIN mailbox'
      /\ Len(mailbox) + 1 \notin DOMAIN mailbox
      /\ mailbox'[Len(mailbox) + 1] = m
  BY <1>1
<1>4. ASSUME NEW T
      PROVE  MailJobs(T)' = IF T = t THEN MailJobs(T) \cup J ELSE MailJobs(T)
  <2>1. MailJobs(T)' = UNION {mailbox'[i].jobs :
                         i \in {k \in DOMAIN mailbox' : mailbox'[k].type = T}}
    BY DEF MailJobs
  <2>2. \A j : j \in MailJobs(T)' <=> j \in MailJobs(T) \/ (T = t /\ j \in J)
    BY <1>2, <1>3, <2>1 DEF MailJobs
  <2> QED BY <2>2
<1>5. \A T : Posted(T)' <=> Posted(T) \/ T = t
  BY <1>2, <1>3 DEF Posted
<1>6. \A s, T : Said(s, T)' <=> Said(s, T) \/ (s = f /\ T = t)
  BY <1>2, <1>3 DEF Said
<1>7. \A s : Blocked(s)' <=> Blocked(s) \/ s = f
  BY <1>2, <1>3 DEF Blocked
<1>8. ASSUME NEW T
      PROVE  NbMessages(T)' = IF T = t THEN NbMessages(T) + 1 ELSE NbMessages(T)
  <2> DEFINE S == {k \in DOMAIN mailbox : mailbox[k].type = T}
  <2>1. {k \in DOMAIN mailbox' : mailbox'[k].type = T}
          = IF T = t THEN S \cup {Len(mailbox) + 1} ELSE S
    BY <1>2, <1>3
  <2>2. IsFiniteSet(S) /\ Len(mailbox) + 1 \notin S
    BY <1>3, NbMessagesType
  <2>3. Cardinality(S \cup {Len(mailbox) + 1}) = Cardinality(S) + 1
    BY <2>2, FS_AddElement
  <2> QED BY <2>1, <2>3 DEF NbMessages
<1> QED BY <1>4, <1>5, <1>6, <1>7, <1>8

\* The mailbox stays sound when the message names no job that one of its type
\* names already and its sender is not blocked.
LEMMA SendSound ==
  ASSUME TypeOK, MailSound, NEW t, NEW f, NEW J \in SUBSET Jobs, Send(t, f, J),
         J \cap MailJobs(t) = {},
         f \in Submitters \cup {"reqrep"} => ~Blocked(f),
         t \in OfOneJob => \E j \in Jobs : J = {j},
         t = "JOB_SUBMITTED" => J \subseteq JobsOf[f]
  PROVE  MailSound'
<1> DEFINE m == Msg(t, f, J)
<1>1. mailbox' = Append(mailbox, m) /\ mailbox \in Seq(Message)
  BY DEF Send, TypeOK
<1>2. m.type = t /\ m.from = f /\ m.jobs = J
  BY DEF Msg
<1> HIDE DEF m
<1>3. \A i \in DOMAIN mailbox' :
        \/ i \in DOMAIN mailbox /\ mailbox'[i] = mailbox[i]
        \/ i = Len(mailbox) + 1 /\ mailbox'[i] = m
  BY <1>1
<1>4. \A i \in DOMAIN mailbox : mailbox[i].type = t => mailbox[i].jobs \cap J = {}
  BY DEF MailJobs
<1>5. \A i \in DOMAIN mailbox :
        mailbox[i].from = f => f \notin Submitters \cup {"reqrep"}
  BY DEF Blocked
<1>6. ASSUME NEW i \in DOMAIN mailbox', NEW k \in DOMAIN mailbox', i # k
      PROVE  /\ mailbox'[i].type = mailbox'[k].type
                  => mailbox'[i].jobs \cap mailbox'[k].jobs = {}
             /\ mailbox'[i].from = mailbox'[k].from
                  => mailbox'[i].from \notin Submitters \cup {"reqrep"}
  <2>1. CASE i \in DOMAIN mailbox /\ mailbox'[i] = mailbox[i]
             /\ k \in DOMAIN mailbox /\ mailbox'[k] = mailbox[k]
    BY <1>6, <2>1 DEF MailSound
  <2>2. CASE i \in DOMAIN mailbox /\ mailbox'[i] = mailbox[i]
             /\ k = Len(mailbox) + 1 /\ mailbox'[k] = m
    BY <1>2, <1>4, <1>5, <2>2
  <2>3. CASE i = Len(mailbox) + 1 /\ mailbox'[i] = m
             /\ k \in DOMAIN mailbox /\ mailbox'[k] = mailbox[k]
    BY <1>2, <1>4, <1>5, <2>3
  <2> QED BY <1>3, <1>6, <2>1, <2>2, <2>3
<1>7. ASSUME NEW i \in DOMAIN mailbox'
      PROVE  /\ mailbox'[i].type \in OfOneJob => \E j \in Jobs : mailbox'[i].jobs = {j}
             /\ mailbox'[i].type = "JOB_SUBMITTED"
                  => mailbox'[i].jobs \subseteq JobsOf[mailbox'[i].from]
  BY <1>2, <1>3 DEF MailSound
<1> QED BY <1>6, <1>7 DEF MailSound

\* The message that is received leaves the mailbox, and no other message of its
\* type names its jobs.
LEMMA ReceiveEffect ==
  ASSUME TypeOK, MailSound, NEW t, Receive(t)
  PROVE  /\ MsgJobs \in SUBSET Jobs /\ MsgJobs \subseteq MailJobs(t)
         /\ \A T : MailJobs(T)' = IF T = t THEN MailJobs(T) \ MsgJobs
                                           ELSE MailJobs(T)
         /\ \A T : T # t => (Posted(T)' <=> Posted(T))
         /\ \A s \in Submitters : \A T :
              Said(s, T)' <=> Said(s, T) /\ ~(s = MsgFrom /\ T = t)
         /\ \A s \in Submitters : Blocked(s)' <=> Blocked(s) /\ s # MsgFrom
         /\ \A T : NbMessages(T)' = IF T = t THEN NbMessages(T) - 1
                                             ELSE NbMessages(T)
         /\ Said(MsgFrom, t) /\ Posted(t)
         /\ t \in OfOneJob => \E j \in Jobs : MsgJobs = {j}
         /\ t = "JOB_SUBMITTED" => MsgJobs \subseteq JobsOf[MsgFrom]
         /\ MailSound'
<1> DEFINE n == Len(mailbox)
<1>1. /\ mailbox # <<>> /\ mailbox' = Tail(mailbox) /\ mailbox \in Seq(Message)
      /\ Head(mailbox) = mailbox[1] /\ mailbox[1].type = t
      /\ n \in Nat /\ n >= 1 /\ DOMAIN mailbox = 1..n
      /\ DOMAIN mailbox' = 1..(n - 1)
  BY DEF Receive, TypeOK
<1>2. /\ \A i \in DOMAIN mailbox' : /\ i + 1 \in DOMAIN mailbox /\ i + 1 # 1
                                    /\ mailbox'[i] = mailbox[i + 1]
      /\ \A i \in DOMAIN mailbox : i # 1 => /\ i - 1 \in DOMAIN mailbox'
                                            /\ mailbox'[i - 1] = mailbox[i]
      /\ 1 \in DOMAIN mailbox
  <2>1. \A i \in 1..(n - 1) : Tail(mailbox)[i] = mailbox[i + 1]
    BY <1>1
  <2>2. \A i \in 2..n : Tail(mailbox)[i - 1] = mailbox[i]
    BY <1>1
  <2> QED BY <1>1, <2>1, <2>2
<1>3. MsgJobs = mailbox[1].jobs /\ MsgFrom = mailbox[1].from
  BY <1>1 DEF MsgJobs, MsgFrom
<1> HIDE DEF n
<1>4. MsgJobs \in SUBSET Jobs
  BY ReceiveType DEF TypeOK
<1>5. ASSUME NEW T
      PROVE  MailJobs(T)' = IF T = t THEN MailJobs(T) \ MsgJobs ELSE MailJobs(T)
  <2>1. MailJobs(T)' = UNION {mailbox'[i].jobs :
                         i \in {k \in DOMAIN mailbox' : mailbox'[k].type = T}}
    BY DEF MailJobs
  <2>2. \A i \in DOMAIN mailbox :
          i # 1 /\ mailbox[i].type = t => mailbox[i].jobs \cap MsgJobs = {}
    BY <1>1, <1>2, <1>3 DEF MailSound
  <2>3. ASSUME NEW j \in MailJobs(T)'
        PROVE  j \in MailJobs(T) /\ (T = t => j \notin MsgJobs)
    <3>1. PICK i \in DOMAIN mailbox' : mailbox'[i].type = T /\ j \in mailbox'[i].jobs
      BY <2>1, <2>3
    <3> QED BY <1>2, <2>2, <3>1 DEF MailJobs
  <2>4. ASSUME NEW j \in MailJobs(T), T = t => j \notin MsgJobs
        PROVE  j \in MailJobs(T)'
    <3>1. PICK i \in DOMAIN mailbox : mailbox[i].type = T /\ j \in mailbox[i].jobs
      BY <2>4 DEF MailJobs
    <3>2. i # 1
      BY <1>1, <1>3, <2>4, <3>1
    <3>3. i - 1 \in DOMAIN mailbox' /\ mailbox'[i - 1] = mailbox[i]
      BY <1>2, <3>2
    <3> QED BY <2>1, <3>1, <3>3
  <2> QED BY <2>3, <2>4
<1>6. MsgJobs \subseteq MailJobs(t)
  BY <1>1, <1>2, <1>3 DEF MailJobs
<1>7. ASSUME NEW T, T # t PROVE Posted(T)' <=> Posted(T)
  <2>1. ASSUME Posted(T)' PROVE Posted(T)
    BY <1>2, <2>1 DEF Posted
  <2>2. ASSUME Posted(T) PROVE Posted(T)'
    <3>1. PICK i \in DOMAIN mailbox : mailbox[i].type = T
      BY <2>2 DEF Posted
    <3>2. i - 1 \in DOMAIN mailbox' /\ mailbox'[i - 1] = mailbox[i]
      BY <1>1, <1>2, <1>7, <3>1
    <3> QED BY <3>1, <3>2 DEF Posted
  <2> QED BY <2>1, <2>2
<1>8. ASSUME NEW i \in DOMAIN mailbox, i # 1, mailbox[i].from = MsgFrom
      PROVE  MsgFrom \notin Submitters
  BY <1>2, <1>3, <1>8 DEF MailSound
<1>9. ASSUME NEW s \in Submitters, NEW T
      PROVE  Said(s, T)' <=> Said(s, T) /\ ~(s = MsgFrom /\ T = t)
  <2>1. ASSUME Said(s, T)' PROVE Said(s, T) /\ ~(s = MsgFrom /\ T = t)
    BY <1>2, <1>8, <2>1 DEF Said
  <2>2. ASSUME Said(s, T), ~(s = MsgFrom /\ T = t) PROVE Said(s, T)'
    <3>1. PICK i \in DOMAIN mailbox : mailbox[i].from = s /\ mailbox[i].type = T
      BY <2>2 DEF Said
    <3>2. i - 1 \in DOMAIN mailbox' /\ mailbox'[i - 1] = mailbox[i]
      BY <1>1, <1>2, <1>3, <2>2, <3>1
    <3> QED BY <3>1, <3>2 DEF Said
  <2> QED BY <2>1, <2>2
<1>10. ASSUME NEW s \in Submitters
       PROVE  Blocked(s)' <=> Blocked(s) /\ s # MsgFrom
  <2>1. ASSUME Blocked(s)' PROVE Blocked(s) /\ s # MsgFrom
    BY <1>2, <1>8, <2>1 DEF Blocked
  <2>2. ASSUME Blocked(s), s # MsgFrom PROVE Blocked(s)'
    <3>1. PICK i \in DOMAIN mailbox : mailbox[i].from = s
      BY <2>2 DEF Blocked
    <3>2. i - 1 \in DOMAIN mailbox' /\ mailbox'[i - 1] = mailbox[i]
      BY <1>2, <1>3, <2>2, <3>1
    <3> QED BY <3>1, <3>2 DEF Blocked
  <2> QED BY <2>1, <2>2
<1>11. ASSUME NEW T
       PROVE  NbMessages(T)' = IF T = t THEN NbMessages(T) - 1 ELSE NbMessages(T)
  <2> DEFINE S == {k \in DOMAIN mailbox : mailbox[k].type = T}
             R == {k \in DOMAIN mailbox' : mailbox'[k].type = T}
             f == [k \in R |-> k + 1]
  <2>1. f \in Bijection(R, S \ {1})
    <3>1. f \in [R -> S \ {1}]
      BY <1>2
    <3>2. \A a, b \in R : f[a] = f[b] => a = b
      BY <1>1
    <3>3. \A k \in S \ {1} : \E a \in R : f[a] = k
      <4> TAKE k \in S \ {1}
      <4>1. k - 1 \in R /\ (k - 1) + 1 = k
        BY <1>1, <1>2
      <4> QED BY <4>1
    <3> QED BY <3>1, <3>2, <3>3 DEF Bijection, Injection, Surjection, IsInjective
  <2>2. IsFiniteSet(S)
    BY NbMessagesType
  <2>3. /\ IsFiniteSet(S \ {1})
        /\ Cardinality(S \ {1}) = IF 1 \in S THEN Cardinality(S) - 1 ELSE Cardinality(S)
    BY <2>2, FS_RemoveElement
  <2>4. IsFiniteSet(R)
    <3>1. IsFiniteSet(1..(n - 1))
      BY <1>1, FS_Interval
    <3> QED BY <1>1, <3>1, FS_Subset
  <2>5. ExistsBijection(R, S \ {1})
    BY <2>1 DEF ExistsBijection
  <2>6. Cardinality(S \ {1}) = Cardinality(R)
    BY <2>4, <2>5, FS_Bijection
  <2>7. 1 \in S <=> T = t
    BY <1>1, <1>2
  <2> QED BY <2>3, <2>6, <2>7 DEF NbMessages
<1>12. Said(MsgFrom, t) /\ Posted(t)
  BY <1>1, <1>2, <1>3 DEF Said, Posted
<1>13. /\ t \in OfOneJob => \E j \in Jobs : MsgJobs = {j}
       /\ t = "JOB_SUBMITTED" => MsgJobs \subseteq JobsOf[MsgFrom]
  BY <1>1, <1>2, <1>3 DEF MailSound
<1>14. MailSound'
  <2>1. \A i, k \in DOMAIN mailbox' : i # k => i + 1 # k + 1
    BY <1>1
  <2> QED BY <1>2, <2>1 DEF MailSound
<1> QED BY <1>4, <1>5, <1>6, <1>7, <1>9, <1>10, <1>11, <1>12, <1>13, <1>14

\* While the REQ-REP actor decides, none of its messages is in the mailbox.
LEMMA DecidingAlone ==
  ASSUME TypeOK, Deciding
  PROVE  \A T \in Decisions : ~Posted(T) /\ MailJobs(T) = {}
<1>1. \A i \in DOMAIN mailbox : mailbox[i] \in Message /\ mailbox[i].from # "reqrep"
  BY DEF TypeOK, Deciding, Blocked
<1>2. \A i \in DOMAIN mailbox : mailbox[i].type \notin Decisions
  <2> TAKE i \in DOMAIN mailbox
  <2>1. mailbox[i] \in Message /\ mailbox[i].from # "reqrep"
    BY <1>1
  <2> QED BY <2>1 DEF Message, FromSubmitter, Decisions
<1> QED BY <1>2 DEF Posted, MailJobs

\* A decision that is received was the only one in the mailbox.
LEMMA DecisionAlone ==
  ASSUME TypeOK, MailSound, NEW t \in Decisions, Receive(t)
  PROVE  \A T \in Decisions : /\ T # t => MailJobs(T) = {}
                              /\ MailJobs(T)' = {} /\ ~Posted(T)'
<1>1. /\ mailbox # <<>> /\ mailbox' = Tail(mailbox) /\ mailbox \in Seq(Message)
      /\ 1 \in DOMAIN mailbox /\ mailbox[1].type = t
  BY DEF Receive, TypeOK
<1>2. \A i \in DOMAIN mailbox : mailbox[i].type \in Decisions => mailbox[i].from = "reqrep"
  <2> TAKE i \in DOMAIN mailbox
  <2>1. mailbox[i] \in Message
    BY <1>1
  <2> QED BY <2>1 DEF Message, FromSubmitter, Decisions
<1>3. \A i \in DOMAIN mailbox : i # 1 => mailbox[i].type \notin Decisions
  BY <1>1, <1>2 DEF MailSound
<1>4. \A i \in DOMAIN mailbox' : /\ i + 1 \in DOMAIN mailbox /\ i + 1 # 1
                                 /\ mailbox'[i] = mailbox[i + 1]
  BY <1>1
<1>5. ASSUME NEW T \in Decisions
      PROVE  ~Posted(T)' /\ MailJobs(T)' = {}
  <2>1. \A i \in DOMAIN mailbox' : mailbox'[i].type # T
    BY <1>3, <1>4
  <2> QED BY <2>1 DEF Posted, MailJobs
<1>6. ASSUME NEW T \in Decisions, T # t PROVE MailJobs(T) = {}
  BY <1>1, <1>3, <1>6 DEF MailJobs
<1> QED BY <1>5, <1>6

\* What a message or an event adds to or takes from the mail of a job.
LEMMA MailAdded ==
  ASSUME NEW t, NEW J,
         \A T : MailJobs(T)' = IF T = t THEN MailJobs(T) \cup J ELSE MailJobs(T)
  PROVE  /\ \A j : Mail(j)' = IF t \in LifeMail /\ j \in J THEN Mail(j) \cup {t}
                                                         ELSE Mail(j)
         /\ KillsDone' = IF t = "KILLING_DONE" THEN KillsDone \cup J ELSE KillsDone
BY DEF Mail, KillsDone

\* What is left of the mail of a job when a message is taken.
LEMMA MailTaken ==
  ASSUME NEW t, NEW J,
         \A T : MailJobs(T)' = IF T = t THEN MailJobs(T) \ J ELSE MailJobs(T)
  PROVE  /\ \A j : Mail(j)' = IF j \in J THEN Mail(j) \ {t} ELSE Mail(j)
         /\ KillsDone' = IF t = "KILLING_DONE" THEN KillsDone \ J ELSE KillsDone
BY DEF Mail, KillsDone

\* A step that leaves the mailbox alone.
LEMMA MailKept ==
  ASSUME UNCHANGED mailbox
  PROVE  /\ \A T : MailJobs(T)' = MailJobs(T) /\ NbMessages(T)' = NbMessages(T)
         /\ \A T : Posted(T)' <=> Posted(T)
         /\ \A s : Blocked(s)' <=> Blocked(s)
         /\ \A s, T : Said(s, T)' <=> Said(s, T)
         /\ \A j : Mail(j)' = Mail(j)
         /\ KillsDone' = KillsDone
         /\ MailSound => MailSound'
BY DEF MailJobs, NbMessages, Posted, Blocked, Said, Mail, KillsDone, MailSound

\* The news of a job when events are buffered.
LEMMA NewsAdded ==
  ASSUME TypeOK, NEW type \in EventTypes, NEW J \in SUBSET Jobs,
         proto_writer' = proto_writer \o Evt(type, J)
  PROVE  \A j : News(j)' = IF type \in {"JOB_SUBMITTED", "JOB_COMPLETED"} /\ j \in J
                           THEN News(j) \cup {type} ELSE News(j)
<1> DEFINE e == [type |-> type, jobs |-> J]
           n == Len(proto_writer)
<1>1. /\ proto_writer \in Seq(Event) /\ n \in Nat /\ e \in Event
      /\ proto_writer' = proto_writer \o <<e>>
  BY DEF TypeOK, Evt, Event
<1>2. e.type = type /\ e.jobs = J
  OBVIOUS
<1> HIDE DEF e
<1>3. proto_writer' = Append(proto_writer, e)
  BY <1>1
<1>4. /\ \A i \in DOMAIN proto_writer : i \in DOMAIN proto_writer'
                                        /\ proto_writer'[i] = proto_writer[i]
      /\ \A i \in DOMAIN proto_writer' :
           \/ i \in DOMAIN proto_writer /\ proto_writer'[i] = proto_writer[i]
           \/ i = n + 1 /\ proto_writer'[i] = e
      /\ n + 1 \in DOMAIN proto_writer' /\ proto_writer'[n + 1] = e
  BY <1>1, <1>3
<1>5. ASSUME NEW T, NEW j
      PROVE  j \in EventJobs(T)' <=> j \in EventJobs(T) \/ (T = type /\ j \in J)
  <2>1. EventJobs(T)' = UNION {proto_writer'[i].jobs :
                         i \in {k \in DOMAIN proto_writer' : proto_writer'[k].type = T}}
    BY DEF EventJobs
  <2> QED BY <1>2, <1>4, <2>1 DEF EventJobs
<1> QED BY <1>5 DEF News

\* A step that buffers no event.
LEMMA NewsKept ==
  ASSUME UNCHANGED proto_writer
  PROVE  \A j : News(j)' = News(j)
BY DEF News, EventJobs
-----------------------------------------------------------------------------
(* Frames: what a step that leaves a part of the state alone preserves.    *)

\* What the life of a job and the counters depend on stays as it is.
Untouched(j) ==
    /\ job_state'[j] = job_state[j] /\ view'[j] = view[j]
    /\ actor'[j] = actor[j]
    /\ jobs_to_be_deleted'[j] = jobs_to_be_deleted[j]
    /\ j \in deleted' <=> j \in deleted
    /\ Mail(j)' = Mail(j) /\ News(j)' = News(j)
    /\ job_state[j] = "killed" => (j \in KillsDone' <=> j \in KillsDone)

\* A job that a step does not touch stays where it was in its life.
LEMMA LifeFrame ==
  ASSUME NEW j, Untouched(j), Lives(j)
  PROVE  Lives(j)'
<1> USE DEF In, Kept, Dropped, Untouched
<1>1. /\ Waiting(j) => Waiting(j)'
      /\ Announced(j) => Announced(j)'
      /\ Registered(j) => Registered(j)'
      /\ Offered(j) => Offered(j)'
  BY DEF Waiting, Announced, Registered, Offered
<1>2. /\ Ordered(j) => Ordered(j)'
      /\ Computing(j) => Computing(j)'
      /\ Ended(j) => Ended(j)'
      /\ Killed(j) => Killed(j)'
  BY DEF Ordered, Computing, Ended, Killed
<1>3. /\ Counted(j) => Counted(j)'
      /\ Deleted(j) => Deleted(j)'
      /\ Refused(j) => Refused(j)'
      /\ Steered(j) => Steered(j)'
      /\ Closed(j) => Closed(j)'
  BY DEF Counted, Deleted, Refused, Steered, Closed
<1> QED BY <1>1, <1>2, <1>3 DEF Lives

\* The sets that the counters of the server count.
SubmittedJobs == (Jobs \ InState({"not_submitted"})) \ MailJobs("JOB_REGISTERED_BY_DP")
RunningJobs == InState({"running"}) \cup EndInFlight
CompletedJobs == InState({"completed", "killed", "rejected"}) \ EndInFlight
KilledJobs == InState({"killed"}) \ EndInFlight

\* The counters of jobs, and those of helper actors.
JobCounters ==
    /\ nb_submitted_jobs = Cardinality(SubmittedJobs)
    /\ nb_running_jobs = Cardinality(RunningJobs)
    /\ nb_completed_jobs = Cardinality(CompletedJobs)
    /\ nb_killed_jobs = Cardinality(KilledJobs)

HelperCounters ==
    /\ nb_killers = Cardinality(killers) + NbMessages("KILLING_DONE")
    /\ nb_waiters = sleeping + NbMessages("WAITING_DONE")

\* CountersAgree has a part on the jobs and a part on the helpers.
LEMMA CountersSplit == CountersAgree <=> JobCounters /\ HelperCounters
BY DEF CountersAgree, JobCounters, HelperCounters, SubmittedJobs, RunningJobs,
       CompletedJobs, KilledJobs

\* Which jobs each of them counts.
LEMMA CountedJobs ==
  ASSUME NEW j \in Jobs
  PROVE  /\ j \in SubmittedJobs <=> /\ job_state[j] # "not_submitted"
                                    /\ "JOB_REGISTERED_BY_DP" \notin Mail(j)
         /\ j \in RunningJobs <=>
              \/ job_state[j] = "running"
              \/ job_state[j] = "completed" /\ "JOB_COMPLETED" \in Mail(j)
              \/ job_state[j] = "killed" /\ j \in KillsDone
         /\ j \in CompletedJobs <=>
              \/ job_state[j] = "rejected"
              \/ job_state[j] = "completed" /\ "JOB_COMPLETED" \notin Mail(j)
              \/ job_state[j] = "killed" /\ j \notin KillsDone
         /\ j \in KilledJobs <=> job_state[j] = "killed" /\ j \notin KillsDone
BY DEF SubmittedJobs, RunningJobs, CompletedJobs, KilledJobs, InState,
       EndInFlight, Mail, LifeMail, OfOneJob, KillsDone

\* Those sets are sets of jobs.
LEMMA CountedSets ==
  /\ SubmittedJobs \in SUBSET Jobs /\ RunningJobs \in SUBSET Jobs
  /\ CompletedJobs \in SUBSET Jobs /\ KilledJobs \in SUBSET Jobs
BY DEF SubmittedJobs, RunningJobs, CompletedJobs, KilledJobs, InState, EndInFlight

\* The same of the jobs they count after a step.
LEMMA CountedNext ==
  ASSUME NEW j \in Jobs
  PROVE  /\ j \in SubmittedJobs' <=> /\ job_state'[j] # "not_submitted"
                                     /\ "JOB_REGISTERED_BY_DP" \notin Mail(j)'
         /\ j \in RunningJobs' <=>
              \/ job_state'[j] = "running"
              \/ job_state'[j] = "completed" /\ "JOB_COMPLETED" \in Mail(j)'
              \/ job_state'[j] = "killed" /\ j \in KillsDone'
         /\ j \in CompletedJobs' <=>
              \/ job_state'[j] = "rejected"
              \/ job_state'[j] = "completed" /\ "JOB_COMPLETED" \notin Mail(j)'
              \/ job_state'[j] = "killed" /\ j \notin KillsDone'
         /\ j \in KilledJobs' <=> job_state'[j] = "killed" /\ j \notin KillsDone'
         /\ SubmittedJobs' \in SUBSET Jobs /\ RunningJobs' \in SUBSET Jobs
         /\ CompletedJobs' \in SUBSET Jobs /\ KilledJobs' \in SUBSET Jobs
BY DEF SubmittedJobs, RunningJobs, CompletedJobs, KilledJobs, InState,
       EndInFlight, Mail, LifeMail, OfOneJob, KillsDone

\* A step moves no untouched job from one counter to another.
LEMMA CountFrame ==
  ASSUME NEW J \in SUBSET Jobs, \A j \in Jobs \ J : Untouched(j)
  PROVE  /\ SubmittedJobs' \ J = SubmittedJobs \ J
         /\ RunningJobs' \ J = RunningJobs \ J
         /\ CompletedJobs' \ J = CompletedJobs \ J
         /\ KilledJobs' \ J = KilledJobs \ J
         /\ SubmittedJobs' \in SUBSET Jobs /\ RunningJobs' \in SUBSET Jobs
         /\ CompletedJobs' \in SUBSET Jobs /\ KilledJobs' \in SUBSET Jobs
<1>1. /\ SubmittedJobs' \in SUBSET Jobs /\ RunningJobs' \in SUBSET Jobs
      /\ CompletedJobs' \in SUBSET Jobs /\ KilledJobs' \in SUBSET Jobs
  BY DEF SubmittedJobs, RunningJobs, CompletedJobs, KilledJobs, InState,
         EndInFlight
<1>2. ASSUME NEW j \in Jobs \ J
      PROVE  /\ j \in SubmittedJobs' <=> j \in SubmittedJobs
             /\ j \in RunningJobs' <=> j \in RunningJobs
             /\ j \in CompletedJobs' <=> j \in CompletedJobs
             /\ j \in KilledJobs' <=> j \in KilledJobs
  BY CountedJobs, CountedNext DEF Untouched
<1> QED BY <1>1, <1>2, CountedSets

\* A step that touches no job leaves each set of counted jobs as it is.
LEMMA CountKept ==
  ASSUME \A j \in Jobs : Untouched(j), JobCounters,
         UNCHANGED <<nb_submitted_jobs, nb_running_jobs, nb_completed_jobs,
                     nb_killed_jobs>>
  PROVE  JobCounters'
<1>1. {} \in SUBSET Jobs /\ \A j \in Jobs \ {} : Untouched(j)
  OBVIOUS
<1>2. /\ SubmittedJobs' \ {} = SubmittedJobs \ {}
      /\ RunningJobs' \ {} = RunningJobs \ {}
      /\ CompletedJobs' \ {} = CompletedJobs \ {}
      /\ KilledJobs' \ {} = KilledJobs \ {}
  BY <1>1, CountFrame
<1>3. /\ SubmittedJobs' = SubmittedJobs /\ RunningJobs' = RunningJobs
      /\ CompletedJobs' = CompletedJobs /\ KilledJobs' = KilledJobs
  BY <1>2
<1> QED BY <1>3 DEF JobCounters

\* How many jobs a set has when jobs join it or leave it.
LEMMA JobsJoin ==
  ASSUME NEW S \in SUBSET Jobs, NEW J \in SUBSET Jobs, S \cap J = {}
  PROVE  Cardinality(S \cup J) = Cardinality(S) + Cardinality(J)
<1>1. IsFiniteSet(S) /\ IsFiniteSet(J)
  BY FS_Subset, ServerAssumption DEF ServerAssumption
<1>2. Cardinality(S \cap J) = 0
  BY FS_EmptySet
<1>3. Cardinality(S \cup J) = Cardinality(S) + Cardinality(J) - Cardinality(S \cap J)
  BY <1>1, FS_Union
<1> QED BY <1>2, <1>3, JobSetSize

\* Jobs that leave a set.
LEMMA JobsLeave ==
  ASSUME NEW S \in SUBSET Jobs, NEW J \in SUBSET S
  PROVE  Cardinality(S \ J) = Cardinality(S) - Cardinality(J)
<1>1. (S \ J) \cup J = S /\ (S \ J) \cap J = {}
  OBVIOUS
<1>2. S \ J \in SUBSET Jobs /\ J \in SUBSET Jobs
  OBVIOUS
<1>3. Cardinality((S \ J) \cup J) = Cardinality(S \ J) + Cardinality(J)
  BY <1>1, <1>2, JobsJoin
<1> QED BY <1>1, <1>2, <1>3, JobSetSize

\* One job that joins or leaves a set.
LEMMA OneJob ==
  ASSUME NEW S \in SUBSET Jobs, NEW j \in Jobs
  PROVE  /\ j \notin S => Cardinality(S \cup {j}) = Cardinality(S) + 1
         /\ j \in S => Cardinality(S \ {j}) = Cardinality(S) - 1
<1>1. Cardinality({j}) = 1
  BY FS_Singleton
<1>2. {j} \in SUBSET Jobs
  OBVIOUS
<1>3. ASSUME j \notin S PROVE Cardinality(S \cup {j}) = Cardinality(S) + 1
  BY <1>1, <1>2, <1>3, JobsJoin
<1>4. ASSUME j \in S PROVE Cardinality(S \ {j}) = Cardinality(S) - 1
  <2>1. {j} \in SUBSET S
    BY <1>4
  <2> QED BY <1>1, <2>1, JobsLeave
<1> QED BY <1>3, <1>4

\* A set of jobs is no larger than one that contains it.
LEMMA JobsInside ==
  ASSUME NEW S \in SUBSET Jobs, NEW J \in SUBSET S
  PROVE  Cardinality(J) <= Cardinality(S)
<1>1. J \in SUBSET Jobs /\ S \ J \in SUBSET Jobs
  OBVIOUS
<1>2. Cardinality(S) \in Nat /\ Cardinality(J) \in Nat /\ Cardinality(S \ J) \in Nat
  BY <1>1, JobSetSize
<1>3. Cardinality(S \ J) = Cardinality(S) - Cardinality(J)
  BY JobsLeave
<1> QED BY <1>2, <1>3

\* Steps that leave a part of the invariant alone.
LEMMA LifeKept ==
  ASSUME LifeCycle, NEW J, \A j \in Jobs \ J : Untouched(j),
         \A j \in J \cap Jobs : Lives(j)'
  PROVE  LifeCycle'
BY LifeFrame DEF LifeCycle

\* A step that touches one job.
LEMMA LifeOne ==
  ASSUME LifeCycle, NEW j \in Jobs, \A k \in Jobs \ {j} : Untouched(k), Lives(j)'
  PROVE  LifeCycle'
BY LifeFrame DEF LifeCycle

\* The counters, when one job changes and stays counted as it was.
LEMMA CountOne ==
  ASSUME JobCounters, NEW j \in Jobs, \A k \in Jobs \ {j} : Untouched(k),
         UNCHANGED <<nb_submitted_jobs, nb_running_jobs, nb_completed_jobs,
                     nb_killed_jobs>>,
         j \in SubmittedJobs' <=> j \in SubmittedJobs,
         j \in RunningJobs' <=> j \in RunningJobs,
         j \in CompletedJobs' <=> j \in CompletedJobs,
         j \in KilledJobs' <=> j \in KilledJobs
  PROVE  JobCounters'
<1>1. /\ SubmittedJobs' \ {j} = SubmittedJobs \ {j}
      /\ RunningJobs' \ {j} = RunningJobs \ {j}
      /\ CompletedJobs' \ {j} = CompletedJobs \ {j}
      /\ KilledJobs' \ {j} = KilledJobs \ {j}
  <2>1. {j} \in SUBSET Jobs
    OBVIOUS
  <2> QED BY <2>1, CountFrame
<1>2. /\ SubmittedJobs' = SubmittedJobs /\ RunningJobs' = RunningJobs
      /\ CompletedJobs' = CompletedJobs /\ KilledJobs' = KilledJobs
  BY <1>1
<1> QED BY <1>2 DEF JobCounters

\* The two parts of CountersAgree, after a step.
LEMMA CountersJoin ==
  ASSUME JobCounters', HelperCounters' PROVE CountersAgree'
BY DEF CountersAgree, JobCounters, HelperCounters, SubmittedJobs, RunningJobs,
       CompletedJobs, KilledJobs

\* A step that neither requests nor performs a kill.
LEMMA KillFrame ==
  ASSUME KillInv, UNCHANGED <<actor, job_state, kill_requested, killers, deleted>>,
         KillsDone' = KillsDone,
         \A j \in MailJobs("SCHED_KILL_JOB")' : view'[j] = "running",
         sched_ready' => sched_ready \/ killers = {}
  PROVE  KillInv'
BY DEF KillInv

\* A step that neither starts nor ends an execution.
LEMMA MachineFrame ==
  ASSUME MachineInv, UNCHANGED <<jobs_being_computed, actor, alloc>>,
         \A j \in Jobs : view'[j] = "running" => view[j] = "running"
  PROVE  MachineInv'
BY DEF MachineInv

\* A step in which no submitter and no submission takes part.
LEMMA SubmitterFrame ==
  ASSUME SubmitterInv,
         UNCHANGED <<submitter_pc, submitters, nb_submitters_finished, todo>>,
         \A s \in Submitters : Blocked(s)' <=> Blocked(s),
         \A s \in Submitters : \A T : Said(s, T)' <=> Said(s, T),
         \A s \in Submitters : \A j \in todo[s] :
            job_state'[j] = "not_submitted" /\ Mail(j)' = {},
         \A j \in origin_of_jobs' : job_state'[j] # "not_submitted"
  PROVE  SubmitterInv'
<1>1. {s \in Submitters : submitter_pc'[s] = "bye" /\ s \notin submitters'}
        = {s \in Submitters : submitter_pc[s] = "bye" /\ s \notin submitters}
  OBVIOUS
<1>2. nb_submitters_finished' =
        Cardinality({s \in Submitters : submitter_pc'[s] = "bye" /\ s \notin submitters'})
  BY <1>1 DEF SubmitterInv
<1>3. ASSUME NEW s \in Submitters
      PROVE  /\ submitter_pc'[s] = "start" => ~Blocked(s)' /\ s \notin submitters'
             /\ submitter_pc'[s] = "submitting" =>
                  /\ ~Said(s, "SUBMITTER_BYE")'
                  /\ s \in submitters' <=> ~Said(s, "SUBMITTER_HELLO")'
             /\ submitter_pc'[s] = "bye" =>
                  /\ ~Said(s, "SUBMITTER_HELLO")' /\ ~Said(s, "JOB_SUBMITTED")'
                  /\ s \in submitters' <=> Said(s, "SUBMITTER_BYE")'
             /\ todo'[s] \subseteq JobsOf[s]
  BY DEF SubmitterInv
<1> QED BY <1>2, <1>3 DEF SubmitterInv

\* A step that says nothing of the registration of jobs.
LEMMA RegistrationFrame ==
  ASSUME RegistrationInv, UNCHANGED <<registration_sched_finished, end_register>>,
         Posted("CONTINUE_DYNAMIC_REGISTER") => Posted("CONTINUE_DYNAMIC_REGISTER")',
         Posted("END_DYNAMIC_REGISTER")' => Posted("END_DYNAMIC_REGISTER")
  PROVE  RegistrationInv'
BY DEF RegistrationInv

\* Before SIMULATION_ENDS the part of the invariant about the end is void.
LEMMA EndFrame ==
  ASSUME EndInv, ~end_of_simulation_sent,
         UNCHANGED <<told_end, end_of_simulation_sent,
                     end_of_simulation_ack_received>>
  PROVE  EndInv'
BY DEF EndInv, EndIsFinal

\* A step that neither creates nor ends a killer or a waiter.
LEMMA HelperFrame ==
  ASSUME HelperCounters, UNCHANGED <<nb_killers, nb_waiters, killers, sleeping>>,
         NbMessages("KILLING_DONE")' = NbMessages("KILLING_DONE"),
         NbMessages("WAITING_DONE")' = NbMessages("WAITING_DONE")
  PROVE  HelperCounters'
BY DEF HelperCounters
-----------------------------------------------------------------------------
(* The initial state.                                                      *)

\* server_process starts in the invariant.
LEMMA SafeInit == Init => SafeInv
<1> SUFFICES ASSUME Init PROVE SafeInv
  OBVIOUS
<1>1. mailbox = <<>> /\ proto_writer = <<>> /\ DOMAIN mailbox = {} /\ DOMAIN proto_writer = {}
  BY DEF Init
<1>2. /\ \A T : MailJobs(T) = {} /\ ~Posted(T)
      /\ \A T : EventJobs(T) = {}
      /\ \A s, T : ~Said(s, T) /\ ~Blocked(s)
      /\ \A T : {k \in DOMAIN mailbox : mailbox[k].type = T} = {}
      /\ MailSound
  BY <1>1 DEF MailJobs, Posted, EventJobs, Said, Blocked, MailSound
<1>3. /\ \A j : Mail(j) = {} /\ News(j) = {}
      /\ KillsDone = {}
      /\ \A T : NbMessages(T) = 0
  BY <1>2, FS_EmptySet DEF Mail, News, KillsDone, NbMessages
<1>4. LifeCycle
  BY <1>3 DEF Init, LifeCycle, Lives, Waiting, In, Kept
<1>5. KillInv
  BY <1>2, <1>3 DEF Init, KillInv
<1>6. MachineInv
  BY DEF Init, MachineInv
<1>7. SubmitterInv
  <2>1. {s \in Submitters : submitter_pc[s] = "bye" /\ s \notin submitters} = {}
    BY DEF Init
  <2>2. nb_submitters_finished =
          Cardinality({s \in Submitters : submitter_pc[s] = "bye" /\ s \notin submitters})
    BY <2>1, FS_EmptySet DEF Init
  <2>3. \A s \in Submitters : JobsOf[s] \subseteq Jobs
    BY ServerAssumption DEF ServerAssumption
  <2> QED BY <1>2, <1>3, <2>2, <2>3 DEF Init, SubmitterInv
<1>8. RegistrationInv /\ EndInv /\ NoAssertionFails
  BY <1>2 DEF Init, RegistrationInv, EndInv, EndIsFinal, NoAssertionFails
<1>9. CountersAgree
  <2>1. SubmittedJobs = {} /\ RunningJobs = {} /\ CompletedJobs = {} /\ KilledJobs = {}
    BY DEF Init, SubmittedJobs, RunningJobs, CompletedJobs, KilledJobs, InState,
           EndInFlight
  <2> QED BY <1>3, <2>1, FS_EmptySet, CountersSplit
          DEF JobCounters, HelperCounters, Init
<1> QED BY <1>2, <1>4, <1>5, <1>6, <1>7, <1>8, <1>9 DEF SafeInv
-----------------------------------------------------------------------------
(* The decisions of the scheduler.                                         *)

\* A decision that is sent before SIMULATION_ENDS disturbs neither the
\* submitters nor the helpers, and leaves every job but its own untouched.
LEMMA DecisionFrame ==
  ASSUME TypeOK, SafeInv, Deciding, ~told_end,
         NEW t \in Decisions, NEW J \in SUBSET Jobs, Send(t, "reqrep", J),
         t \in OfOneJob => \E j \in Jobs : J = {j},
         UNCHANGED notSched, UNCHANGED <<actor, jobs_being_computed, told_end>>,
         \A j \in Jobs \ J : job_state'[j] = job_state[j] /\ view'[j] = view[j]
  PROVE  /\ MailSound' /\ EndInv' /\ HelperCounters'
         /\ \A T \in Decisions : ~Posted(T) /\ MailJobs(T) = {}
         /\ \A T : Posted(T)' <=> Posted(T) \/ T = t
         /\ KillsDone' = KillsDone
         /\ MailJobs("SCHED_KILL_JOB")' = IF t = "SCHED_KILL_JOB" THEN J ELSE {}
         /\ \A s \in Submitters : Blocked(s)' <=> Blocked(s)
         /\ \A s \in Submitters : \A T : Said(s, T)' <=> Said(s, T)
         /\ \A j : Mail(j)' = IF t \in LifeMail /\ j \in J THEN Mail(j) \cup {t}
                                                         ELSE Mail(j)
         /\ \A j : News(j)' = News(j)
         /\ \A j \in Jobs \ J : Untouched(j)
         /\ \A j \in Jobs : Mail(j) \cap Decisions = {}
<1>1. /\ \A T : MailJobs(T)' = IF T = t THEN MailJobs(T) \cup J ELSE MailJobs(T)
      /\ \A T : Posted(T)' <=> Posted(T) \/ T = t
      /\ \A s, T : Said(s, T)' <=> Said(s, T) \/ (s = "reqrep" /\ T = t)
      /\ \A s : Blocked(s)' <=> Blocked(s) \/ s = "reqrep"
      /\ \A T : NbMessages(T)' = IF T = t THEN NbMessages(T) + 1 ELSE NbMessages(T)
  BY SendEffect
<1>2. \A T \in Decisions : ~Posted(T) /\ MailJobs(T) = {}
  BY DecidingAlone
<1>3. /\ "reqrep" \notin Submitters
      /\ "KILLING_DONE" # t /\ "WAITING_DONE" # t /\ t # "JOB_SUBMITTED"
      /\ "SCHED_KILL_JOB" \in Decisions
  BY ServerAssumption DEF ServerAssumption, Decisions
<1>4. MailSound'
  <2>1. J \cap MailJobs(t) = {} /\ ~Blocked("reqrep") /\ MailSound
    BY <1>2 DEF Deciding, SafeInv
  <2> QED BY <1>3, <2>1, SendSound
<1>5. /\ \A j : Mail(j)' = IF t \in LifeMail /\ j \in J THEN Mail(j) \cup {t}
                                                      ELSE Mail(j)
      /\ KillsDone' = KillsDone
  BY <1>1, <1>3, MailAdded
<1>6. \A j : News(j)' = News(j)
  BY NewsKept
<1>7. EndInv'
  BY EndFrame DEF SafeInv, EndInv
<1>8. HelperCounters'
  BY <1>1, <1>3, HelperFrame, CountersSplit DEF SafeInv
<1>9. \A j \in Jobs \ J : Untouched(j)
  BY <1>5, <1>6 DEF Untouched
<1>10. \A j \in Jobs : Mail(j) \cap Decisions = {}
  BY <1>2 DEF Mail
<1>11. MailJobs("SCHED_KILL_JOB")' = IF t = "SCHED_KILL_JOB" THEN J ELSE {}
  BY <1>1, <1>2, <1>3
<1>12. /\ \A s \in Submitters : Blocked(s)' <=> Blocked(s)
       /\ \A s \in Submitters : \A T : Said(s, T)' <=> Said(s, T)
  BY <1>1, <1>3
<1> HIDE DEF Untouched
<1> QED BY <1>1, <1>2, <1>4, <1>5, <1>6, <1>7, <1>8, <1>9, <1>10, <1>11, <1>12

\* EXECUTE_JOB for a job that was offered.
LEMMA ExecuteSafe ==
  ASSUME TypeOK, TypeOK', SafeInv, NEW j \in Jobs, NEW A \in SUBSET Machines,
         SchedExecute(j, A)
  PROVE  SafeInv'
<1>1. /\ Deciding /\ ~told_end /\ j \notin Driven /\ view[j] = "submitted"
      /\ A \subseteq FreeInView /\ Cardinality(A) = Req[j]
      /\ view' = [view EXCEPT ![j] = "running"]
      /\ alloc' = [alloc EXCEPT ![j] = A]
      /\ Send("SCHED_EXECUTE_JOB", "reqrep", {j})
      /\ aborted' = (j \in deleted)
      /\ UNCHANGED <<notSched, jobVars, told_end, end_register>>
  BY DEF SchedExecute
<1> DEFINE t == "SCHED_EXECUTE_JOB"
<1>2. /\ t \in Decisions /\ {j} \in SUBSET Jobs /\ t \in LifeMail
      /\ \A k \in Jobs \ {j} : job_state'[k] = job_state[k] /\ view'[k] = view[k]
      /\ \E k \in Jobs : {j} = {k}
  BY <1>1 DEF Decisions, LifeMail, OfOneJob, TypeOK
<1>3. /\ MailSound' /\ EndInv' /\ HelperCounters'
      /\ \A T \in Decisions : ~Posted(T) /\ MailJobs(T) = {}
      /\ \A T : Posted(T)' <=> Posted(T) \/ T = t
      /\ KillsDone' = KillsDone
      /\ MailJobs("SCHED_KILL_JOB")' = {}
      /\ \A s \in Submitters : Blocked(s)' <=> Blocked(s)
      /\ \A s \in Submitters : \A T : Said(s, T)' <=> Said(s, T)
      /\ \A k : Mail(k)' = IF k \in {j} THEN Mail(k) \cup {t} ELSE Mail(k)
      /\ \A k : News(k)' = News(k)
      /\ \A k \in Jobs \ {j} : Untouched(k)
      /\ \A k \in Jobs : Mail(k) \cap Decisions = {}
  BY <1>1, <1>2, DecisionFrame
<1>4. Offered(j) /\ Mail(j) = {}
  <2>1. Lives(j) /\ view[j] = "submitted"
    BY <1>1 DEF SafeInv, LifeCycle
  <2>2. Offered(j)
    BY <2>1 DEF Lives, Waiting, Announced, Registered, Ordered, Computing, Ended,
       Killed, Counted, Deleted, Refused, Steered, Closed, In
  <2> QED BY <1>3, <2>2 DEF Offered, Decisions
<1>5. NoAssertionFails'
  BY <1>1, <1>4 DEF Offered, Kept, NoAssertionFails
<1>6. Ordered(j)'
  BY <1>1, <1>3, <1>4 DEF Offered, Ordered, In, Kept, TypeOK
<1>7. LifeCycle'
  BY <1>3, <1>6, LifeOne DEF SafeInv, Lives
<1>8. KillInv'
  BY <1>1, <1>3, KillFrame DEF SafeInv
<1>9. MachineInv'
  <2>1. \A k \in Jobs : view[k] = "running" => alloc[k] \cap A = {}
    BY <1>1 DEF FreeInView
  <2>2. actor[j] = "none"
    BY <1>4 DEF Offered, In
  <2>3. /\ alloc'[j] = A /\ view'[j] = "running"
        /\ \A k \in Jobs : k # j => alloc'[k] = alloc[k] /\ view'[k] = view[k]
    BY <1>1 DEF TypeOK
  <2>4. \A m \in Machines, k \in Jobs :
           k \in jobs_being_computed'[m]
             <=> actor'[k] \in {"executing", "cancelled"} /\ m \in alloc'[k]
    BY <1>1, <2>2, <2>3 DEF SafeInv, MachineInv
  <2>5. \A k \in Jobs : view'[k] = "running" => Cardinality(alloc'[k]) = Req[k]
    BY <1>1, <2>3 DEF SafeInv, MachineInv
  <2>6. \A i, k \in Jobs : view'[i] = "running" /\ view'[k] = "running" /\ i # k
                             => alloc'[i] \cap alloc'[k] = {}
    BY <2>1, <2>3 DEF SafeInv, MachineInv
  <2> QED BY <2>4, <2>5, <2>6 DEF MachineInv
<1>10. SubmitterInv'
  <2>1. job_state[j] # "not_submitted"
    BY <1>4 DEF Offered, In
  <2>2. \A s \in Submitters : \A k \in todo[s] :
            job_state'[k] = "not_submitted" /\ Mail(k)' = {}
    BY <1>1, <1>3, <2>1 DEF SafeInv, SubmitterInv
  <2>3. \A k \in origin_of_jobs' : job_state'[k] # "not_submitted"
    BY <1>1 DEF SafeInv, SubmitterInv
  <2> QED BY <1>1, <1>3, <2>2, <2>3, SubmitterFrame DEF SafeInv
<1>11. RegistrationInv'
  BY <1>1, <1>3, RegistrationFrame DEF SafeInv
<1>12. JobCounters'
  <2>1. JobCounters /\ \A k \in Jobs \ {j} : Untouched(k)
    BY <1>3, CountersSplit DEF SafeInv
  <2>2. /\ j \in SubmittedJobs' /\ j \in SubmittedJobs
        /\ j \notin RunningJobs' /\ j \notin RunningJobs
        /\ j \notin CompletedJobs' /\ j \notin CompletedJobs
        /\ j \notin KilledJobs' /\ j \notin KilledJobs
    BY <1>1, <1>3, <1>4, CountedJobs, CountedNext DEF Offered, In
  <2> QED BY <1>1, <2>1, <2>2, CountOne
<1>13. CountersAgree'
  BY <1>3, <1>12, CountersJoin
<1> QED BY <1>3, <1>5, <1>7, <1>8, <1>9, <1>10, <1>11, <1>13 DEF SafeInv

\* REJECT_JOB, or CHANGE_JOB_STATE to REJECTED, for a job that was offered.
LEMMA RejectSafe ==
  ASSUME TypeOK, TypeOK', SafeInv, NEW j \in Jobs, SchedReject(j)
  PROVE  SafeInv'
<1>1. /\ Deciding /\ ~told_end /\ view[j] = "submitted"
      /\ view' = [view EXCEPT ![j] = "done"]
      /\ UNCHANGED <<notSched, jobVars, aborted, alloc, told_end, end_register>>
  BY DEF SchedReject
<1> SUFFICES ASSUME NEW t \in {"SCHED_REJECT_JOB", "CHANGE_TO_REJECTED"},
                    Send(t, "reqrep", {j})
             PROVE  SafeInv'
  BY DEF SchedReject
<1>2. /\ t \in Decisions /\ {j} \in SUBSET Jobs /\ t \in LifeMail
      /\ \A k \in Jobs \ {j} : job_state'[k] = job_state[k] /\ view'[k] = view[k]
      /\ \E k \in Jobs : {j} = {k}
  BY <1>1 DEF Decisions, LifeMail, OfOneJob, TypeOK
<1>3. /\ MailSound' /\ EndInv' /\ HelperCounters'
      /\ \A T \in Decisions : ~Posted(T) /\ MailJobs(T) = {}
      /\ \A T : Posted(T)' <=> Posted(T) \/ T = t
      /\ KillsDone' = KillsDone
      /\ MailJobs("SCHED_KILL_JOB")' = {}
      /\ \A s \in Submitters : Blocked(s)' <=> Blocked(s)
      /\ \A s \in Submitters : \A T : Said(s, T)' <=> Said(s, T)
      /\ \A k : Mail(k)' = IF k \in {j} THEN Mail(k) \cup {t} ELSE Mail(k)
      /\ \A k : News(k)' = News(k)
      /\ \A k \in Jobs \ {j} : Untouched(k)
      /\ \A k \in Jobs : Mail(k) \cap Decisions = {}
  BY <1>1, <1>2, DecisionFrame
<1>4. Offered(j) /\ Mail(j) = {}
  <2>1. Lives(j) /\ view[j] = "submitted"
    BY <1>1 DEF SafeInv, LifeCycle
  <2>2. Offered(j)
    BY <2>1 DEF Lives, Waiting, Announced, Registered, Ordered, Computing, Ended,
       Killed, Counted, Deleted, Refused, Steered, Closed, In
  <2> QED BY <1>3, <2>2 DEF Offered, Decisions
<1>5. NoAssertionFails'
  BY <1>1 DEF SafeInv, NoAssertionFails
<1>6. Refused(j)'
  BY <1>1, <1>3, <1>4 DEF Offered, Refused, In, Kept, TypeOK
<1>7. LifeCycle'
  BY <1>3, <1>6, LifeOne DEF SafeInv, Lives
<1>8. KillInv'
  BY <1>1, <1>3, KillFrame DEF SafeInv
<1>9. MachineInv'
  BY <1>1, MachineFrame DEF SafeInv, TypeOK
<1>10. SubmitterInv'
  <2>1. job_state[j] # "not_submitted"
    BY <1>4 DEF Offered, In
  <2>2. \A s \in Submitters : \A k \in todo[s] :
            job_state'[k] = "not_submitted" /\ Mail(k)' = {}
    BY <1>1, <1>3, <2>1 DEF SafeInv, SubmitterInv
  <2>3. \A k \in origin_of_jobs' : job_state'[k] # "not_submitted"
    BY <1>1 DEF SafeInv, SubmitterInv
  <2> QED BY <1>1, <1>3, <2>2, <2>3, SubmitterFrame DEF SafeInv
<1>11. RegistrationInv'
  BY <1>1, <1>3, RegistrationFrame DEF SafeInv
<1>12. JobCounters'
  <2>1. JobCounters /\ \A k \in Jobs \ {j} : Untouched(k)
    BY <1>3, CountersSplit DEF SafeInv
  <2>2. /\ j \in SubmittedJobs' /\ j \in SubmittedJobs
        /\ j \notin RunningJobs' /\ j \notin RunningJobs
        /\ j \notin CompletedJobs' /\ j \notin CompletedJobs
        /\ j \notin KilledJobs' /\ j \notin KilledJobs
    BY <1>1, <1>3, <1>4, CountedJobs, CountedNext DEF Offered, In
  <2> QED BY <1>1, <2>1, <2>2, CountOne
<1>13. CountersAgree'
  BY <1>3, <1>12, CountersJoin
<1> QED BY <1>3, <1>5, <1>7, <1>8, <1>9, <1>10, <1>11, <1>13 DEF SafeInv

\* CHANGE_JOB_STATE to RUNNING, then to COMPLETED, for a job it drives.
LEMMA ChangeStateSafe ==
  ASSUME TypeOK, TypeOK', SafeInv, NEW j \in Jobs, SchedChangeState(j)
  PROVE  SafeInv'
<1>1. /\ Deciding /\ ~told_end /\ j \in Driven
      /\ UNCHANGED <<notSched, jobVars, aborted, alloc, told_end, end_register>>
  BY DEF SchedChangeState
<1> SUFFICES ASSUME NEW t \in {"CHANGE_TO_RUNNING", "CHANGE_TO_COMPLETED"},
                    Send(t, "reqrep", {j}),
                    \/ /\ t = "CHANGE_TO_RUNNING" /\ view[j] = "submitted"
                       /\ view' = [view EXCEPT ![j] = "driven"]
                    \/ /\ t = "CHANGE_TO_COMPLETED" /\ view[j] = "driven"
                       /\ view' = [view EXCEPT ![j] = "done"]
             PROVE  SafeInv'
  BY DEF SchedChangeState
<1>2. /\ t \in Decisions /\ {j} \in SUBSET Jobs /\ t \in LifeMail
      /\ \A k \in Jobs \ {j} : job_state'[k] = job_state[k] /\ view'[k] = view[k]
      /\ \E k \in Jobs : {j} = {k}
  BY <1>1 DEF Decisions, LifeMail, OfOneJob, TypeOK
<1>3. /\ MailSound' /\ EndInv' /\ HelperCounters'
      /\ \A T \in Decisions : ~Posted(T) /\ MailJobs(T) = {}
      /\ \A T : Posted(T)' <=> Posted(T) \/ T = t
      /\ KillsDone' = KillsDone
      /\ MailJobs("SCHED_KILL_JOB")' = {}
      /\ \A s \in Submitters : Blocked(s)' <=> Blocked(s)
      /\ \A s \in Submitters : \A T : Said(s, T)' <=> Said(s, T)
      /\ \A k : Mail(k)' = IF k \in {j} THEN Mail(k) \cup {t} ELSE Mail(k)
      /\ \A k : News(k)' = News(k)
      /\ \A k \in Jobs \ {j} : Untouched(k)
      /\ \A k \in Jobs : Mail(k) \cap Decisions = {}
  BY <1>1, <1>2, DecisionFrame
<1>4. /\ Mail(j) = {} /\ News(j) = {} /\ Kept(j) /\ actor[j] = "none"
      /\ t = "CHANGE_TO_RUNNING" => job_state[j] = "submitted"
      /\ t = "CHANGE_TO_COMPLETED" => job_state[j] = "running"
  <2>1. Lives(j) /\ view[j] \in {"submitted", "driven"}
    BY <1>1 DEF SafeInv, LifeCycle
  <2>2. Offered(j) \/ Steered(j)
    BY <2>1 DEF Lives, Waiting, Announced, Registered, Ordered, Computing, Ended,
       Killed, Counted, Deleted, Refused, Closed, In
  <2> QED BY <1>3, <2>2 DEF Offered, Steered, Decisions, In
<1>5. NoAssertionFails'
  BY <1>1 DEF SafeInv, NoAssertionFails
<1>6. Steered(j)'
  <2>1. Mail(j)' = {t} /\ News(j)' = {} /\ Kept(j)'
    BY <1>1, <1>3, <1>4 DEF Kept
  <2>2. \/ t = "CHANGE_TO_RUNNING" /\ In(j, "submitted", "driven", "none")'
        \/ t = "CHANGE_TO_COMPLETED" /\ In(j, "running", "done", "none")'
    BY <1>1, <1>4 DEF In, TypeOK
  <2> QED BY <1>1, <2>1, <2>2 DEF Steered
<1>7. LifeCycle'
  BY <1>3, <1>6, LifeOne DEF SafeInv, Lives
<1>8. KillInv'
  BY <1>1, <1>3, KillFrame DEF SafeInv
<1>9. MachineInv'
  BY <1>1, MachineFrame DEF SafeInv, TypeOK
<1>10. SubmitterInv'
  <2>1. job_state[j] # "not_submitted"
    BY <1>4
  <2>2. \A s \in Submitters : \A k \in todo[s] :
            job_state'[k] = "not_submitted" /\ Mail(k)' = {}
    BY <1>1, <1>3, <2>1 DEF SafeInv, SubmitterInv
  <2>3. \A k \in origin_of_jobs' : job_state'[k] # "not_submitted"
    BY <1>1 DEF SafeInv, SubmitterInv
  <2> QED BY <1>1, <1>3, <2>2, <2>3, SubmitterFrame DEF SafeInv
<1>11. RegistrationInv'
  BY <1>1, <1>3, RegistrationFrame DEF SafeInv
<1>12. JobCounters'
  <2>1. JobCounters /\ \A k \in Jobs \ {j} : Untouched(k)
    BY <1>3, CountersSplit DEF SafeInv
  <2>2. /\ j \in SubmittedJobs' <=> j \in SubmittedJobs
        /\ j \in RunningJobs' <=> j \in RunningJobs
        /\ j \notin CompletedJobs' /\ j \notin CompletedJobs
        /\ j \notin KilledJobs' /\ j \notin KilledJobs
    BY <1>1, <1>3, <1>4, CountedJobs, CountedNext
  <2> QED BY <1>1, <2>1, <2>2, CountOne
<1>13. CountersAgree'
  BY <1>3, <1>12, CountersJoin
<1> QED BY <1>3, <1>5, <1>7, <1>8, <1>9, <1>10, <1>11, <1>13 DEF SafeInv

\* A dynamic job is registered while registration is open: the server has not
\* recorded its end.
LEMMA RegisterSafe ==
  ASSUME TypeOK, TypeOK', SafeInv, NEW j \in Jobs, SchedRegister(j)
  PROVE  SafeInv'
<1>1. /\ Deciding /\ ~told_end /\ end_register \in {"open", "reopened"}
      /\ j \in DynJobs /\ view[j] = "unknown"
      /\ view' = [view EXCEPT ![j] =
                    IF RegistrationAck THEN "registered" ELSE "submitted"]
      /\ job_state' = [job_state EXCEPT ![j] = "submitted"]
      /\ aborted' = registration_sched_finished
      /\ Send("JOB_REGISTERED_BY_DP", "reqrep", {j})
      /\ UNCHANGED <<notSched, actor, jobs_being_computed, alloc, told_end,
                     end_register>>
  BY DEF SchedRegister
<1> DEFINE t == "JOB_REGISTERED_BY_DP"
<1>2. /\ t \in Decisions /\ {j} \in SUBSET Jobs /\ t \in LifeMail
      /\ \A k \in Jobs \ {j} : job_state'[k] = job_state[k] /\ view'[k] = view[k]
      /\ \E k \in Jobs : {j} = {k}
  BY <1>1 DEF Decisions, LifeMail, OfOneJob, TypeOK
<1>3. /\ MailSound' /\ EndInv' /\ HelperCounters'
      /\ \A T \in Decisions : ~Posted(T) /\ MailJobs(T) = {}
      /\ \A T : Posted(T)' <=> Posted(T) \/ T = t
      /\ KillsDone' = KillsDone
      /\ MailJobs("SCHED_KILL_JOB")' = {}
      /\ \A s \in Submitters : Blocked(s)' <=> Blocked(s)
      /\ \A s \in Submitters : \A T : Said(s, T)' <=> Said(s, T)
      /\ \A k : Mail(k)' = IF k \in {j} THEN Mail(k) \cup {t} ELSE Mail(k)
      /\ \A k : News(k)' = News(k)
      /\ \A k \in Jobs \ {j} : Untouched(k)
      /\ \A k \in Jobs : Mail(k) \cap Decisions = {}
  BY <1>1, <1>2, DecisionFrame
<1>4. Waiting(j) /\ Mail(j) = {}
  <2>1. Lives(j) /\ view[j] = "unknown" /\ j \in DynJobs
    BY <1>1 DEF SafeInv, LifeCycle
  <2>2. Waiting(j)
    BY <2>1 DEF Lives, Announced, Registered, Offered, Ordered, Computing, Ended,
       Killed, Counted, Deleted, Refused, Steered, Closed, In
  <2> QED BY <2>1, <2>2 DEF Waiting
<1>5. NoAssertionFails'
  BY <1>1, <1>3 DEF SafeInv, RegistrationInv, NoAssertionFails, Decisions, TypeOK
<1>6. Registered(j)' \/ Offered(j)'
  <2>1. Mail(j)' = {t} /\ News(j)' = {} /\ Kept(j)'
    BY <1>1, <1>3, <1>4 DEF Waiting, Kept
  <2>2. /\ RegistrationAck => In(j, "submitted", "registered", "none")'
        /\ ~RegistrationAck => In(j, "submitted", "submitted", "none")'
    BY <1>1, <1>4 DEF Waiting, In, TypeOK
  <2>3. RegistrationAck \in BOOLEAN
    BY ServerAssumption DEF ServerAssumption
  <2> QED BY <2>1, <2>2, <2>3 DEF Registered, Offered
<1>7. LifeCycle'
  BY <1>3, <1>6, LifeOne DEF SafeInv, Lives
<1>8. KillInv'
  <2>1. job_state[j] = "not_submitted" /\ actor[j] = "none"
    BY <1>4 DEF Waiting, In
  <2>2. \A k \in Jobs : job_state'[k] = "killed" => job_state[k] = "killed"
    BY <1>1 DEF TypeOK
  <2>3. \A k \in UNION killers : k \in Jobs
    BY DEF TypeOK
  <2>4. \A k \in UNION killers : job_state'[k] # "killed"
    BY <2>2, <2>3 DEF SafeInv, KillInv
  <2> QED BY <1>1, <1>3, <2>4 DEF SafeInv, KillInv
<1>9. MachineInv'
  BY <1>1, MachineFrame DEF SafeInv, TypeOK
<1>10. SubmitterInv'
  <2>1. \A s \in Submitters : j \notin todo[s]
    BY <1>1 DEF SafeInv, SubmitterInv, DynJobs
  <2>2. \A s \in Submitters : \A k \in todo[s] : k \in Jobs
    BY DEF TypeOK
  <2>3. \A s \in Submitters : \A k \in todo[s] :
            job_state'[k] = "not_submitted" /\ Mail(k)' = {}
    BY <1>1, <1>2, <1>3, <2>1, <2>2 DEF SafeInv, SubmitterInv
  <2>4. \A k \in origin_of_jobs' : job_state'[k] # "not_submitted"
    BY <1>1 DEF SafeInv, SubmitterInv, TypeOK
  <2> QED BY <1>1, <1>3, <2>3, <2>4, SubmitterFrame DEF SafeInv
<1>11. RegistrationInv'
  BY <1>1, <1>3, RegistrationFrame DEF SafeInv
<1>12. JobCounters'
  <2>1. JobCounters /\ \A k \in Jobs \ {j} : Untouched(k)
    BY <1>3, CountersSplit DEF SafeInv
  <2>2. job_state'[j] = "submitted"
    BY <1>1 DEF TypeOK
  <2>3. /\ j \notin SubmittedJobs' /\ j \notin SubmittedJobs
        /\ j \notin RunningJobs' /\ j \notin RunningJobs
        /\ j \notin CompletedJobs' /\ j \notin CompletedJobs
        /\ j \notin KilledJobs' /\ j \notin KilledJobs
    BY <1>1, <1>3, <1>4, <2>2, CountedJobs, CountedNext DEF Waiting, In
  <2> QED BY <1>1, <2>1, <2>3, CountOne
<1>13. CountersAgree'
  BY <1>3, <1>12, CountersJoin
<1> QED BY <1>3, <1>5, <1>7, <1>8, <1>9, <1>10, <1>11, <1>13 DEF SafeInv

\* KILL_JOB, CALL_ME_LATER and the notifications name no job whose life they
\* change.
LEMMA RequestSafe ==
  ASSUME TypeOK, TypeOK', SafeInv,
         \/ \E K \in SUBSET Jobs : SchedKill(K)
         \/ SchedCallMeLater \/ SchedNotifyRegistration
  PROVE  SafeInv'
<1>1. /\ Deciding /\ ~told_end
      /\ UNCHANGED <<notSched, jobVars, aborted, view, alloc, told_end>>
  BY DEF SchedKill, SchedCallMeLater, SchedNotifyRegistration
<1>2. PICK t \in {"SCHED_KILL_JOB", "SCHED_CALL_ME_LATER", "END_DYNAMIC_REGISTER",
                  "CONTINUE_DYNAMIC_REGISTER"}, J \in SUBSET Jobs :
        /\ Send(t, "reqrep", J)
        /\ t = "SCHED_KILL_JOB" => \A j \in J : view[j] = "running"
        /\ \/ UNCHANGED end_register
           \/ t = "END_DYNAMIC_REGISTER" /\ end_register' \in {"ended", "closed"}
           \/ t = "CONTINUE_DYNAMIC_REGISTER" /\ end_register' = "reopened"
        /\ t = "END_DYNAMIC_REGISTER" => end_register' \in {"ended", "closed"}
  <2>1. ASSUME NEW K \in SUBSET Jobs, SchedKill(K)
        PROVE  /\ Send("SCHED_KILL_JOB", "reqrep", K)
               /\ \A j \in K : view[j] = "running"
               /\ UNCHANGED end_register
    BY <2>1 DEF SchedKill
  <2>2. ASSUME SchedCallMeLater
        PROVE  Send("SCHED_CALL_ME_LATER", "reqrep", {}) /\ UNCHANGED end_register
    BY <2>2 DEF SchedCallMeLater
  <2>3. ASSUME SchedNotifyRegistration
        PROVE  \/ /\ Send("END_DYNAMIC_REGISTER", "reqrep", {})
                  /\ end_register' \in {"ended", "closed"}
               \/ /\ Send("CONTINUE_DYNAMIC_REGISTER", "reqrep", {})
                  /\ end_register' = "reopened"
    BY <2>3 DEF SchedNotifyRegistration
  <2> QED BY <2>1, <2>2, <2>3
<1>3. t \in Decisions /\ t \notin LifeMail /\ t \notin OfOneJob
  BY DEF Decisions, LifeMail, OfOneJob
<1>4. /\ MailSound' /\ EndInv' /\ HelperCounters'
      /\ \A T \in Decisions : ~Posted(T) /\ MailJobs(T) = {}
      /\ \A T : Posted(T)' <=> Posted(T) \/ T = t
      /\ KillsDone' = KillsDone
      /\ MailJobs("SCHED_KILL_JOB")' = IF t = "SCHED_KILL_JOB" THEN J ELSE {}
      /\ \A s \in Submitters : Blocked(s)' <=> Blocked(s)
      /\ \A s \in Submitters : \A T : Said(s, T)' <=> Said(s, T)
      /\ \A k : Mail(k)' = Mail(k)
      /\ \A k : News(k)' = News(k)
  BY <1>1, <1>2, <1>3, DecisionFrame
<1>5. \A j \in Jobs : Untouched(j)
  BY <1>1, <1>4 DEF Untouched
<1>6. NoAssertionFails'
  BY <1>1 DEF SafeInv, NoAssertionFails
<1>7. LifeCycle'
  BY <1>5, LifeFrame DEF SafeInv, LifeCycle
<1>8. KillInv'
  BY <1>1, <1>2, <1>4, KillFrame DEF SafeInv
<1>9. MachineInv'
  BY <1>1, MachineFrame DEF SafeInv
<1>10. SubmitterInv'
  <2>1. /\ \A s \in Submitters : \A k \in todo[s] :
              job_state'[k] = "not_submitted" /\ Mail(k)' = {}
        /\ \A k \in origin_of_jobs' : job_state'[k] # "not_submitted"
    BY <1>1, <1>4 DEF SafeInv, SubmitterInv
  <2> QED BY <1>1, <1>4, <2>1, SubmitterFrame DEF SafeInv
<1>11. RegistrationInv'
  <2>1. {"END_DYNAMIC_REGISTER", "CONTINUE_DYNAMIC_REGISTER"} \subseteq Decisions
    BY DEF Decisions
  <2> QED BY <1>1, <1>2, <1>4, <2>1 DEF SafeInv, RegistrationInv
<1>12. CountersAgree'
  BY <1>1, <1>4, <1>5, CountKept, CountersSplit, CountersJoin DEF SafeInv
<1> QED BY <1>4, <1>6, <1>7, <1>8, <1>9, <1>10, <1>11, <1>12 DEF SafeInv

\* SCHED_READY, the answer to SIMULATION_ENDS too.
LEMMA ReadySafe ==
  ASSUME TypeOK, TypeOK', SafeInv, SchedReady
  PROVE  SafeInv'
<1>1. /\ Deciding /\ Send("SCHED_READY", "reqrep", {})
      /\ UNCHANGED <<serverSide, contextVars, jobVars, killers, sleeping,
                     submitterVars, aborted, schedVars>>
  BY DEF SchedReady
<1> DEFINE t == "SCHED_READY"
<1>2. /\ \A T : MailJobs(T)' = IF T = t THEN MailJobs(T) \cup {} ELSE MailJobs(T)
      /\ \A T : Posted(T)' <=> Posted(T) \/ T = t
      /\ \A s, T : Said(s, T)' <=> Said(s, T) \/ (s = "reqrep" /\ T = t)
      /\ \A s : Blocked(s)' <=> Blocked(s) \/ s = "reqrep"
      /\ \A T : NbMessages(T)' = IF T = t THEN NbMessages(T) + 1 ELSE NbMessages(T)
  BY <1>1, SendEffect
<1>3. /\ "reqrep" \notin Submitters /\ t \notin LifeMail /\ t \notin OfOneJob
  BY ServerAssumption DEF ServerAssumption, LifeMail, OfOneJob
<1>4. MailSound'
  <2>1. {} \cap MailJobs(t) = {} /\ ~Blocked("reqrep") /\ MailSound /\ {} \in SUBSET Jobs
    BY <1>1 DEF Deciding, SafeInv
  <2> QED BY <1>1, <1>3, <2>1, SendSound
<1>5. (\A j : Mail(j)' = Mail(j)) /\ KillsDone' = KillsDone
  <2>1. \A T : MailJobs(T)' = MailJobs(T)
    BY <1>2
  <2> QED BY <2>1 DEF Mail, KillsDone
<1>6. \A j : News(j)' = News(j)
  BY <1>1, NewsKept
<1>7. EndInv'
  <2>1. ASSUME end_of_simulation_sent,
               \A i \in DOMAIN mailbox : mailbox[i].type = "SCHED_READY"
        PROVE  \A i \in DOMAIN mailbox' : mailbox'[i].type = "SCHED_READY"
    <3>1. mailbox' = Append(mailbox, Msg(t, "reqrep", {})) /\ mailbox \in Seq(Message)
      BY <1>1 DEF Send, TypeOK
    <3>2. Msg(t, "reqrep", {}).type = "SCHED_READY"
      BY DEF Msg
    <3> QED BY <2>1, <3>1, <3>2
  <2> QED BY <1>1, <2>1 DEF SafeInv, EndInv, EndIsFinal
<1>8. HelperCounters'
  BY <1>1, <1>2, <1>3, HelperFrame, CountersSplit DEF SafeInv
<1>9. \A j \in Jobs : Untouched(j)
  BY <1>1, <1>5, <1>6 DEF Untouched
<1>10. NoAssertionFails'
  BY <1>1 DEF SafeInv, NoAssertionFails
<1>11. LifeCycle'
  BY <1>9, LifeFrame DEF SafeInv, LifeCycle
<1>12. KillInv'
  BY <1>1, <1>2, <1>5, KillFrame DEF SafeInv, KillInv
<1>13. MachineInv'
  BY <1>1, MachineFrame DEF SafeInv
<1>14. SubmitterInv'
  <2>1. /\ \A s \in Submitters : \A k \in todo[s] :
              job_state'[k] = "not_submitted" /\ Mail(k)' = {}
        /\ \A k \in origin_of_jobs' : job_state'[k] # "not_submitted"
    BY <1>1, <1>5 DEF SafeInv, SubmitterInv
  <2> QED BY <1>1, <1>2, <1>3, <2>1, SubmitterFrame DEF SafeInv
<1>15. RegistrationInv'
  BY <1>1, <1>2, RegistrationFrame DEF SafeInv
<1>16. CountersAgree'
  BY <1>1, <1>8, <1>9, CountKept, CountersSplit, CountersJoin DEF SafeInv
<1> QED BY <1>4, <1>7, <1>10, <1>11, <1>12, <1>13, <1>14, <1>15, <1>16 DEF SafeInv
-----------------------------------------------------------------------------
(* The submitters.                                                         *)

\* What a submitter sends disturbs no other submitter, and of the jobs only
\* those it names, which were still its own.
LEMMA SubmitterSend ==
  ASSUME TypeOK, TypeOK', SafeInv, NEW s \in Submitters,
         NEW t \in FromSubmitter, NEW J \in SUBSET Jobs,
         Send(t, s, J), ~Blocked(s), submitter_pc[s] # "bye",
         J \subseteq todo[s], t # "JOB_SUBMITTED" => J = {},
         UNCHANGED <<serverSide, contextVars, jobVars, killers, sleeping,
                     aborted, schedVars>>
  PROVE  /\ MailSound' /\ LifeCycle' /\ KillInv' /\ MachineInv'
         /\ RegistrationInv' /\ EndInv' /\ CountersAgree' /\ NoAssertionFails'
         /\ \A r \in Submitters : Blocked(r)' <=> Blocked(r) \/ r = s
         /\ \A r \in Submitters : \A T : Said(r, T)' <=> Said(r, T) \/ (r = s /\ T = t)
         /\ \A T : ~Said(s, T)
         /\ \A j : j \notin J => Mail(j)' = Mail(j)
<1>1. /\ \A T : MailJobs(T)' = IF T = t THEN MailJobs(T) \cup J ELSE MailJobs(T)
      /\ \A T : Posted(T)' <=> Posted(T) \/ T = t
      /\ \A r, T : Said(r, T)' <=> Said(r, T) \/ (r = s /\ T = t)
      /\ \A r : Blocked(r)' <=> Blocked(r) \/ r = s
      /\ \A T : NbMessages(T)' = IF T = t THEN NbMessages(T) + 1 ELSE NbMessages(T)
  BY SendEffect
<1>2. /\ t \notin OfOneJob /\ t \notin Decisions
      /\ t \notin {"KILLING_DONE", "WAITING_DONE"}
      /\ t \in LifeMail => t = "JOB_SUBMITTED"
      /\ "JOB_SUBMITTED" \in LifeMail
  BY DEF FromSubmitter, OfOneJob, Decisions, LifeMail
<1>3. /\ \A j : Mail(j)' = IF t \in LifeMail /\ j \in J THEN Mail(j) \cup {t}
                                                      ELSE Mail(j)
      /\ KillsDone' = KillsDone
  BY <1>1, <1>2, MailAdded
<1>4. \A j : News(j)' = News(j)
  BY NewsKept
<1>5. \A j \in J : job_state[j] = "not_submitted" /\ Mail(j) = {} /\ j \notin DynJobs
  BY DEF SafeInv, SubmitterInv, DynJobs
<1>6. MailSound'
  <2>1. t = "JOB_SUBMITTED" => J \cap MailJobs(t) = {}
    BY <1>2, <1>5 DEF Mail
  <2>2. t = "JOB_SUBMITTED" => J \subseteq JobsOf[s]
    BY DEF SafeInv, SubmitterInv
  <2>3. CASE t = "JOB_SUBMITTED"
    BY <1>2, <2>1, <2>2, <2>3, SendSound DEF SafeInv
  <2>4. CASE t # "JOB_SUBMITTED"
    <3>1. J \cap MailJobs(t) = {}
      BY <2>4
    <3> QED BY <1>2, <2>4, <3>1, SendSound DEF SafeInv
  <2> QED BY <2>3, <2>4
<1>7. ASSUME NEW j \in J, t = "JOB_SUBMITTED" PROVE Waiting(j)'
  <2>1. Lives(j) /\ job_state[j] = "not_submitted"
    BY <1>5 DEF SafeInv, LifeCycle
  <2>2. Waiting(j)
    BY <2>1 DEF Lives, Announced, Registered, Offered, Ordered, Computing, Ended,
       Killed, Counted, Deleted, Refused, Steered, Closed, In
  <2>3. Mail(j)' = {"JOB_SUBMITTED"}
    BY <1>2, <1>3, <1>5, <1>7
  <2> QED BY <1>4, <1>5, <2>2, <2>3 DEF Waiting, In, Kept
<1>8. \A j \in Jobs : j \notin J \/ t # "JOB_SUBMITTED" => Untouched(j)
  BY <1>2, <1>3, <1>4 DEF Untouched
<1>9. LifeCycle'
  <2>1. ASSUME NEW j \in Jobs PROVE Lives(j)'
    <3>1. CASE j \notin J \/ t # "JOB_SUBMITTED"
      BY <1>8, <3>1, LifeFrame DEF SafeInv, LifeCycle
    <3>2. CASE j \in J /\ t = "JOB_SUBMITTED"
      BY <1>7, <3>2 DEF Lives
    <3> QED BY <3>1, <3>2
  <2> QED BY <2>1 DEF LifeCycle
<1>10. JobCounters'
  <2>1. \A j \in J : /\ j \notin SubmittedJobs /\ j \notin SubmittedJobs'
                     /\ j \notin RunningJobs /\ j \notin RunningJobs'
                     /\ j \notin CompletedJobs /\ j \notin CompletedJobs'
                     /\ j \notin KilledJobs /\ j \notin KilledJobs'
    BY <1>5, CountedJobs, CountedNext
  <2>2. \A j \in Jobs \ J : Untouched(j)
    BY <1>8
  <2>3. /\ SubmittedJobs' \ J = SubmittedJobs \ J
        /\ RunningJobs' \ J = RunningJobs \ J
        /\ CompletedJobs' \ J = CompletedJobs \ J
        /\ KilledJobs' \ J = KilledJobs \ J
    BY <2>2, CountFrame
  <2>4. /\ SubmittedJobs' = SubmittedJobs /\ RunningJobs' = RunningJobs
        /\ CompletedJobs' = CompletedJobs /\ KilledJobs' = KilledJobs
    BY <2>1, <2>3
  <2> QED BY <2>4, CountersSplit DEF JobCounters, SafeInv
<1>11. HelperCounters'
  BY <1>1, <1>2, HelperFrame, CountersSplit DEF SafeInv
<1>12. CountersAgree'
  BY <1>10, <1>11, CountersJoin
<1>13. KillInv'
  <2>1. \A j \in MailJobs("SCHED_KILL_JOB")' : view'[j] = "running"
    BY <1>1, <1>2 DEF SafeInv, KillInv, Decisions
  <2> QED BY <1>3, <2>1, KillFrame DEF SafeInv
<1>14. MachineInv'
  BY MachineFrame DEF SafeInv
<1>15. RegistrationInv'
  BY <1>1, <1>2, RegistrationFrame DEF SafeInv, Decisions
<1>16. EndInv'
  BY EndFrame DEF SafeInv, EndInv, EndIsFinal
<1>17. NoAssertionFails'
  BY DEF SafeInv, NoAssertionFails
<1>18. /\ \A r \in Submitters : Blocked(r)' <=> Blocked(r) \/ r = s
       /\ \A r \in Submitters : \A T : Said(r, T)' <=> Said(r, T) \/ (r = s /\ T = t)
       /\ \A T : ~Said(s, T)
       /\ \A j : j \notin J => Mail(j)' = Mail(j)
  BY <1>1, <1>3 DEF Said, Blocked
<1> QED BY <1>6, <1>9, <1>12, <1>13, <1>14, <1>15, <1>16, <1>17, <1>18

\* A submitter says hello.
LEMMA HelloSafe ==
  ASSUME TypeOK, TypeOK', SafeInv, NEW s \in Submitters, SubmitterHello(s)
  PROVE  SafeInv'
<1> DEFINE t == "SUBMITTER_HELLO"
<1>1. /\ submitter_pc[s] = "start"
      /\ submitter_pc' = [submitter_pc EXCEPT ![s] = "submitting"]
      /\ Send(t, s, {})
      /\ UNCHANGED <<serverSide, contextVars, jobVars, killers, sleeping, inbox,
                     todo, submitted_tasks, reqrep, aborted, schedVars>>
  BY DEF SubmitterHello
<1>2. ~Blocked(s) /\ s \notin submitters /\ t \in FromSubmitter /\ t # "JOB_SUBMITTED"
  BY <1>1 DEF SafeInv, SubmitterInv, FromSubmitter
<1>3. /\ MailSound' /\ LifeCycle' /\ KillInv' /\ MachineInv'
      /\ RegistrationInv' /\ EndInv' /\ CountersAgree' /\ NoAssertionFails'
      /\ \A r \in Submitters : Blocked(r)' <=> Blocked(r) \/ r = s
      /\ \A r \in Submitters : \A T : Said(r, T)' <=> Said(r, T) \/ (r = s /\ T = t)
      /\ \A T : ~Said(s, T)
      /\ \A j : Mail(j)' = Mail(j)
  <2>1. {} \in SUBSET Jobs /\ {} \subseteq todo[s] /\ submitter_pc[s] # "bye"
    BY <1>1
  <2>2. \A j : j \notin {}
    OBVIOUS
  <2> QED BY <1>1, <1>2, <2>1, <2>2, SubmitterSend
<1>4. /\ submitter_pc'[s] = "submitting"
      /\ \A r \in Submitters : r # s => submitter_pc'[r] = submitter_pc[r]
  BY <1>1 DEF TypeOK
<1>5. SubmitterInv'
  <2>1. {r \in Submitters : submitter_pc'[r] = "bye" /\ r \notin submitters'}
          = {r \in Submitters : submitter_pc[r] = "bye" /\ r \notin submitters}
    BY <1>1, <1>4
  <2>2. nb_submitters_finished' =
          Cardinality({r \in Submitters : submitter_pc'[r] = "bye" /\ r \notin submitters'})
    BY <1>1, <2>1 DEF SafeInv, SubmitterInv
  <2>3. ASSUME NEW r \in Submitters
        PROVE  /\ submitter_pc'[r] = "start" => ~Blocked(r)' /\ r \notin submitters'
               /\ submitter_pc'[r] = "submitting" =>
                    /\ ~Said(r, "SUBMITTER_BYE")'
                    /\ r \in submitters' <=> ~Said(r, "SUBMITTER_HELLO")'
               /\ submitter_pc'[r] = "bye" =>
                    /\ ~Said(r, "SUBMITTER_HELLO")' /\ ~Said(r, "JOB_SUBMITTED")'
                    /\ r \in submitters' <=> Said(r, "SUBMITTER_BYE")'
               /\ todo'[r] \subseteq JobsOf[r]
               /\ \A j \in todo'[r] : job_state'[j] = "not_submitted" /\ Mail(j)' = {}
    <3>1. CASE r = s
      BY <1>1, <1>2, <1>3, <1>4, <3>1 DEF SafeInv, SubmitterInv
    <3>2. CASE r # s
      BY <1>1, <1>3, <1>4, <3>2 DEF SafeInv, SubmitterInv
    <3> QED BY <3>1, <3>2
  <2>4. \A j \in origin_of_jobs' : job_state'[j] # "not_submitted"
    BY <1>1 DEF SafeInv, SubmitterInv
  <2> QED BY <2>2, <2>3, <2>4 DEF SubmitterInv
<1> QED BY <1>3, <1>5 DEF SafeInv

\* A submitter says goodbye, with nothing left to send.
LEMMA ByeSafe ==
  ASSUME TypeOK, TypeOK', SafeInv, NEW s \in Submitters, SubmitterBye(s)
  PROVE  SafeInv'
<1> DEFINE t == "SUBMITTER_BYE"
<1>1. /\ submitter_pc[s] = "submitting" /\ ~Blocked(s)
      /\ submitter_pc' = [submitter_pc EXCEPT ![s] = "bye"]
      /\ Send(t, s, {})
      /\ UNCHANGED <<serverSide, contextVars, jobVars, killers, sleeping, inbox,
                     todo, submitted_tasks, reqrep, aborted, schedVars>>
  BY DEF SubmitterBye
<1>2. t \in FromSubmitter /\ t # "JOB_SUBMITTED"
  BY DEF FromSubmitter
<1>3. /\ MailSound' /\ LifeCycle' /\ KillInv' /\ MachineInv'
      /\ RegistrationInv' /\ EndInv' /\ CountersAgree' /\ NoAssertionFails'
      /\ \A r \in Submitters : Blocked(r)' <=> Blocked(r) \/ r = s
      /\ \A r \in Submitters : \A T : Said(r, T)' <=> Said(r, T) \/ (r = s /\ T = t)
      /\ \A T : ~Said(s, T)
      /\ \A j : Mail(j)' = Mail(j)
  <2>1. {} \in SUBSET Jobs /\ {} \subseteq todo[s] /\ submitter_pc[s] # "bye"
    BY <1>1
  <2>2. \A j : j \notin {}
    OBVIOUS
  <2> QED BY <1>1, <1>2, <2>1, <2>2, SubmitterSend
<1>4. /\ submitter_pc'[s] = "bye"
      /\ \A r \in Submitters : r # s => submitter_pc'[r] = submitter_pc[r]
  BY <1>1 DEF TypeOK
<1>5. s \in submitters
  BY <1>1, <1>3 DEF SafeInv, SubmitterInv
<1>6. SubmitterInv'
  <2>1. {r \in Submitters : submitter_pc'[r] = "bye" /\ r \notin submitters'}
          = {r \in Submitters : submitter_pc[r] = "bye" /\ r \notin submitters}
    BY <1>1, <1>4, <1>5
  <2>2. nb_submitters_finished' =
          Cardinality({r \in Submitters : submitter_pc'[r] = "bye" /\ r \notin submitters'})
    BY <1>1, <2>1 DEF SafeInv, SubmitterInv
  <2>3. ASSUME NEW r \in Submitters
        PROVE  /\ submitter_pc'[r] = "start" => ~Blocked(r)' /\ r \notin submitters'
               /\ submitter_pc'[r] = "submitting" =>
                    /\ ~Said(r, "SUBMITTER_BYE")'
                    /\ r \in submitters' <=> ~Said(r, "SUBMITTER_HELLO")'
               /\ submitter_pc'[r] = "bye" =>
                    /\ ~Said(r, "SUBMITTER_HELLO")' /\ ~Said(r, "JOB_SUBMITTED")'
                    /\ r \in submitters' <=> Said(r, "SUBMITTER_BYE")'
               /\ todo'[r] \subseteq JobsOf[r]
               /\ \A j \in todo'[r] : job_state'[j] = "not_submitted" /\ Mail(j)' = {}
    <3>1. CASE r = s
      BY <1>1, <1>3, <1>4, <1>5, <3>1 DEF SafeInv, SubmitterInv
    <3>2. CASE r # s
      BY <1>1, <1>3, <1>4, <3>2 DEF SafeInv, SubmitterInv
    <3> QED BY <3>1, <3>2
  <2>4. \A j \in origin_of_jobs' : job_state'[j] # "not_submitted"
    BY <1>1 DEF SafeInv, SubmitterInv
  <2> QED BY <2>2, <2>3, <2>4 DEF SubmitterInv
<1> QED BY <1>3, <1>6 DEF SafeInv

\* A submitter sends jobs it has not sent yet.
LEMMA SubmitSafe ==
  ASSUME TypeOK, TypeOK', SafeInv, NEW s \in Submitters,
         \/ \E S \in SUBSET JobsOf[s] : StaticSubmit(s, S)
         \/ \E j \in JobsOf[s] : WorkflowSubmit(s, j)
  PROVE  SafeInv'
<1> DEFINE t == "JOB_SUBMITTED"
<1>1. PICK J \in SUBSET Jobs :
        /\ submitter_pc[s] = "submitting" /\ ~Blocked(s) /\ J \subseteq todo[s]
        /\ todo' = [todo EXCEPT ![s] = @ \ J]
        /\ Send(t, s, J)
        /\ UNCHANGED <<serverSide, contextVars, jobVars, killers, sleeping, inbox,
                       submitter_pc, reqrep, aborted, schedVars>>
  <2>1. JobsOf[s] \subseteq Jobs
    BY ServerAssumption DEF ServerAssumption
  <2>2. ASSUME NEW S \in SUBSET JobsOf[s], StaticSubmit(s, S)
        PROVE  /\ submitter_pc[s] = "submitting" /\ ~Blocked(s) /\ S \subseteq todo[s]
               /\ todo' = [todo EXCEPT ![s] = @ \ S]
               /\ Send(t, s, S)
               /\ UNCHANGED <<serverSide, contextVars, jobVars, killers, sleeping, inbox,
                              submitter_pc, reqrep, aborted, schedVars>>
    BY <2>2 DEF StaticSubmit
  <2>3. ASSUME NEW j \in JobsOf[s], WorkflowSubmit(s, j)
        PROVE  /\ submitter_pc[s] = "submitting" /\ ~Blocked(s) /\ {j} \subseteq todo[s]
               /\ todo' = [todo EXCEPT ![s] = @ \ {j}]
               /\ Send(t, s, {j})
               /\ UNCHANGED <<serverSide, contextVars, jobVars, killers, sleeping, inbox,
                              submitter_pc, reqrep, aborted, schedVars>>
    BY <2>3 DEF WorkflowSubmit, ReadyTasks
  <2>4. CASE \E S \in SUBSET JobsOf[s] : StaticSubmit(s, S)
    BY <2>1, <2>2, <2>4
  <2>5. CASE \E j \in JobsOf[s] : WorkflowSubmit(s, j)
    <3>1. PICK j \in JobsOf[s] : WorkflowSubmit(s, j)
      BY <2>5
    <3>2. {j} \in SUBSET Jobs
      BY <2>1
    <3> QED BY <2>3, <3>1, <3>2
  <2> QED BY <2>4, <2>5
<1>2. t \in FromSubmitter
  BY DEF FromSubmitter
<1>3. /\ MailSound' /\ LifeCycle' /\ KillInv' /\ MachineInv'
      /\ RegistrationInv' /\ EndInv' /\ CountersAgree' /\ NoAssertionFails'
      /\ \A r \in Submitters : Blocked(r)' <=> Blocked(r) \/ r = s
      /\ \A r \in Submitters : \A T : Said(r, T)' <=> Said(r, T) \/ (r = s /\ T = t)
      /\ \A T : ~Said(s, T)
      /\ \A j : j \notin J => Mail(j)' = Mail(j)
  BY <1>1, <1>2, SubmitterSend
<1>4. todo'[s] = todo[s] \ J /\ \A r \in Submitters : r # s => todo'[r] = todo[r]
  BY <1>1 DEF TypeOK
<1>5. \A r \in Submitters : r # s => todo[r] \cap J = {}
  BY <1>1, ServerAssumption DEF ServerAssumption, SafeInv, SubmitterInv
<1>6. SubmitterInv'
  <2>1. {r \in Submitters : submitter_pc'[r] = "bye" /\ r \notin submitters'}
          = {r \in Submitters : submitter_pc[r] = "bye" /\ r \notin submitters}
    BY <1>1
  <2>2. nb_submitters_finished' =
          Cardinality({r \in Submitters : submitter_pc'[r] = "bye" /\ r \notin submitters'})
    BY <1>1, <2>1 DEF SafeInv, SubmitterInv
  <2>3. ASSUME NEW r \in Submitters
        PROVE  /\ submitter_pc'[r] = "start" => ~Blocked(r)' /\ r \notin submitters'
               /\ submitter_pc'[r] = "submitting" =>
                    /\ ~Said(r, "SUBMITTER_BYE")'
                    /\ r \in submitters' <=> ~Said(r, "SUBMITTER_HELLO")'
               /\ submitter_pc'[r] = "bye" =>
                    /\ ~Said(r, "SUBMITTER_HELLO")' /\ ~Said(r, "JOB_SUBMITTED")'
                    /\ r \in submitters' <=> Said(r, "SUBMITTER_BYE")'
               /\ todo'[r] \subseteq JobsOf[r]
               /\ \A j \in todo'[r] : job_state'[j] = "not_submitted" /\ Mail(j)' = {}
    <3>1. todo'[r] \subseteq JobsOf[r]
          /\ \A j \in todo'[r] : job_state'[j] = "not_submitted" /\ Mail(j)' = {}
      BY <1>1, <1>3, <1>4, <1>5 DEF SafeInv, SubmitterInv
    <3>2. CASE r = s
      BY <1>1, <1>3, <3>1, <3>2 DEF SafeInv, SubmitterInv
    <3>3. CASE r # s
      BY <1>1, <1>3, <3>1, <3>3 DEF SafeInv, SubmitterInv
    <3> QED BY <3>2, <3>3
  <2>4. \A j \in origin_of_jobs' : job_state'[j] # "not_submitted"
    BY <1>1 DEF SafeInv, SubmitterInv
  <2> QED BY <2>2, <2>3, <2>4 DEF SubmitterInv
<1> QED BY <1>3, <1>6 DEF SafeInv

\* The callback of a workflow task stays between the submitter and its inbox.
LEMMA CallbackSafe ==
  ASSUME SafeInv, NEW s \in Submitters, WorkflowCallback(s)
  PROVE  SafeInv'
<1>1. UNCHANGED <<serverSide, contextVars, jobVars, mailbox, killers,
                  sleeping, todo, submitter_pc, reqrep, aborted, schedVars>>
  BY DEF WorkflowCallback
<1>2. /\ \A T : MailJobs(T)' = MailJobs(T) /\ NbMessages(T)' = NbMessages(T)
      /\ \A T : Posted(T)' <=> Posted(T)
      /\ \A r : Blocked(r)' <=> Blocked(r)
      /\ \A r, T : Said(r, T)' <=> Said(r, T)
      /\ \A j : Mail(j)' = Mail(j) /\ News(j)' = News(j)
      /\ KillsDone' = KillsDone /\ MailSound'
  BY <1>1, MailKept, NewsKept DEF SafeInv
<1>3. \A j \in Jobs : Untouched(j)
  BY <1>1, <1>2 DEF Untouched
<1>4. LifeCycle' /\ NoAssertionFails'
  BY <1>1, <1>3, LifeFrame DEF SafeInv, LifeCycle, NoAssertionFails
<1>5. KillInv' /\ MachineInv' /\ RegistrationInv'
  BY <1>1, <1>2, RegistrationFrame DEF SafeInv, KillInv, MachineInv
<1>6. SubmitterInv'
  <2>1. /\ \A r \in Submitters : \A k \in todo[r] :
              job_state'[k] = "not_submitted" /\ Mail(k)' = {}
        /\ \A k \in origin_of_jobs' : job_state'[k] # "not_submitted"
    BY <1>1, <1>2 DEF SafeInv, SubmitterInv
  <2> QED BY <1>1, <1>2, <2>1, SubmitterFrame DEF SafeInv
<1>7. EndInv'
  BY <1>1 DEF SafeInv, EndInv, EndIsFinal
<1>8. CountersAgree'
  BY <1>1, <1>2, <1>3, CountKept, HelperFrame, CountersSplit, CountersJoin DEF SafeInv
<1> QED BY <1>2, <1>4, <1>5, <1>6, <1>7, <1>8 DEF SafeInv
-----------------------------------------------------------------------------
(* The job execution actors, the killers and the waiters.                  *)

\* A job whose actor exists computes on its machines, or has ended.
LEMMA ActorLives ==
  ASSUME LifeCycle, NEW j \in Jobs, actor[j] # "none"
  PROVE  Computing(j) \/ Ended(j) \/ Killed(j) \/ Counted(j) \/ Deleted(j)
BY DEF LifeCycle, Lives, Waiting, Announced, Registered, Offered, Ordered,
       Refused, Steered, Closed, In

\* A job actor starts: its machines compute nothing else.
LEMMA JobStartSafe ==
  ASSUME TypeOK, TypeOK', SafeInv, NEW j \in Jobs, JobStart(j)
  PROVE  SafeInv'
<1>1. /\ actor[j] = "spawned" /\ actor' = [actor EXCEPT ![j] = "executing"]
      /\ jobs_being_computed' =
           [m \in Machines |-> IF m \in alloc[j]
                               THEN jobs_being_computed[m] \cup {j}
                               ELSE jobs_being_computed[m]]
      /\ UNCHANGED <<serverSide, contextVars, job_state, mailbox, killers,
                     sleeping, submitterVars, reqrep, aborted, schedVars>>
  BY DEF JobStart
<1>2. /\ \A T : MailJobs(T)' = MailJobs(T) /\ NbMessages(T)' = NbMessages(T)
      /\ \A T : Posted(T)' <=> Posted(T)
      /\ \A r : Blocked(r)' <=> Blocked(r)
      /\ \A r, T : Said(r, T)' <=> Said(r, T)
      /\ \A k : Mail(k)' = Mail(k) /\ News(k)' = News(k)
      /\ KillsDone' = KillsDone /\ MailSound'
  BY <1>1, MailKept, NewsKept DEF SafeInv
<1>3. actor'[j] = "executing" /\ \A k \in Jobs : k # j => actor'[k] = actor[k]
  BY <1>1 DEF TypeOK
<1>4. \A k \in Jobs \ {j} : Untouched(k)
  BY <1>1, <1>2, <1>3 DEF Untouched
<1>5. Computing(j)
  BY <1>1, ActorLives DEF SafeInv, Ended, Killed, Counted, Deleted, In
<1>6. LifeCycle'
  <2>1. Computing(j)'
    BY <1>1, <1>2, <1>3, <1>5 DEF Computing, Kept
  <2> QED BY <1>4, <2>1, LifeOne DEF SafeInv, Lives
<1>7. KillInv'
  <2>1. killers = {} /\ j \notin kill_requested
    BY <1>1 DEF SafeInv, KillInv
  <2>2. \A k \in Jobs : actor'[k] = "cancelled" => actor[k] = "cancelled"
    BY <1>3
  <2>3. \A k \in kill_requested : actor'[k] \notin {"none", "spawned"}
    BY <1>3, <2>1 DEF SafeInv, KillInv, TypeOK
  <2> QED BY <1>1, <1>2, <2>1, <2>2, <2>3 DEF SafeInv, KillInv
<1>8. MachineInv'
  <2>1. \A m \in Machines : j \notin jobs_being_computed[m]
    BY <1>1 DEF SafeInv, MachineInv
  <2>2. \A m \in Machines, k \in Jobs :
           k \in jobs_being_computed'[m]
             <=> actor'[k] \in {"executing", "cancelled"} /\ m \in alloc'[k]
    BY <1>1, <1>3, <2>1 DEF SafeInv, MachineInv
  <2> QED BY <1>1, <2>2 DEF SafeInv, MachineInv
<1>9. SubmitterInv'
  <2>1. /\ \A r \in Submitters : \A k \in todo[r] :
              job_state'[k] = "not_submitted" /\ Mail(k)' = {}
        /\ \A k \in origin_of_jobs' : job_state'[k] # "not_submitted"
    BY <1>1, <1>2 DEF SafeInv, SubmitterInv
  <2> QED BY <1>1, <1>2, <2>1, SubmitterFrame DEF SafeInv
<1>10. RegistrationInv' /\ NoAssertionFails'
  BY <1>1, <1>2, RegistrationFrame DEF SafeInv, NoAssertionFails
<1>11. EndInv'
  <2>1. ~end_of_simulation_sent
    BY <1>1 DEF SafeInv, EndInv, EndIsFinal
  <2> QED BY <1>1, <2>1, EndFrame DEF SafeInv
<1>12. CountersAgree'
  <2>1. /\ j \in SubmittedJobs' <=> j \in SubmittedJobs
        /\ j \in RunningJobs' <=> j \in RunningJobs
        /\ j \in CompletedJobs' <=> j \in CompletedJobs
        /\ j \in KilledJobs' <=> j \in KilledJobs
    BY <1>1, <1>2, CountedJobs, CountedNext
  <2>2. JobCounters'
    BY <1>1, <1>4, <2>1, CountOne, CountersSplit DEF SafeInv
  <2> QED BY <1>1, <1>2, <2>2, HelperFrame, CountersSplit, CountersJoin DEF SafeInv
<1> QED BY <1>2, <1>6, <1>7, <1>8, <1>9, <1>10, <1>11, <1>12 DEF SafeInv

\* The machines of the jobs J that stop computing are released, and the
\* assertions of update_machines_on_job_end hold.
LEMMA MachinesReleased ==
  ASSUME TypeOK, TypeOK', MachineInv, NEW J \in SUBSET Jobs, MachinesOnJobEnd(J),
         \A j \in J : /\ actor[j] \in {"executing", "cancelled"}
                      /\ actor'[j] = "done",
         \A j \in Jobs \ J : actor'[j] \in {"executing", "cancelled"}
                               <=> actor[j] \in {"executing", "cancelled"},
         UNCHANGED <<alloc, view>>
  PROVE  MachineInv' /\ ~NotComputed(J)
<1>1. ~NotComputed(J)
  BY DEF MachineInv, NotComputed, TypeOK
<1>2. \A m \in Machines, k \in Jobs :
           k \in jobs_being_computed'[m]
             <=> actor'[k] \in {"executing", "cancelled"} /\ m \in alloc'[k]
  BY DEF MachineInv, MachinesOnJobEnd
<1> QED BY <1>1, <1>2 DEF MachineInv

\* A task ends by itself and its actor sends JOB_COMPLETED.
LEMMA JobEndSafe ==
  ASSUME TypeOK, TypeOK', SafeInv, NEW j \in Jobs, JobEnd(j)
  PROVE  SafeInv'
<1> DEFINE t == "JOB_COMPLETED"
<1>1. /\ actor[j] = "executing" /\ actor' = [actor EXCEPT ![j] = "done"]
      /\ job_state' = [job_state EXCEPT ![j] = "completed"]
      /\ MachinesOnJobEnd({j}) /\ aborted' = NotComputed({j})
      /\ Send(t, "job", {j})
      /\ UNCHANGED <<serverSide, contextVars, killers, sleeping, submitterVars,
                     reqrep, schedVars>>
  BY DEF JobEnd
<1>2. /\ actor'[j] = "done" /\ job_state'[j] = "completed"
      /\ \A k \in Jobs : k # j => actor'[k] = actor[k] /\ job_state'[k] = job_state[k]
  BY <1>1 DEF TypeOK
<1>3. Computing(j)
  BY <1>1, ActorLives DEF SafeInv, Ended, Killed, Counted, Deleted, In
<1>4. /\ \A T : MailJobs(T)' = IF T = t THEN MailJobs(T) \cup {j} ELSE MailJobs(T)
      /\ \A T : Posted(T)' <=> Posted(T) \/ T = t
      /\ \A s, T : Said(s, T)' <=> Said(s, T) \/ (s = "job" /\ T = t)
      /\ \A s : Blocked(s)' <=> Blocked(s) \/ s = "job"
      /\ \A T : NbMessages(T)' = IF T = t THEN NbMessages(T) + 1 ELSE NbMessages(T)
  BY <1>1, SendEffect
<1>5. "job" \notin Submitters \cup {"reqrep"} /\ t \in OfOneJob /\ t \in LifeMail
  BY ServerAssumption DEF ServerAssumption, OfOneJob, LifeMail
<1>6. MailSound'
  <2>1. {j} \cap MailJobs(t) = {}
    BY <1>3, <1>5 DEF Computing, Mail
  <2>2. {j} \in SUBSET Jobs /\ \E k \in Jobs : {j} = {k}
    OBVIOUS
  <2> QED BY <1>1, <1>5, <2>1, <2>2, SendSound DEF SafeInv
<1>7. /\ \A k : Mail(k)' = IF k \in {j} THEN Mail(k) \cup {t} ELSE Mail(k)
      /\ KillsDone' = KillsDone
  <2>1. \A T : MailJobs(T)' = IF T = t THEN MailJobs(T) \cup {j} ELSE MailJobs(T)
    BY <1>4
  <2>2. /\ \A k : Mail(k)' = IF t \in LifeMail /\ k \in {j} THEN Mail(k) \cup {t}
                                                        ELSE Mail(k)
        /\ KillsDone' = IF t = "KILLING_DONE" THEN KillsDone \cup {j} ELSE KillsDone
    BY <2>1, MailAdded
  <2> QED BY <1>5, <2>2
<1>8. \A k : News(k)' = News(k)
  BY <1>1, NewsKept
<1>9. \A k \in Jobs \ {j} : Untouched(k)
  BY <1>1, <1>2, <1>7, <1>8 DEF Untouched
<1>10. LifeCycle'
  <2>1. Ended(j)'
    BY <1>1, <1>2, <1>3, <1>7, <1>8 DEF Computing, Ended, In, Kept
  <2> QED BY <1>9, <2>1, LifeOne DEF SafeInv, Lives
<1>11. KillInv'
  <2>1. \A k \in kill_requested : actor'[k] \notin {"none", "spawned"}
    BY <1>2 DEF SafeInv, KillInv, TypeOK
  <2>2. \A k \in UNION killers : k \in Jobs /\ job_state'[k] # "killed"
    BY <1>2 DEF SafeInv, KillInv, TypeOK
  <2>3. \A k \in Jobs : /\ actor'[k] = "cancelled" => actor[k] = "cancelled"
                        /\ actor'[k] = "spawned" => actor[k] = "spawned"
    BY <1>2
  <2>4. MailJobs("SCHED_KILL_JOB")' = MailJobs("SCHED_KILL_JOB")
    BY <1>4
  <2> QED BY <1>1, <1>7, <2>1, <2>2, <2>3, <2>4 DEF SafeInv, KillInv
<1>12. MachineInv' /\ NoAssertionFails'
  <2>1. /\ {j} \in SUBSET Jobs
        /\ \A k \in {j} : actor[k] \in {"executing", "cancelled"} /\ actor'[k] = "done"
        /\ \A k \in Jobs \ {j} : actor'[k] \in {"executing", "cancelled"}
                                   <=> actor[k] \in {"executing", "cancelled"}
    BY <1>1, <1>2
  <2>2. MachineInv' /\ ~NotComputed({j})
    BY <1>1, <2>1, MachinesReleased DEF SafeInv
  <2> QED BY <1>1, <2>2 DEF NoAssertionFails
<1>13. SubmitterInv'
  <2>1. job_state[j] = "running"
    BY <1>3 DEF Computing
  <2>2. /\ \A r \in Submitters : \A k \in todo[r] :
              job_state'[k] = "not_submitted" /\ Mail(k)' = {}
        /\ \A k \in origin_of_jobs' : job_state'[k] # "not_submitted"
    BY <1>1, <1>2, <1>7, <2>1 DEF SafeInv, SubmitterInv, TypeOK
  <2> QED BY <1>1, <1>4, <1>5, <2>2, SubmitterFrame DEF SafeInv
<1>14. RegistrationInv'
  BY <1>1, <1>4, RegistrationFrame DEF SafeInv
<1>15. EndInv'
  <2>1. ~end_of_simulation_sent
    BY <1>1 DEF SafeInv, EndInv, EndIsFinal
  <2> QED BY <1>1, <2>1, EndFrame DEF SafeInv
<1>16. CountersAgree'
  <2>1. /\ j \in SubmittedJobs' /\ j \in SubmittedJobs
        /\ j \in RunningJobs' /\ j \in RunningJobs
        /\ j \notin CompletedJobs' /\ j \notin CompletedJobs
        /\ j \notin KilledJobs' /\ j \notin KilledJobs
    BY <1>2, <1>3, <1>7, CountedJobs, CountedNext DEF Computing
  <2>2. JobCounters'
    BY <1>1, <1>9, <2>1, CountOne, CountersSplit DEF SafeInv
  <2> QED BY <1>1, <1>4, <2>2, HelperFrame, CountersSplit, CountersJoin DEF SafeInv
<1> QED BY <1>6, <1>10, <1>11, <1>12, <1>13, <1>14, <1>15, <1>16 DEF SafeInv

\* A cancelled task returns: the KILLING_DONE is sent already.
LEMMA JobCancelledSafe ==
  ASSUME TypeOK, TypeOK', SafeInv, NEW j \in Jobs, JobCancelled(j)
  PROVE  SafeInv'
<1>1. /\ actor[j] = "cancelled" /\ actor' = [actor EXCEPT ![j] = "done"]
      /\ job_state' = [job_state EXCEPT ![j] = "killed"]
      /\ MachinesOnJobEnd({j}) /\ aborted' = NotComputed({j})
      /\ UNCHANGED <<serverSide, contextVars, mailbox, killers, sleeping,
                     submitterVars, reqrep, schedVars>>
  BY DEF JobCancelled
<1>2. /\ actor'[j] = "done" /\ job_state'[j] = "killed"
      /\ \A k \in Jobs : k # j => actor'[k] = actor[k] /\ job_state'[k] = job_state[k]
  BY <1>1 DEF TypeOK
<1>3. Computing(j) /\ j \in KillsDone
  BY <1>1, ActorLives DEF SafeInv, KillInv, Ended, Killed, Counted, Deleted, In
<1>4. /\ \A T : MailJobs(T)' = MailJobs(T) /\ NbMessages(T)' = NbMessages(T)
      /\ \A T : Posted(T)' <=> Posted(T)
      /\ \A r : Blocked(r)' <=> Blocked(r)
      /\ \A r, T : Said(r, T)' <=> Said(r, T)
      /\ \A k : Mail(k)' = Mail(k) /\ News(k)' = News(k)
      /\ KillsDone' = KillsDone /\ MailSound'
  BY <1>1, MailKept, NewsKept DEF SafeInv
<1>5. \A k \in Jobs \ {j} : Untouched(k)
  BY <1>1, <1>2, <1>4 DEF Untouched
<1>6. LifeCycle'
  <2>1. Killed(j)'
    BY <1>1, <1>2, <1>3, <1>4 DEF Computing, Killed, In, Kept
  <2> QED BY <1>5, <2>1, LifeOne DEF SafeInv, Lives
<1>7. KillInv'
  <2>1. \A k \in kill_requested : actor'[k] \notin {"none", "spawned"}
    BY <1>2 DEF SafeInv, KillInv, TypeOK
  <2>2. \A k \in UNION killers : k \in Jobs /\ k # j /\ job_state'[k] # "killed"
    <3> TAKE k \in UNION killers
    <3>1. k \in Jobs
      BY DEF TypeOK
    <3>2. k # j /\ job_state[k] # "killed"
      BY <1>3 DEF SafeInv, KillInv
    <3> QED BY <1>2, <3>1, <3>2
  <2>3. \A k \in Jobs : /\ actor'[k] = "cancelled" => actor[k] = "cancelled"
                        /\ actor'[k] = "spawned" => actor[k] = "spawned"
    BY <1>2
  <2> QED BY <1>1, <1>4, <2>1, <2>2, <2>3 DEF SafeInv, KillInv
<1>8. MachineInv' /\ NoAssertionFails'
  <2>1. /\ {j} \in SUBSET Jobs
        /\ \A k \in {j} : actor[k] \in {"executing", "cancelled"} /\ actor'[k] = "done"
        /\ \A k \in Jobs \ {j} : actor'[k] \in {"executing", "cancelled"}
                                   <=> actor[k] \in {"executing", "cancelled"}
    BY <1>1, <1>2
  <2>2. MachineInv' /\ ~NotComputed({j})
    BY <1>1, <2>1, MachinesReleased DEF SafeInv
  <2> QED BY <1>1, <2>2 DEF NoAssertionFails
<1>9. SubmitterInv'
  <2>1. job_state[j] = "running"
    BY <1>3 DEF Computing
  <2>2. /\ \A r \in Submitters : \A k \in todo[r] :
              job_state'[k] = "not_submitted" /\ Mail(k)' = {}
        /\ \A k \in origin_of_jobs' : job_state'[k] # "not_submitted"
    BY <1>1, <1>2, <1>4, <2>1 DEF SafeInv, SubmitterInv, TypeOK
  <2> QED BY <1>1, <1>4, <2>2, SubmitterFrame DEF SafeInv
<1>10. RegistrationInv'
  BY <1>1, <1>4, RegistrationFrame DEF SafeInv
<1>11. EndInv'
  <2>1. ~end_of_simulation_sent
    BY <1>1 DEF SafeInv, EndInv, EndIsFinal
  <2> QED BY <1>1, <2>1, EndFrame DEF SafeInv
<1>12. CountersAgree'
  <2>1. /\ j \in SubmittedJobs' /\ j \in SubmittedJobs
        /\ j \in RunningJobs' /\ j \in RunningJobs
        /\ j \notin CompletedJobs' /\ j \notin CompletedJobs
        /\ j \notin KilledJobs' /\ j \notin KilledJobs
    BY <1>2, <1>3, <1>4, CountedJobs, CountedNext DEF Computing
  <2>2. JobCounters'
    BY <1>1, <1>5, <2>1, CountOne, CountersSplit DEF SafeInv
  <2> QED BY <1>1, <1>4, <2>2, HelperFrame, CountersSplit, CountersJoin DEF SafeInv
<1> QED BY <1>4, <1>6, <1>7, <1>8, <1>9, <1>10, <1>11, <1>12 DEF SafeInv

\* The killer finds each of its jobs executing or already completed: never
\* deleted, waiting or killed by another.
LEMMA KillerSafe ==
  ASSUME TypeOK, TypeOK', SafeInv, NEW K \in SUBSET Jobs, KillerProcess(K)
  PROVE  SafeInv'
<1> DEFINE t == "KILLING_DONE"
           running == StillRunning(K)
           killed == running \ Ptasks
<1>1. /\ K \in killers /\ killers' = killers \ {K}
      /\ aborted' = \/ \E j \in K : \/ j \in deleted
                                     \/ job_state[j] \in {"rejected",
                                          "submitted", "not_submitted"}
                    \/ NotComputed(killed)
      /\ actor' = [j \in Jobs |->
                     IF j \in killed THEN "done"
                     ELSE IF j \in running THEN "cancelled" ELSE actor[j]]
      /\ job_state' = [j \in Jobs |-> IF j \in killed THEN "killed"
                                      ELSE job_state[j]]
      /\ MachinesOnJobEnd(killed)
      /\ Send(t, "killer", K)
      /\ UNCHANGED <<serverSide, contextVars, sleeping, submitterVars, reqrep,
                     schedVars>>
  BY DEF KillerProcess
<1>2. /\ K \subseteq kill_requested /\ K \cap KillsDone = {} /\ K \cap deleted = {}
      /\ \A j \in K : job_state[j] # "killed"
      /\ killers = {K}
      /\ \A j \in K : actor[j] \notin {"none", "spawned"}
      /\ \A j \in K : actor[j] # "cancelled"
  BY <1>1 DEF SafeInv, KillInv
<1>3. \A j \in K : \/ Computing(j) /\ actor[j] = "executing"
                   \/ Ended(j)
                   \/ Counted(j) /\ In(j, "completed", "running", "done")
  <2> TAKE j \in K
  <2>1. Computing(j) \/ Ended(j) \/ Killed(j) \/ Counted(j) \/ Deleted(j)
    BY <1>2, ActorLives DEF SafeInv
  <2> QED BY <1>2, <2>1 DEF Computing, Killed, Counted, Deleted, In
<1>4. /\ running \in SUBSET K
      /\ \A j \in running : Computing(j) /\ actor[j] = "executing"
      /\ \A j \in K \ running : job_state[j] = "completed"
  BY <1>3 DEF StillRunning, Computing, Ended, In
<1> HIDE DEF running
<1>5. /\ \A T : MailJobs(T)' = IF T = t THEN MailJobs(T) \cup K ELSE MailJobs(T)
      /\ \A T : Posted(T)' <=> Posted(T) \/ T = t
      /\ \A s, T : Said(s, T)' <=> Said(s, T) \/ (s = "killer" /\ T = t)
      /\ \A s : Blocked(s)' <=> Blocked(s) \/ s = "killer"
      /\ \A T : NbMessages(T)' = IF T = t THEN NbMessages(T) + 1 ELSE NbMessages(T)
  BY <1>1, SendEffect
<1>6. "killer" \notin Submitters \cup {"reqrep"} /\ t \notin OfOneJob /\ t \notin LifeMail
  BY ServerAssumption DEF ServerAssumption, OfOneJob, LifeMail
<1>7. MailSound'
  BY <1>1, <1>2, <1>6, SendSound DEF SafeInv, KillsDone
<1>8. (\A k : Mail(k)' = Mail(k)) /\ KillsDone' = KillsDone \cup K
  <2>1. \A T : MailJobs(T)' = IF T = t THEN MailJobs(T) \cup K ELSE MailJobs(T)
    BY <1>5
  <2>2. /\ \A k : Mail(k)' = IF t \in LifeMail /\ k \in K THEN Mail(k) \cup {t}
                                                         ELSE Mail(k)
        /\ KillsDone' = IF t = "KILLING_DONE" THEN KillsDone \cup K ELSE KillsDone
    BY <2>1, MailAdded
  <2> QED BY <1>6, <2>2
<1>9. \A k : News(k)' = News(k)
  BY <1>1, NewsKept
<1>10. /\ \A j \in killed : actor'[j] = "done" /\ job_state'[j] = "killed"
       /\ \A j \in running \ killed : actor'[j] = "cancelled"
       /\ \A j \in Jobs \ running : actor'[j] = actor[j]
       /\ \A j \in Jobs \ killed : job_state'[j] = job_state[j]
  <2>1. running \in SUBSET Jobs
    BY <1>4
  <2> QED BY <1>1, <2>1
<1>11. ASSUME NEW j \in Jobs PROVE Lives(j)'
  <2>1. CASE j \notin K
    <3>1. Untouched(j)
      BY <1>1, <1>4, <1>8, <1>9, <1>10, <2>1 DEF Untouched
    <3> QED BY <3>1, LifeFrame DEF SafeInv, LifeCycle
  <2>2. CASE j \in killed
    <3>1. Killed(j)'
      BY <1>1, <1>4, <1>8, <1>9, <1>10, <2>2 DEF Computing, Killed, In, Kept
    <3> QED BY <3>1 DEF Lives
  <2>3. CASE j \in running \ killed
    <3>1. Computing(j)'
      BY <1>1, <1>4, <1>8, <1>9, <1>10, <2>3 DEF Computing, Kept
    <3> QED BY <3>1 DEF Lives
  <2>4. CASE j \in K \ running
    <3>1. Ended(j) \/ (Counted(j) /\ In(j, "completed", "running", "done"))
      <4>1. j \in K /\ job_state[j] = "completed"
        BY <1>4, <2>4
      <4>2. ~Computing(j)
        BY <4>1 DEF Computing
      <4> QED BY <1>3, <4>1, <4>2
    <3>2. Ended(j)' \/ Counted(j)'
      BY <1>1, <1>8, <1>9, <1>10, <2>4, <3>1 DEF Ended, Counted, In, Kept
    <3> QED BY <3>2 DEF Lives
  <2> QED BY <2>1, <2>2, <2>3, <2>4
<1>12. LifeCycle'
  BY <1>11 DEF LifeCycle
<1>13. KillInv'
  <2>1. killers' = {}
    BY <1>1, <1>2
  <2>2. \A k \in kill_requested : actor'[k] \notin {"none", "spawned"}
    BY <1>10 DEF SafeInv, KillInv, TypeOK
  <2>3. \A k \in Jobs : actor'[k] = "cancelled" => k \in KillsDone'
    BY <1>4, <1>8, <1>10 DEF SafeInv, KillInv
  <2>4. KillsDone' \subseteq kill_requested /\ KillsDone' \cap deleted = {}
    BY <1>2, <1>8 DEF SafeInv, KillInv
  <2>5. MailJobs("SCHED_KILL_JOB")' = MailJobs("SCHED_KILL_JOB")
    BY <1>5
  <2>6. \A k \in Jobs : job_state'[k] = "killed" => k \in kill_requested
    BY <1>2, <1>4, <1>10 DEF SafeInv, KillInv
  <2> QED BY <1>1, <2>1, <2>2, <2>3, <2>4, <2>5, <2>6 DEF SafeInv, KillInv
<1>14. MachineInv' /\ NoAssertionFails'
  <2>1. /\ killed \in SUBSET Jobs
        /\ \A k \in killed : actor[k] \in {"executing", "cancelled"} /\ actor'[k] = "done"
        /\ \A k \in Jobs \ killed : actor'[k] \in {"executing", "cancelled"}
                                   <=> actor[k] \in {"executing", "cancelled"}
    BY <1>4, <1>10
  <2>2. MachineInv' /\ ~NotComputed(killed)
    BY <1>1, <2>1, MachinesReleased DEF SafeInv
  <2>3. \A j \in K : job_state[j] \in {"running", "completed"}
    BY <1>3 DEF Computing, Ended, In
  <2> QED BY <1>1, <1>2, <2>2, <2>3 DEF NoAssertionFails
<1>15. SubmitterInv'
  <2>1. \A j \in running : job_state[j] = "running"
    BY <1>4 DEF Computing
  <2>2. /\ \A r \in Submitters : \A k \in todo[r] :
              job_state'[k] = "not_submitted" /\ Mail(k)' = {}
        /\ \A k \in origin_of_jobs' : job_state'[k] # "not_submitted"
    BY <1>1, <1>8, <1>10, <2>1 DEF SafeInv, SubmitterInv, TypeOK
  <2> QED BY <1>1, <1>5, <1>6, <2>2, SubmitterFrame DEF SafeInv
<1>16. RegistrationInv'
  BY <1>1, <1>5, RegistrationFrame DEF SafeInv
<1>17. EndInv'
  <2>1. ~end_of_simulation_sent
    BY <1>1 DEF SafeInv, EndInv, EndIsFinal
  <2> QED BY <1>1, <2>1, EndFrame DEF SafeInv
<1>18. JobCounters'
  <2>1. ASSUME NEW j \in Jobs
        PROVE  /\ j \in SubmittedJobs' <=> j \in SubmittedJobs
               /\ j \in RunningJobs' <=> j \in RunningJobs
               /\ j \in CompletedJobs' <=> j \in CompletedJobs
               /\ j \in KilledJobs' <=> j \in KilledJobs
    <3>1. CASE j \in killed
      <4>1. /\ job_state[j] = "running" /\ job_state'[j] = "killed" /\ j \in KillsDone'
            /\ Mail(j) = {} /\ Mail(j)' = {}
        BY <1>4, <1>8, <1>10, <3>1 DEF Computing
      <4> QED BY <4>1, CountedJobs, CountedNext
    <3>2. CASE j \notin killed
      <4>1. /\ job_state'[j] = job_state[j] /\ Mail(j)' = Mail(j)
            /\ job_state[j] = "killed" => (j \in KillsDone' <=> j \in KillsDone)
        BY <1>2, <1>8, <1>10, <3>2
      <4> QED BY <4>1, CountedJobs, CountedNext
    <3> QED BY <3>1, <3>2
  <2>2. /\ SubmittedJobs' \in SUBSET Jobs /\ RunningJobs' \in SUBSET Jobs
        /\ CompletedJobs' \in SUBSET Jobs /\ KilledJobs' \in SUBSET Jobs
    BY DEF SubmittedJobs, RunningJobs, CompletedJobs, KilledJobs, InState,
           EndInFlight
  <2>3. /\ SubmittedJobs' = SubmittedJobs /\ RunningJobs' = RunningJobs
        /\ CompletedJobs' = CompletedJobs /\ KilledJobs' = KilledJobs
    BY <2>1, <2>2, CountedSets
  <2> QED BY <1>1, <2>3, CountersSplit DEF JobCounters, SafeInv
<1>19. HelperCounters'
  <2>1. Cardinality(killers) = 1 /\ Cardinality(killers') = 0
    <3>1. killers = {K} /\ killers' = {}
      BY <1>1, <1>2
    <3> QED BY <3>1, FS_Singleton, FS_EmptySet
  <2>2. NbMessages(t)' = NbMessages(t) + 1 /\ NbMessages(t) \in Nat
        /\ NbMessages("WAITING_DONE")' = NbMessages("WAITING_DONE")
    BY <1>5, NbMessagesType
  <2> QED BY <1>1, <2>1, <2>2, CountersSplit DEF HelperCounters, SafeInv
<1>20. CountersAgree'
  BY <1>18, <1>19, CountersJoin
<1> QED BY <1>7, <1>12, <1>13, <1>14, <1>15, <1>16, <1>17, <1>20 DEF SafeInv

\* A waiter that wakes before the end of the simulation tells the server.
LEMMA WaiterSafe ==
  ASSUME TypeOK, TypeOK', SafeInv, WaiterProcess
  PROVE  SafeInv'
<1> DEFINE t == "WAITING_DONE"
<1>1. /\ sleeping > 0 /\ sleeping' = sleeping - 1
      /\ UNCHANGED <<serverSide, contextVars, jobVars, killers, submitterVars,
                     reqrep, aborted, schedVars>>
  BY DEF WaiterProcess
<1>2. ~end_of_simulation_sent
  BY <1>1 DEF SafeInv, EndInv, EndIsFinal
<1>3. Send(t, "waiter", {})
  BY <1>2 DEF WaiterProcess
<1>4. /\ \A T : MailJobs(T)' = IF T = t THEN MailJobs(T) \cup {} ELSE MailJobs(T)
      /\ \A T : Posted(T)' <=> Posted(T) \/ T = t
      /\ \A s, T : Said(s, T)' <=> Said(s, T) \/ (s = "waiter" /\ T = t)
      /\ \A s : Blocked(s)' <=> Blocked(s) \/ s = "waiter"
      /\ \A T : NbMessages(T)' = IF T = t THEN NbMessages(T) + 1 ELSE NbMessages(T)
  BY <1>3, SendEffect
<1>5. "waiter" \notin Submitters \cup {"reqrep"} /\ t \notin OfOneJob
  BY ServerAssumption DEF ServerAssumption, OfOneJob
<1>6. MailSound'
  <2>1. {} \cap MailJobs(t) = {} /\ {} \in SUBSET Jobs
    OBVIOUS
  <2> QED BY <1>3, <1>5, <2>1, SendSound DEF SafeInv
<1>7. (\A j : Mail(j)' = Mail(j)) /\ KillsDone' = KillsDone
  <2>1. \A T : MailJobs(T)' = MailJobs(T)
    BY <1>4
  <2> QED BY <2>1 DEF Mail, KillsDone
<1>8. \A j : News(j)' = News(j)
  BY <1>1, NewsKept
<1>9. \A j \in Jobs : Untouched(j)
  BY <1>1, <1>7, <1>8 DEF Untouched
<1>10. LifeCycle' /\ NoAssertionFails'
  BY <1>1, <1>9, LifeFrame DEF SafeInv, LifeCycle, NoAssertionFails
<1>11. KillInv'
  <2>1. \A j \in MailJobs("SCHED_KILL_JOB")' : view'[j] = "running"
    BY <1>1, <1>4 DEF SafeInv, KillInv
  <2> QED BY <1>1, <1>7, <2>1, KillFrame DEF SafeInv
<1>12. MachineInv'
  BY <1>1, MachineFrame DEF SafeInv
<1>13. SubmitterInv'
  <2>1. /\ \A s \in Submitters : \A k \in todo[s] :
              job_state'[k] = "not_submitted" /\ Mail(k)' = {}
        /\ \A k \in origin_of_jobs' : job_state'[k] # "not_submitted"
    BY <1>1, <1>7 DEF SafeInv, SubmitterInv
  <2> QED BY <1>1, <1>4, <1>5, <2>1, SubmitterFrame DEF SafeInv
<1>14. RegistrationInv' /\ EndInv'
  BY <1>1, <1>2, <1>4, RegistrationFrame, EndFrame DEF SafeInv
<1>15. CountersAgree'
  <2>1. JobCounters'
    BY <1>1, <1>9, CountKept, CountersSplit DEF SafeInv
  <2>2. NbMessages(t)' = NbMessages(t) + 1 /\ NbMessages(t) \in Nat
        /\ NbMessages("KILLING_DONE")' = NbMessages("KILLING_DONE")
    BY <1>4, NbMessagesType
  <2>3. HelperCounters'
    BY <1>1, <2>2, CountersSplit DEF HelperCounters, SafeInv, TypeOK
  <2> QED BY <2>1, <2>3, CountersJoin
<1> QED BY <1>6, <1>10, <1>11, <1>12, <1>13, <1>14, <1>15 DEF SafeInv
-----------------------------------------------------------------------------
(* The handlers of the server.                                             *)

\* What holds when the server takes a message of type t: every actor that was
\* ready has run, and SIMULATION_ENDS has not been sent unless the message is
\* its answer.
LEMMA Taken ==
  ASSUME TypeOK, SafeInv, NEW t, Receive(t)
  PROVE  /\ MailSound' /\ MsgJobs \in SUBSET Jobs
         /\ killers = {} /\ \A j \in Jobs : actor[j] \notin {"spawned", "cancelled"}
         /\ \A T : MailJobs(T)' = IF T = t THEN MailJobs(T) \ MsgJobs ELSE MailJobs(T)
         /\ \A T : T # t => (Posted(T)' <=> Posted(T))
         /\ \A T : NbMessages(T)' = IF T = t THEN NbMessages(T) - 1 ELSE NbMessages(T)
         /\ t \in OfOneJob => \E j \in Jobs : MsgJobs = {j}
         /\ \A j \in MsgJobs : t \in LifeMail => t \in Mail(j) /\ Mail(j)' = Mail(j) \ {t}
         /\ \A j : t \notin LifeMail \/ j \notin MsgJobs => Mail(j)' = Mail(j)
         /\ KillsDone' = IF t = "KILLING_DONE" THEN KillsDone \ MsgJobs ELSE KillsDone
         /\ t \notin FromSubmitter => \A s \in Submitters :
              (Blocked(s)' <=> Blocked(s)) /\ \A T : Said(s, T)' <=> Said(s, T)
         /\ t # "SCHED_READY" => ~end_of_simulation_sent
<1>1. /\ MsgJobs \in SUBSET Jobs /\ MsgJobs \subseteq MailJobs(t)
      /\ \A T : MailJobs(T)' = IF T = t THEN MailJobs(T) \ MsgJobs ELSE MailJobs(T)
      /\ \A T : T # t => (Posted(T)' <=> Posted(T))
      /\ \A s \in Submitters : \A T :
           Said(s, T)' <=> Said(s, T) /\ ~(s = MsgFrom /\ T = t)
      /\ \A s \in Submitters : Blocked(s)' <=> Blocked(s) /\ s # MsgFrom
      /\ \A T : NbMessages(T)' = IF T = t THEN NbMessages(T) - 1 ELSE NbMessages(T)
      /\ t \in OfOneJob => \E j \in Jobs : MsgJobs = {j}
      /\ MailSound'
  BY ReceiveEffect DEF SafeInv
<1>2. /\ mailbox # <<>> /\ mailbox \in Seq(Message) /\ Head(mailbox) = mailbox[1]
      /\ mailbox[1].type = t /\ 1 \in DOMAIN mailbox /\ mailbox[1] \in Message
      /\ NoActorReady
  BY DEF Receive, TypeOK
<1>3. t \notin FromSubmitter => MsgFrom \notin Submitters
  <2>1. MsgFrom = mailbox[1].from
    BY <1>2 DEF MsgFrom
  <2>2. mailbox[1].type \notin FromSubmitter
          => mailbox[1].from \in {"reqrep", "job", "killer", "waiter"}
    BY <1>2 DEF Message
  <2> QED BY <1>2, <2>1, <2>2, ServerAssumption DEF ServerAssumption
<1>4. /\ \A j : Mail(j)' = IF j \in MsgJobs THEN Mail(j) \ {t} ELSE Mail(j)
      /\ KillsDone' = IF t = "KILLING_DONE" THEN KillsDone \ MsgJobs ELSE KillsDone
  <2>1. \A T : MailJobs(T)' = IF T = t THEN MailJobs(T) \ MsgJobs ELSE MailJobs(T)
    BY <1>1
  <2> QED BY <2>1, MailTaken
<1>5. \A j : t \notin LifeMail => Mail(j) \ {t} = Mail(j)
  BY DEF Mail
<1>6. \A j \in MsgJobs : t \in LifeMail => t \in Mail(j)
  BY <1>1 DEF Mail
<1>7. t # "SCHED_READY" => ~end_of_simulation_sent
  BY <1>2 DEF SafeInv, EndInv, EndIsFinal
<1>8. killers = {} /\ \A j \in Jobs : actor[j] \notin {"spawned", "cancelled"}
  BY <1>2 DEF NoActorReady
<1>9. /\ \A j \in MsgJobs : t \in LifeMail => t \in Mail(j) /\ Mail(j)' = Mail(j) \ {t}
      /\ \A j : t \notin LifeMail \/ j \notin MsgJobs => Mail(j)' = Mail(j)
  BY <1>4, <1>5, <1>6
<1>10. t \notin FromSubmitter => \A s \in Submitters :
         (Blocked(s)' <=> Blocked(s)) /\ \A T : Said(s, T)' <=> Said(s, T)
  BY <1>1, <1>3
<1> QED BY <1>1, <1>4, <1>7, <1>8, <1>9, <1>10

\* A handler that changes neither kills nor machines nor the registration.
LEMMA HandlerFrame ==
  ASSUME TypeOK, SafeInv, NEW t, Receive(t), t # "SCHED_READY", t # "KILLING_DONE",
         t \notin {"END_DYNAMIC_REGISTER", "CONTINUE_DYNAMIC_REGISTER"},
         UNCHANGED <<registration_sched_finished, end_register, told_end,
                     end_of_simulation_sent, end_of_simulation_ack_received>>
  PROVE  RegistrationInv' /\ EndInv'
<1>1. /\ \A T : T # t => (Posted(T)' <=> Posted(T)) 
      /\ ~end_of_simulation_sent
  BY Taken
<1> QED BY <1>1, RegistrationFrame, EndFrame DEF SafeInv

\* A handler that neither requests nor acknowledges a kill.
LEMMA KillHandlerFrame ==
  ASSUME TypeOK, SafeInv, NEW t, Receive(t), t # "KILLING_DONE",
         UNCHANGED <<kill_requested, killers, deleted, actor, view>>,
         \A j \in Jobs : job_state'[j] = "killed" => job_state[j] = "killed"
  PROVE  KillInv'
<1>1. /\ \A T : MailJobs(T)' = IF T = t THEN MailJobs(T) \ MsgJobs ELSE MailJobs(T)
      /\ KillsDone' = KillsDone /\ killers = {}
  BY Taken
<1>2. MailJobs("SCHED_KILL_JOB")' \subseteq MailJobs("SCHED_KILL_JOB")
  BY <1>1
<1> QED BY <1>1, <1>2 DEF SafeInv, KillInv

\* A handler of a message that no submitter sent.
LEMMA SubmitterHandlerFrame ==
  ASSUME TypeOK, SafeInv, NEW t, Receive(t), t \notin FromSubmitter,
         UNCHANGED <<submitter_pc, submitters, nb_submitters_finished, todo>>,
         origin_of_jobs' \subseteq origin_of_jobs,
         \A j \in Jobs : job_state'[j] = "not_submitted" <=> job_state[j] = "not_submitted"
  PROVE  SubmitterInv'
<1>1. /\ \A s \in Submitters :
           (Blocked(s)' <=> Blocked(s)) /\ \A T : Said(s, T)' <=> Said(s, T)
      /\ \A j \in MsgJobs : t \in LifeMail => t \in Mail(j)
      /\ \A j : t \notin LifeMail \/ j \notin MsgJobs => Mail(j)' = Mail(j)
  BY Taken
<1>2. \A s \in Submitters : \A k \in todo[s] :
            job_state'[k] = "not_submitted" /\ Mail(k)' = {}
  <2> TAKE s \in Submitters
  <2> TAKE k \in todo[s]
  <2>1. k \in Jobs /\ job_state[k] = "not_submitted" /\ Mail(k) = {}
    BY DEF SafeInv, SubmitterInv, TypeOK
  <2> QED BY <1>1, <2>1
<1>3. \A k \in origin_of_jobs' : job_state'[k] # "not_submitted"
  BY DEF SafeInv, SubmitterInv, TypeOK
<1> QED BY <1>1, <1>2, <1>3, SubmitterFrame DEF SafeInv

\* A handler that touches no job.
LEMMA QuietHandler ==
  ASSUME TypeOK, SafeInv, NEW t, Receive(t), t \notin LifeMail, t # "KILLING_DONE",
         UNCHANGED <<counters, jobs_to_be_deleted, kill_requested, deleted,
                     job_state, killers, actor, jobs_being_computed, view, alloc>>,
         \A j : News(j)' = News(j)
  PROVE  MailSound' /\ LifeCycle' /\ KillInv' /\ MachineInv' /\ JobCounters'
<1>1. MailSound' /\ (\A j : Mail(j)' = Mail(j)) /\ KillsDone' = KillsDone
  BY Taken
<1>2. \A j \in Jobs : Untouched(j)
  BY <1>1 DEF Untouched
<1>3. LifeCycle'
  BY <1>2, LifeFrame DEF SafeInv, LifeCycle
<1>4. KillInv'
  BY KillHandlerFrame
<1>5. MachineInv'
  BY MachineFrame DEF SafeInv
<1>6. JobCounters'
  BY <1>2, CountKept, CountersSplit DEF SafeInv
<1> QED BY <1>1, <1>3, <1>4, <1>5, <1>6

\* A submitter that is taken from the mailbox had said nothing else.
LEMMA SubmitterTaken ==
  ASSUME TypeOK, SafeInv, NEW t \in FromSubmitter, Receive(t)
  PROVE  /\ MsgFrom \in Submitters /\ Said(MsgFrom, t) /\ Blocked(MsgFrom)
         /\ \A T : T # t => ~Said(MsgFrom, T)
         /\ \A s \in Submitters : \A T :
              Said(s, T)' <=> Said(s, T) /\ ~(s = MsgFrom /\ T = t)
         /\ \A s \in Submitters : Blocked(s)' <=> Blocked(s) /\ s # MsgFrom
         /\ t = "JOB_SUBMITTED" => MsgJobs \subseteq JobsOf[MsgFrom]
<1>1. /\ Said(MsgFrom, t)
      /\ \A s \in Submitters : \A T :
           Said(s, T)' <=> Said(s, T) /\ ~(s = MsgFrom /\ T = t)
      /\ \A s \in Submitters : Blocked(s)' <=> Blocked(s) /\ s # MsgFrom
      /\ t = "JOB_SUBMITTED" => MsgJobs \subseteq JobsOf[MsgFrom]
  BY ReceiveEffect DEF SafeInv
<1>2. MsgFrom \in Submitters
  BY ReceiveType DEF TypeOK
<1>3. \A T : T # t => ~Said(MsgFrom, T)
  BY <1>1, <1>2 DEF SafeInv, MailSound, Said
<1>4. Blocked(MsgFrom)
  BY <1>1 DEF Said, Blocked
<1> QED BY <1>1, <1>2, <1>3, <1>4

\* SUBMITTER_HELLO.
LEMMA OnHelloSafe ==
  ASSUME TypeOK, TypeOK', SafeInv, server_on_submitter_hello
  PROVE  SafeInv'
<1> DEFINE t == "SUBMITTER_HELLO"
           s == MsgFrom
<1>1. /\ Receive(t)
      /\ aborted' = (end_of_simulation_sent \/ s \in submitters)
      /\ submitters' = submitters \cup {s}
      /\ UNCHANGED <<counters, helpers, nb_submitters_finished,
                     nb_workflow_submitters_finished, loopVars, origin_of_jobs,
                     jobs_to_be_deleted, proto_writer, contextVars, job_state,
                     killers, actorVars>>
  BY DEF server_on_submitter_hello
<1>2. t \in FromSubmitter /\ t \notin LifeMail /\ t # "SCHED_READY" /\ t # "KILLING_DONE"
      /\ t \notin {"END_DYNAMIC_REGISTER", "CONTINUE_DYNAMIC_REGISTER"}
  BY DEF FromSubmitter, LifeMail, OfOneJob
<1>3. /\ s \in Submitters /\ Said(s, t) /\ Blocked(s)
      /\ \A T : T # t => ~Said(s, T)
      /\ \A r \in Submitters : \A T : Said(r, T)' <=> Said(r, T) /\ ~(r = s /\ T = t)
      /\ \A r \in Submitters : Blocked(r)' <=> Blocked(r) /\ r # s
  BY <1>1, <1>2, SubmitterTaken
<1> HIDE DEF s
<1>4. MailSound' /\ LifeCycle' /\ KillInv' /\ MachineInv' /\ JobCounters'
  BY <1>1, <1>2, NewsKept, QuietHandler
<1>5. RegistrationInv' /\ EndInv'
  BY <1>1, <1>2, HandlerFrame
<1>6. submitter_pc[s] = "submitting" /\ s \notin submitters
  BY <1>3 DEF SafeInv, SubmitterInv, TypeOK
<1>7. /\ ~end_of_simulation_sent
      /\ \A T : NbMessages(T)' = IF T = t THEN NbMessages(T) - 1 ELSE NbMessages(T)
      /\ \A j : Mail(j)' = Mail(j)
  BY <1>1, <1>2, Taken
<1>8. NoAssertionFails'
  BY <1>1, <1>6, <1>7 DEF NoAssertionFails
<1>9. SubmitterInv'
  <2>1. {r \in Submitters : submitter_pc'[r] = "bye" /\ r \notin submitters'}
          = {r \in Submitters : submitter_pc[r] = "bye" /\ r \notin submitters}
    BY <1>1, <1>6
  <2>2. nb_submitters_finished' =
          Cardinality({r \in Submitters : submitter_pc'[r] = "bye" /\ r \notin submitters'})
    BY <1>1, <2>1 DEF SafeInv, SubmitterInv
  <2>3. ASSUME NEW r \in Submitters
        PROVE  /\ submitter_pc'[r] = "start" => ~Blocked(r)' /\ r \notin submitters'
               /\ submitter_pc'[r] = "submitting" =>
                    /\ ~Said(r, "SUBMITTER_BYE")'
                    /\ r \in submitters' <=> ~Said(r, "SUBMITTER_HELLO")'
               /\ submitter_pc'[r] = "bye" =>
                    /\ ~Said(r, "SUBMITTER_HELLO")' /\ ~Said(r, "JOB_SUBMITTED")'
                    /\ r \in submitters' <=> Said(r, "SUBMITTER_BYE")'
               /\ todo'[r] \subseteq JobsOf[r]
               /\ \A j \in todo'[r] : job_state'[j] = "not_submitted" /\ Mail(j)' = {}
    <3>1. CASE r = s
      BY <1>1, <1>3, <1>6, <1>7, <3>1 DEF SafeInv, SubmitterInv
    <3>2. CASE r # s
      BY <1>1, <1>3, <1>7, <3>2 DEF SafeInv, SubmitterInv
    <3> QED BY <3>1, <3>2
  <2>4. \A j \in origin_of_jobs' : job_state'[j] # "not_submitted"
    BY <1>1 DEF SafeInv, SubmitterInv
  <2> QED BY <2>2, <2>3, <2>4 DEF SubmitterInv
<1>10. CountersAgree'
  BY <1>1, <1>4, <1>7, HelperFrame, CountersSplit, CountersJoin DEF SafeInv
<1> QED BY <1>4, <1>5, <1>8, <1>9, <1>10 DEF SafeInv

\* SUBMITTER_BYE.
LEMMA OnByeSafe ==
  ASSUME TypeOK, TypeOK', SafeInv, server_on_submitter_bye
  PROVE  SafeInv'
<1> DEFINE t == "SUBMITTER_BYE"
           s == MsgFrom
<1>1. /\ Receive(t)
      /\ aborted' = (s \notin submitters)
      /\ submitters' = submitters \ {s}
      /\ nb_submitters_finished' = nb_submitters_finished + 1
      /\ proto_writer' \in {proto_writer, proto_writer \o Evt("NO_MORE_STATIC_JOB", {})}
      /\ UNCHANGED <<counters, helpers, loopVars, origin_of_jobs,
                     jobs_to_be_deleted, contextVars, job_state, killers,
                     actorVars>>
  BY DEF server_on_submitter_bye
<1>2. t \in FromSubmitter /\ t \notin LifeMail /\ t # "SCHED_READY" /\ t # "KILLING_DONE"
      /\ t \notin {"END_DYNAMIC_REGISTER", "CONTINUE_DYNAMIC_REGISTER"}
  BY DEF FromSubmitter, LifeMail, OfOneJob
<1>3. /\ s \in Submitters /\ Said(s, t) /\ Blocked(s)
      /\ \A T : T # t => ~Said(s, T)
      /\ \A r \in Submitters : \A T : Said(r, T)' <=> Said(r, T) /\ ~(r = s /\ T = t)
      /\ \A r \in Submitters : Blocked(r)' <=> Blocked(r) /\ r # s
  BY <1>1, <1>2, SubmitterTaken
<1> HIDE DEF s
<1>4. \A j : News(j)' = News(j)
  <2>1. CASE proto_writer' = proto_writer
    BY <2>1, NewsKept
  <2>2. CASE proto_writer' = proto_writer \o Evt("NO_MORE_STATIC_JOB", {})
    <3>1. "NO_MORE_STATIC_JOB" \in EventTypes /\ {} \in SUBSET Jobs
      BY DEF EventTypes
    <3> QED BY <2>2, <3>1, NewsAdded
  <2> QED BY <1>1, <2>1, <2>2
<1>5. MailSound' /\ LifeCycle' /\ KillInv' /\ MachineInv' /\ JobCounters'
  BY <1>1, <1>2, <1>4, QuietHandler
<1>6. RegistrationInv' /\ EndInv'
  BY <1>1, <1>2, HandlerFrame
<1>7. submitter_pc[s] = "bye" /\ s \in submitters
  BY <1>3 DEF SafeInv, SubmitterInv, TypeOK
<1>8. /\ \A T : NbMessages(T)' = IF T = t THEN NbMessages(T) - 1 ELSE NbMessages(T)
      /\ \A j : Mail(j)' = Mail(j)
  BY <1>1, <1>2, Taken
<1>9. NoAssertionFails'
  BY <1>1, <1>7 DEF NoAssertionFails
<1>10. SubmitterInv'
  <2> DEFINE S == {r \in Submitters : submitter_pc[r] = "bye" /\ r \notin submitters}
  <2>1. {r \in Submitters : submitter_pc'[r] = "bye" /\ r \notin submitters'} = S \cup {s}
    BY <1>1, <1>3, <1>7
  <2>2. Cardinality(S \cup {s}) = Cardinality(S) + 1
    <3>1. IsFiniteSet(S) /\ s \notin S
      BY <1>7, FS_Subset, ServerAssumption DEF ServerAssumption
    <3> QED BY <3>1, FS_AddElement
  <2>3. nb_submitters_finished' =
          Cardinality({r \in Submitters : submitter_pc'[r] = "bye" /\ r \notin submitters'})
    BY <1>1, <2>1, <2>2 DEF SafeInv, SubmitterInv
  <2>4. ASSUME NEW r \in Submitters
        PROVE  /\ submitter_pc'[r] = "start" => ~Blocked(r)' /\ r \notin submitters'
               /\ submitter_pc'[r] = "submitting" =>
                    /\ ~Said(r, "SUBMITTER_BYE")'
                    /\ r \in submitters' <=> ~Said(r, "SUBMITTER_HELLO")'
               /\ submitter_pc'[r] = "bye" =>
                    /\ ~Said(r, "SUBMITTER_HELLO")' /\ ~Said(r, "JOB_SUBMITTED")'
                    /\ r \in submitters' <=> Said(r, "SUBMITTER_BYE")'
               /\ todo'[r] \subseteq JobsOf[r]
               /\ \A j \in todo'[r] : job_state'[j] = "not_submitted" /\ Mail(j)' = {}
    <3>1. CASE r = s
      BY <1>1, <1>3, <1>7, <1>8, <3>1 DEF SafeInv, SubmitterInv
    <3>2. CASE r # s
      BY <1>1, <1>3, <1>8, <3>2 DEF SafeInv, SubmitterInv
    <3> QED BY <3>1, <3>2
  <2>5. \A j \in origin_of_jobs' : job_state'[j] # "not_submitted"
    BY <1>1 DEF SafeInv, SubmitterInv
  <2> QED BY <2>3, <2>4, <2>5 DEF SubmitterInv
<1>11. CountersAgree'
  BY <1>1, <1>5, <1>8, HelperFrame, CountersSplit, CountersJoin DEF SafeInv
<1> QED BY <1>5, <1>6, <1>9, <1>10, <1>11 DEF SafeInv

\* What JOB_SUBMITTED, JOB_REGISTERED_BY_DP and the decisions say of their job.
LEMMA MailLives ==
  ASSUME LifeCycle, NEW j \in Jobs
  PROVE  /\ "JOB_SUBMITTED" \in Mail(j) => Waiting(j) /\ Mail(j) = {"JOB_SUBMITTED"}
         /\ "JOB_REGISTERED_BY_DP" \in Mail(j)
              => (Registered(j) \/ Offered(j)) /\ Mail(j) = {"JOB_REGISTERED_BY_DP"}
         /\ "SCHED_EXECUTE_JOB" \in Mail(j) => Ordered(j)
         /\ "JOB_COMPLETED" \in Mail(j) => Ended(j)
         /\ "SCHED_REJECT_JOB" \in Mail(j)
              => Refused(j) /\ Mail(j) = {"SCHED_REJECT_JOB"}
         /\ "CHANGE_TO_REJECTED" \in Mail(j)
              => Refused(j) /\ Mail(j) = {"CHANGE_TO_REJECTED"}
         /\ "CHANGE_TO_RUNNING" \in Mail(j)
              => Steered(j) /\ Mail(j) = {"CHANGE_TO_RUNNING"}
         /\ "CHANGE_TO_COMPLETED" \in Mail(j)
              => Steered(j) /\ Mail(j) = {"CHANGE_TO_COMPLETED"}
BY DEF LifeCycle, Lives, Waiting, Announced, Registered, Offered, Ordered,
       Computing, Ended, Killed, Counted, Deleted, Refused, Steered, Closed

\* A batch of jobs is submitted: each of them was waiting, and none is counted
\* twice.
LEMMA OnSubmittedSafe ==
  ASSUME TypeOK, TypeOK', SafeInv, server_on_job_submitted
  PROVE  SafeInv'
<1> DEFINE t == "JOB_SUBMITTED"
           s == MsgFrom
           J == MsgJobs
<1>1. /\ Receive(t)
      /\ UNCHANGED <<nb_running_jobs, nb_completed_jobs, nb_killed_jobs, helpers,
                     submitterCounters, loopVars, jobs_to_be_deleted,
                     contextVars, killers, actorVars>>
      /\ \/ UNCHANGED <<aborted, origin_of_jobs, job_state, nb_submitted_jobs,
                        proto_writer>>
         \/ /\ aborted' = \/ s \notin submitters
                          \/ s \in Workflows /\ J \cap origin_of_jobs # {}
            /\ origin_of_jobs' \in {origin_of_jobs, origin_of_jobs \cup J}
            /\ job_state' = [j \in Jobs |-> IF j \in J THEN "submitted"
                                            ELSE job_state[j]]
            /\ nb_submitted_jobs' = nb_submitted_jobs + Cardinality(J)
            /\ proto_writer' = proto_writer \o Evt("JOB_SUBMITTED", J)
  BY DEF server_on_job_submitted
<1>2. t \in FromSubmitter /\ t \in LifeMail /\ t # "SCHED_READY" /\ t # "KILLING_DONE"
      /\ t \notin {"END_DYNAMIC_REGISTER", "CONTINUE_DYNAMIC_REGISTER"}
      /\ t \notin {"JOB_REGISTERED_BY_DP", "JOB_COMPLETED"}
  BY DEF FromSubmitter, LifeMail, OfOneJob
<1>3. /\ s \in Submitters /\ Said(s, t) /\ Blocked(s)
      /\ \A T : T # t => ~Said(s, T)
      /\ \A r \in Submitters : \A T : Said(r, T)' <=> Said(r, T) /\ ~(r = s /\ T = t)
      /\ \A r \in Submitters : Blocked(r)' <=> Blocked(r) /\ r # s
      /\ J \subseteq JobsOf[s]
  BY <1>1, <1>2, SubmitterTaken
<1>4. /\ MailSound' /\ J \in SUBSET Jobs
      /\ \A T : NbMessages(T)' = IF T = t THEN NbMessages(T) - 1 ELSE NbMessages(T)
      /\ \A j \in J : t \in Mail(j) /\ Mail(j)' = Mail(j) \ {t}
      /\ \A j : j \notin J => Mail(j)' = Mail(j)
      /\ KillsDone' = KillsDone
  BY <1>1, <1>2, Taken
<1> HIDE DEF s, J
<1>5. \A j \in J : Waiting(j) /\ Mail(j) = {t} /\ Mail(j)' = {} /\ j \notin DynJobs
  <2>1. \A j \in J : Waiting(j) /\ Mail(j) = {t}
    BY <1>4, MailLives DEF SafeInv
  <2> QED BY <1>3, <1>4, <2>1 DEF DynJobs
<1>6. RegistrationInv' /\ EndInv'
  BY <1>1, <1>2, HandlerFrame
<1>7. \A j \in Jobs : j \notin J => job_state'[j] = job_state[j]
  BY <1>1
<1>8. \A j \in Jobs : job_state'[j] = "killed" => job_state[j] = "killed"
  BY <1>1
<1>9. KillInv'
  BY <1>1, <1>2, <1>8, KillHandlerFrame
<1>10. MachineInv'
  BY <1>1, MachineFrame DEF SafeInv
<1>11. s \in submitters /\ submitter_pc[s] = "submitting"
  <2>1. ~Said(s, "SUBMITTER_HELLO") /\ Said(s, "JOB_SUBMITTED")
    BY <1>3
  <2>2. submitter_pc[s] \in {"start", "submitting", "bye"} /\ SubmitterInv
    BY <1>3 DEF TypeOK, SafeInv
  <2> QED BY <1>3, <2>1, <2>2 DEF SubmitterInv
<1>12. NoAssertionFails'
  <2>1. J \cap origin_of_jobs = {}
    BY <1>5 DEF SafeInv, SubmitterInv, Waiting, In
  <2> QED BY <1>1, <1>11, <2>1 DEF SafeInv, NoAssertionFails
<1>13. SubmitterInv'
  <2>1. {r \in Submitters : submitter_pc'[r] = "bye" /\ r \notin submitters'}
          = {r \in Submitters : submitter_pc[r] = "bye" /\ r \notin submitters}
    BY <1>1
  <2>2. nb_submitters_finished' =
          Cardinality({r \in Submitters : submitter_pc'[r] = "bye" /\ r \notin submitters'})
    BY <1>1, <2>1 DEF SafeInv, SubmitterInv
  <2>3. ASSUME NEW r \in Submitters
        PROVE  /\ submitter_pc'[r] = "start" => ~Blocked(r)' /\ r \notin submitters'
               /\ submitter_pc'[r] = "submitting" =>
                    /\ ~Said(r, "SUBMITTER_BYE")'
                    /\ r \in submitters' <=> ~Said(r, "SUBMITTER_HELLO")'
               /\ submitter_pc'[r] = "bye" =>
                    /\ ~Said(r, "SUBMITTER_HELLO")' /\ ~Said(r, "JOB_SUBMITTED")'
                    /\ r \in submitters' <=> Said(r, "SUBMITTER_BYE")'
               /\ todo'[r] \subseteq JobsOf[r]
               /\ \A j \in todo'[r] : job_state'[j] = "not_submitted" /\ Mail(j)' = {}
    <3>1. \A j \in todo'[r] : job_state'[j] = "not_submitted" /\ Mail(j)' = {}
      <4> TAKE j \in todo'[r]
      <4>1. j \in Jobs /\ job_state[j] = "not_submitted" /\ Mail(j) = {}
        BY <1>1 DEF SafeInv, SubmitterInv, TypeOK
      <4>2. j \notin J
        BY <1>4, <4>1
      <4> QED BY <1>4, <1>7, <4>1, <4>2
    <3>2. CASE r = s
      BY <1>1, <1>2, <1>3, <1>11, <3>1, <3>2 DEF SafeInv, SubmitterInv
    <3>3. CASE r # s
      BY <1>1, <1>3, <3>1, <3>3 DEF SafeInv, SubmitterInv
    <3> QED BY <3>2, <3>3
  <2>4. \A j \in origin_of_jobs' : job_state'[j] # "not_submitted"
    <3>1. \A j \in origin_of_jobs : j \in Jobs /\ job_state[j] # "not_submitted"
      BY DEF SafeInv, SubmitterInv, TypeOK
    <3>2. CASE UNCHANGED <<origin_of_jobs, job_state>>
      BY <3>1, <3>2
    <3>3. CASE /\ origin_of_jobs' \in {origin_of_jobs, origin_of_jobs \cup J}
               /\ job_state' = [j \in Jobs |-> IF j \in J THEN "submitted"
                                               ELSE job_state[j]]
      BY <1>4, <3>1, <3>3
    <3> QED BY <1>1, <3>2, <3>3
  <2> QED BY <2>2, <2>3, <2>4 DEF SubmitterInv
<1>14. HelperCounters'
  BY <1>1, <1>4, HelperFrame, CountersSplit DEF SafeInv
<1>15. CASE UNCHANGED <<job_state, nb_submitted_jobs, proto_writer>>
  <2>1. \A j : News(j)' = News(j)
    BY <1>15, NewsKept
  <2>2. \A j \in Jobs \ J : Untouched(j)
    BY <1>1, <1>4, <1>15, <2>1 DEF Untouched
  <2>3. \A j \in J : Waiting(j)'
    BY <1>1, <1>5, <1>15, <2>1 DEF Waiting, In, Kept
  <2>4. LifeCycle'
    BY <2>2, <2>3, LifeKept DEF SafeInv, Lives
  <2>5. \A j \in J : /\ j \notin SubmittedJobs /\ j \notin SubmittedJobs'
                     /\ j \notin RunningJobs /\ j \notin RunningJobs'
                     /\ j \notin CompletedJobs /\ j \notin CompletedJobs'
                     /\ j \notin KilledJobs /\ j \notin KilledJobs'
    BY <1>4, <1>5, <1>15, CountedJobs, CountedNext DEF Waiting, In
  <2>6. /\ SubmittedJobs' \ J = SubmittedJobs \ J
        /\ RunningJobs' \ J = RunningJobs \ J
        /\ CompletedJobs' \ J = CompletedJobs \ J
        /\ KilledJobs' \ J = KilledJobs \ J
    BY <1>4, <2>2, CountFrame
  <2>7. /\ SubmittedJobs' = SubmittedJobs /\ RunningJobs' = RunningJobs
        /\ CompletedJobs' = CompletedJobs /\ KilledJobs' = KilledJobs
    BY <2>5, <2>6
  <2>8. JobCounters'
    BY <1>1, <1>15, <2>7, CountersSplit DEF JobCounters, SafeInv
  <2> QED BY <1>4, <1>6, <1>9, <1>10, <1>12, <1>13, <1>14, <2>4, <2>8, CountersJoin
          DEF SafeInv
<1>16. CASE /\ job_state' = [j \in Jobs |-> IF j \in J THEN "submitted"
                                            ELSE job_state[j]]
            /\ nb_submitted_jobs' = nb_submitted_jobs + Cardinality(J)
            /\ proto_writer' = proto_writer \o Evt("JOB_SUBMITTED", J)
  <2>1. \A j : News(j)' = IF j \in J THEN News(j) \cup {t} ELSE News(j)
    <3>1. t \in EventTypes /\ t \in {"JOB_SUBMITTED", "JOB_COMPLETED"}
      BY DEF EventTypes
    <3> QED BY <1>4, <1>16, <3>1, NewsAdded
  <2>2. \A j \in Jobs \ J : Untouched(j)
    BY <1>1, <1>4, <1>16, <2>1 DEF Untouched
  <2>3. \A j \in J : j \in Jobs /\ job_state'[j] = "submitted"
    BY <1>4, <1>16
  <2>4. \A j \in J : Announced(j)'
    BY <1>1, <1>5, <2>1, <2>3 DEF Waiting, Announced, In, Kept
  <2>5. LifeCycle'
    BY <2>2, <2>4, LifeKept DEF SafeInv, Lives
  <2>6. \A j \in J : /\ j \notin SubmittedJobs /\ j \in SubmittedJobs'
                     /\ j \notin RunningJobs /\ j \notin RunningJobs'
                     /\ j \notin CompletedJobs /\ j \notin CompletedJobs'
                     /\ j \notin KilledJobs /\ j \notin KilledJobs'
    BY <1>4, <1>5, <2>3, CountedJobs, CountedNext DEF Waiting, In
  <2>7. /\ SubmittedJobs' \ J = SubmittedJobs \ J
        /\ RunningJobs' \ J = RunningJobs \ J
        /\ CompletedJobs' \ J = CompletedJobs \ J
        /\ KilledJobs' \ J = KilledJobs \ J
    BY <1>4, <2>2, CountFrame
  <2>8. /\ SubmittedJobs' = SubmittedJobs \cup J /\ RunningJobs' = RunningJobs
        /\ CompletedJobs' = CompletedJobs /\ KilledJobs' = KilledJobs
    BY <2>6, <2>7
  <2>9. Cardinality(SubmittedJobs \cup J) = Cardinality(SubmittedJobs) + Cardinality(J)
    <3>1. SubmittedJobs \cap J = {}
      BY <2>6
    <3> QED BY <1>4, <3>1, CountedSets, JobsJoin
  <2>10. JobCounters'
    BY <1>1, <1>16, <2>8, <2>9, CountersSplit DEF JobCounters, SafeInv
  <2> QED BY <1>4, <1>6, <1>9, <1>10, <1>12, <1>13, <1>14, <2>5, <2>10, CountersJoin
          DEF SafeInv
<1> QED BY <1>1, <1>15, <1>16

\* The running and the completed jobs are submitted jobs, and no job is both:
\* what the assertions on the counters rest on.
LEMMA Conserved ==
  ASSUME LifeCycle, JobCounters
  PROVE  /\ nb_submitted_jobs \in Nat /\ nb_running_jobs \in Nat
         /\ nb_completed_jobs \in Nat /\ nb_killed_jobs \in Nat
         /\ nb_completed_jobs + nb_running_jobs <= nb_submitted_jobs
         /\ \A j \in SubmittedJobs : j \notin RunningJobs /\ j \notin CompletedJobs
              => nb_completed_jobs + nb_running_jobs + 1 <= nb_submitted_jobs
         /\ \A J \in SUBSET RunningJobs : Cardinality(J) <= nb_running_jobs
<1> DEFINE B == RunningJobs \cup CompletedJobs
<1>1. /\ nb_submitted_jobs \in Nat /\ nb_running_jobs \in Nat
      /\ nb_completed_jobs \in Nat /\ nb_killed_jobs \in Nat
  BY CountedSets, JobSetSize DEF JobCounters
<1>2. RunningJobs \cap CompletedJobs = {}
  BY CountedSets, CountedJobs
<1>3. B \in SUBSET SubmittedJobs
  <2>1. ASSUME NEW j \in Jobs, j \in B PROVE j \in SubmittedJobs
    <3>1. job_state[j] \in {"running", "completed", "killed", "rejected"}
      BY <2>1, CountedJobs
    <3>2. "JOB_REGISTERED_BY_DP" \notin Mail(j)
      <4>1. "JOB_REGISTERED_BY_DP" \in Mail(j) => Registered(j) \/ Offered(j)
        BY MailLives
      <4> QED BY <3>1, <4>1 DEF Registered, Offered, In
    <3> QED BY <3>1, <3>2, CountedJobs
  <2> QED BY <2>1, CountedSets
<1>4. Cardinality(B) = nb_running_jobs + nb_completed_jobs
  BY <1>2, CountedSets, JobsJoin DEF JobCounters
<1>5. Cardinality(B) <= nb_submitted_jobs
  BY <1>3, CountedSets, JobsInside DEF JobCounters
<1>6. ASSUME NEW j \in SubmittedJobs, j \notin RunningJobs, j \notin CompletedJobs
      PROVE  nb_completed_jobs + nb_running_jobs + 1 <= nb_submitted_jobs
  <2>1. B \cup {j} \in SUBSET SubmittedJobs /\ B \in SUBSET Jobs /\ j \notin B /\ j \in Jobs
    BY <1>3, <1>6, CountedSets
  <2>2. Cardinality(B \cup {j}) <= nb_submitted_jobs
    BY <2>1, CountedSets, JobsInside DEF JobCounters
  <2>3. Cardinality(B \cup {j}) = Cardinality(B) + 1
    BY <2>1, OneJob
  <2> QED BY <1>1, <1>4, <2>2, <2>3
<1>7. ASSUME NEW J \in SUBSET RunningJobs PROVE Cardinality(J) <= nb_running_jobs
  BY <1>7, CountedSets, JobsInside DEF JobCounters
<1> QED BY <1>1, <1>4, <1>5, <1>6, <1>7

\* A handler whose message names one job leaves the other jobs alone.
LEMMA OneJobHandler ==
  ASSUME TypeOK, TypeOK', SafeInv, NEW t \in OfOneJob, Receive(t),
         NEW j \in Jobs, MsgJobs = {j},
         UNCHANGED <<helpers, submitterCounters, loopVars, contextVars, killers,
                     sleeping, submitter_pc, todo, schedVars>>,
         origin_of_jobs' \subseteq origin_of_jobs,
         job_state'[j] # "not_submitted", job_state[j] # "not_submitted",
         \A k \in Jobs : k # j => /\ job_state'[k] = job_state[k]
                                  /\ actor'[k] = actor[k]
                                  /\ jobs_to_be_deleted'[k] = jobs_to_be_deleted[k]
                                  /\ News(k)' = News(k)
  PROVE  /\ MailSound' /\ RegistrationInv' /\ EndInv' /\ SubmitterInv'
         /\ HelperCounters' /\ \A k \in Jobs \ {j} : Untouched(k)
         /\ Mail(j)' = Mail(j) \ {t} /\ KillsDone' = KillsDone
<1>1. /\ t \in LifeMail /\ t # "SCHED_READY" /\ t # "KILLING_DONE"
      /\ t \notin FromSubmitter /\ t # "WAITING_DONE"
      /\ t \notin {"END_DYNAMIC_REGISTER", "CONTINUE_DYNAMIC_REGISTER"}
  BY DEF OfOneJob, LifeMail, FromSubmitter
<1>2. /\ MailSound' /\ KillsDone' = KillsDone
      /\ \A T : NbMessages(T)' = IF T = t THEN NbMessages(T) - 1 ELSE NbMessages(T)
      /\ Mail(j)' = Mail(j) \ {t}
      /\ \A k : k # j => Mail(k)' = Mail(k)
  <2>1. j \in MsgJobs /\ \A k : k # j => k \notin MsgJobs
    OBVIOUS
  <2> QED BY <1>1, <2>1, Taken
<1>3. RegistrationInv' /\ EndInv'
  BY <1>1, HandlerFrame
<1>4. SubmitterInv'
  <2>1. \A k \in Jobs : job_state'[k] = "not_submitted" <=> job_state[k] = "not_submitted"
    OBVIOUS
  <2> QED BY <1>1, <2>1, SubmitterHandlerFrame
<1>5. HelperCounters'
  BY <1>1, <1>2, HelperFrame, CountersSplit DEF SafeInv
<1>6. \A k \in Jobs \ {j} : Untouched(k)
  BY <1>2 DEF Untouched
<1> QED BY <1>2, <1>3, <1>4, <1>5, <1>6

\* JOB_REGISTERED_BY_DP: the job is in its workload already, and is counted now.
LEMMA OnRegisterSafe ==
  ASSUME TypeOK, TypeOK', SafeInv, server_on_register_job
  PROVE  SafeInv'
<1> DEFINE t == "JOB_REGISTERED_BY_DP"
<1>1. /\ Receive(t)
      /\ nb_submitted_jobs' = nb_submitted_jobs + 1
      /\ proto_writer' = IF RegistrationAck
                         THEN proto_writer \o Evt("JOB_SUBMITTED", MsgJobs)
                         ELSE proto_writer
      /\ UNCHANGED <<nb_running_jobs, nb_completed_jobs, nb_killed_jobs, helpers,
                     submitterCounters, loopVars, origin_of_jobs,
                     jobs_to_be_deleted, contextVars, job_state, killers,
                     aborted, actorVars>>
  BY DEF server_on_register_job
<1>2. t \in OfOneJob /\ t \in LifeMail /\ t # "KILLING_DONE"
  BY DEF OfOneJob, LifeMail
<1>3. PICK j \in Jobs : MsgJobs = {j}
  BY <1>1, <1>2, Taken
<1>4. t \in Mail(j)
  BY <1>1, <1>2, <1>3, Taken
<1>5. /\ Registered(j) \/ Offered(j)
      /\ Mail(j) = {t} /\ News(j) = {} /\ job_state[j] = "submitted"
      /\ Registered(j) => RegistrationAck
      /\ Offered(j) => ~RegistrationAck
  <2>1. (Registered(j) \/ Offered(j)) /\ Mail(j) = {t}
    BY <1>4, MailLives DEF SafeInv
  <2> QED BY <2>1 DEF Registered, Offered, In
<1>6. \A k : News(k)' = IF RegistrationAck /\ k = j THEN {"JOB_SUBMITTED"} ELSE News(k)
  <2>1. CASE RegistrationAck
    <3>1. "JOB_SUBMITTED" \in EventTypes /\ {j} \in SUBSET Jobs
      BY DEF EventTypes
    <3>2. proto_writer' = proto_writer \o Evt("JOB_SUBMITTED", {j})
      BY <1>1, <1>3, <2>1
    <3> QED BY <1>5, <2>1, <3>1, <3>2, NewsAdded
  <2>2. CASE ~RegistrationAck
    BY <1>1, <2>2, NewsKept
  <2> QED BY <2>1, <2>2
<1>7. /\ MailSound' /\ RegistrationInv' /\ EndInv' /\ SubmitterInv'
      /\ HelperCounters' /\ \A k \in Jobs \ {j} : Untouched(k)
      /\ Mail(j)' = Mail(j) \ {t} /\ KillsDone' = KillsDone
  BY <1>1, <1>2, <1>3, <1>5, <1>6, OneJobHandler
<1>8. Registered(j)' \/ Offered(j)'
  BY <1>1, <1>5, <1>6, <1>7 DEF Registered, Offered, In, Kept
<1>9. LifeCycle'
  BY <1>7, <1>8, LifeOne DEF SafeInv, Lives
<1>10. KillInv' /\ MachineInv' /\ NoAssertionFails'
  BY <1>1, <1>2, KillHandlerFrame, MachineFrame DEF SafeInv, NoAssertionFails
<1>11. JobCounters'
  <2>1. /\ j \in SubmittedJobs' /\ j \notin SubmittedJobs
        /\ j \notin RunningJobs' /\ j \notin RunningJobs
        /\ j \notin CompletedJobs' /\ j \notin CompletedJobs
        /\ j \notin KilledJobs' /\ j \notin KilledJobs
    BY <1>1, <1>5, <1>7, CountedJobs, CountedNext
  <2>2. /\ SubmittedJobs' \ {j} = SubmittedJobs \ {j}
        /\ RunningJobs' \ {j} = RunningJobs \ {j}
        /\ CompletedJobs' \ {j} = CompletedJobs \ {j}
        /\ KilledJobs' \ {j} = KilledJobs \ {j}
    <3>1. {j} \in SUBSET Jobs
      OBVIOUS
    <3> QED BY <1>7, <3>1, CountFrame
  <2>3. /\ SubmittedJobs' = SubmittedJobs \cup {j} /\ RunningJobs' = RunningJobs
        /\ CompletedJobs' = CompletedJobs /\ KilledJobs' = KilledJobs
    BY <2>1, <2>2
  <2> QED BY <1>1, <2>1, <2>3, CountedSets, OneJob, CountersSplit DEF JobCounters, SafeInv
<1> QED BY <1>7, <1>9, <1>10, <1>11, CountersJoin DEF SafeInv

\* JOB_COMPLETED: the job is counted, and marked for deletion, once.
LEMMA OnCompletedSafe ==
  ASSUME TypeOK, TypeOK', SafeInv, server_on_job_completed
  PROVE  SafeInv'
<1> DEFINE t == "JOB_COMPLETED"
<1>1. /\ Receive(t)
      /\ origin_of_jobs' = origin_of_jobs \ MsgJobs
      /\ nb_running_jobs' = nb_running_jobs - 1
      /\ nb_completed_jobs' = nb_completed_jobs + 1
      /\ aborted' = \/ nb_running_jobs < 1
                    \/ nb_completed_jobs + nb_running_jobs > nb_submitted_jobs
      /\ proto_writer' = proto_writer \o Evt("JOB_COMPLETED", MsgJobs)
      /\ MarkForDeletion(MsgJobs)
      /\ UNCHANGED <<nb_submitted_jobs, nb_killed_jobs, helpers,
                     submitterCounters, loopVars, contextVars, jobVars, killers,
                     sleeping, todo, submitted_tasks, submitter_pc, reqrep,
                     schedVars>>
  BY DEF server_on_job_completed
<1>2. t \in OfOneJob /\ t \in LifeMail /\ t # "KILLING_DONE"
  BY DEF OfOneJob, LifeMail
<1>3. PICK j \in Jobs : MsgJobs = {j}
  BY <1>1, <1>2, Taken
<1>4. t \in Mail(j)
  BY <1>1, <1>2, <1>3, Taken
<1>5. Ended(j)
  BY <1>4, MailLives DEF SafeInv
<1>6. \A k : News(k)' = IF k = j THEN News(k) \cup {t} ELSE News(k)
  <2>1. t \in EventTypes /\ {j} \in SUBSET Jobs
    BY DEF EventTypes
  <2>2. proto_writer' = proto_writer \o Evt("JOB_COMPLETED", {j})
    BY <1>1, <1>3
  <2> QED BY <2>1, <2>2, NewsAdded
<1>7. /\ jobs_to_be_deleted'[j] = jobs_to_be_deleted[j] + 1
      /\ \A k \in Jobs : k # j => jobs_to_be_deleted'[k] = jobs_to_be_deleted[k]
  BY <1>1, <1>3 DEF MarkForDeletion, TypeOK
<1>8. /\ MailSound' /\ RegistrationInv' /\ EndInv' /\ SubmitterInv'
      /\ HelperCounters' /\ \A k \in Jobs \ {j} : Untouched(k)
      /\ Mail(j)' = Mail(j) \ {t} /\ KillsDone' = KillsDone
  <2>1. job_state[j] = "completed"
    BY <1>5 DEF Ended, In
  <2> QED BY <1>1, <1>2, <1>3, <1>6, <1>7, <2>1, OneJobHandler
<1>9. Counted(j)'
  BY <1>1, <1>5, <1>6, <1>7, <1>8 DEF Ended, Counted, In, Kept
<1>10. LifeCycle'
  BY <1>8, <1>9, LifeOne DEF SafeInv, Lives
<1>11. KillInv' /\ MachineInv'
  BY <1>1, <1>2, KillHandlerFrame, MachineFrame DEF SafeInv
<1>12. /\ j \in SubmittedJobs' /\ j \in SubmittedJobs
       /\ j \notin RunningJobs' /\ j \in RunningJobs
       /\ j \in CompletedJobs' /\ j \notin CompletedJobs
       /\ j \notin KilledJobs' /\ j \notin KilledJobs
  BY <1>1, <1>5, <1>8, CountedJobs, CountedNext DEF Ended, In
<1>13. JobCounters'
  <2>1. /\ SubmittedJobs' \ {j} = SubmittedJobs \ {j}
        /\ RunningJobs' \ {j} = RunningJobs \ {j}
        /\ CompletedJobs' \ {j} = CompletedJobs \ {j}
        /\ KilledJobs' \ {j} = KilledJobs \ {j}
    <3>1. {j} \in SUBSET Jobs
      OBVIOUS
    <3> QED BY <1>8, <3>1, CountFrame
  <2>2. /\ SubmittedJobs' = SubmittedJobs /\ RunningJobs' = RunningJobs \ {j}
        /\ CompletedJobs' = CompletedJobs \cup {j} /\ KilledJobs' = KilledJobs
    BY <1>12, <2>1
  <2> QED BY <1>1, <1>12, <2>2, CountedSets, OneJob, CountersSplit DEF JobCounters, SafeInv
<1>14. NoAssertionFails'
  <2>1. /\ nb_submitted_jobs \in Nat /\ nb_running_jobs \in Nat
        /\ nb_completed_jobs \in Nat
        /\ nb_completed_jobs + nb_running_jobs <= nb_submitted_jobs
        /\ Cardinality({j}) <= nb_running_jobs
    BY <1>12, Conserved, CountersSplit DEF SafeInv
  <2>2. Cardinality({j}) = 1
    BY FS_Singleton
  <2> QED BY <1>1, <2>1, <2>2 DEF NoAssertionFails
<1> QED BY <1>8, <1>10, <1>11, <1>13, <1>14, CountersJoin DEF SafeInv

\* WAITING_DONE and CALL_ME_LATER.
LEMMA OnWaitingSafe ==
  ASSUME TypeOK, TypeOK', SafeInv,
         server_on_waiting_done \/ server_on_call_me_later
  PROVE  SafeInv'
<1>1. PICK t \in {"WAITING_DONE", "SCHED_CALL_ME_LATER"} :
      /\ Receive(t)
      /\ t = "WAITING_DONE" => /\ proto_writer' = proto_writer \o Evt("REQUESTED_CALL", {})
                               /\ nb_waiters' = nb_waiters - 1 /\ UNCHANGED sleeping
      /\ t = "SCHED_CALL_ME_LATER" => /\ sleeping' = sleeping + 1
                                      /\ nb_waiters' = nb_waiters + 1
                                      /\ UNCHANGED proto_writer
      /\ UNCHANGED <<counters, nb_killers, submitterCounters, loopVars,
                     origin_of_jobs, jobs_to_be_deleted, contextVars, jobVars,
                     killers, submitterVars, reqrep, aborted, schedVars>>
  <2>1. ASSUME server_on_waiting_done
        PROVE  /\ Receive("WAITING_DONE")
               /\ proto_writer' = proto_writer \o Evt("REQUESTED_CALL", {})
               /\ nb_waiters' = nb_waiters - 1 /\ UNCHANGED sleeping
               /\ UNCHANGED <<counters, nb_killers, submitterCounters, loopVars,
                              origin_of_jobs, jobs_to_be_deleted, contextVars,
                              jobVars, killers, submitterVars, reqrep, aborted,
                              schedVars>>
    BY <2>1 DEF server_on_waiting_done
  <2>2. ASSUME server_on_call_me_later
        PROVE  /\ Receive("SCHED_CALL_ME_LATER")
               /\ sleeping' = sleeping + 1
               /\ nb_waiters' = nb_waiters + 1 /\ UNCHANGED proto_writer
               /\ UNCHANGED <<counters, nb_killers, submitterCounters, loopVars,
                              origin_of_jobs, jobs_to_be_deleted, contextVars,
                              jobVars, killers, submitterVars, reqrep, aborted,
                              schedVars>>
    BY <2>2 DEF server_on_call_me_later
  <2> QED BY <2>1, <2>2
<1>2. t \notin FromSubmitter /\ t \notin LifeMail /\ t # "SCHED_READY" /\ t # "KILLING_DONE"
      /\ t \notin {"END_DYNAMIC_REGISTER", "CONTINUE_DYNAMIC_REGISTER"}
  BY DEF FromSubmitter, LifeMail, OfOneJob
<1>3. \A j : News(j)' = News(j)
  <2>1. CASE t = "WAITING_DONE"
    <3>1. "REQUESTED_CALL" \in EventTypes /\ {} \in SUBSET Jobs
      BY DEF EventTypes
    <3> QED BY <1>1, <2>1, <3>1, NewsAdded
  <2>2. CASE t = "SCHED_CALL_ME_LATER"
    BY <1>1, <2>2, NewsKept
  <2> QED BY <2>1, <2>2
<1>4. MailSound' /\ LifeCycle' /\ KillInv' /\ MachineInv' /\ JobCounters'
  BY <1>1, <1>2, <1>3, QuietHandler
<1>5. RegistrationInv' /\ EndInv' /\ SubmitterInv' /\ NoAssertionFails'
  BY <1>1, <1>2, HandlerFrame, SubmitterHandlerFrame DEF SafeInv, NoAssertionFails
<1>6. HelperCounters'
  <2>1. /\ \A T : NbMessages(T)' = IF T = t THEN NbMessages(T) - 1 ELSE NbMessages(T)
        /\ NbMessages("WAITING_DONE") \in Nat /\ NbMessages("KILLING_DONE") \in Nat
    BY <1>1, Taken, NbMessagesType
  <2>2. /\ nb_killers = Cardinality(killers) + NbMessages("KILLING_DONE")
        /\ nb_waiters = sleeping + NbMessages("WAITING_DONE") /\ sleeping \in Nat
    BY CountersSplit DEF HelperCounters, SafeInv, TypeOK
  <2>3. nb_killers' = Cardinality(killers') + NbMessages("KILLING_DONE")'
    BY <1>1, <1>2, <2>1, <2>2
  <2>4. nb_waiters' = sleeping' + NbMessages("WAITING_DONE")'
    <3>1. CASE t = "WAITING_DONE"
      BY <1>1, <2>1, <2>2, <3>1
    <3>2. CASE t = "SCHED_CALL_ME_LATER"
      BY <1>1, <2>1, <2>2, <3>2
    <3> QED BY <3>1, <3>2
  <2> QED BY <2>3, <2>4 DEF HelperCounters
<1> QED BY <1>4, <1>5, <1>6, CountersJoin DEF SafeInv

\* The answer of the scheduler: when SIMULATION_ENDS has been sent, it is the
\* last message the server reads.
LEMMA OnReadySafe ==
  ASSUME TypeOK, TypeOK', SafeInv, server_on_sched_ready
  PROVE  SafeInv'
<1> DEFINE t == "SCHED_READY"
<1>1. /\ Receive(t) /\ sched_ready' = TRUE
      /\ end_of_simulation_ack_received' = end_of_simulation_sent
      /\ UNCHANGED <<counters, helpers, submitterCounters,
                     end_of_simulation_sent, origin_of_jobs, jobs_to_be_deleted,
                     proto_writer, contextVars, job_state, killers, aborted,
                     actorVars>>
  BY DEF server_on_sched_ready
<1>2. t \notin FromSubmitter /\ t \notin LifeMail /\ t # "KILLING_DONE"
  BY DEF FromSubmitter, LifeMail, OfOneJob
<1>3. MailSound' /\ LifeCycle' /\ KillInv' /\ MachineInv' /\ JobCounters'
  BY <1>1, <1>2, NewsKept, QuietHandler
<1>4. SubmitterInv' /\ NoAssertionFails'
  BY <1>1, <1>2, SubmitterHandlerFrame DEF SafeInv, NoAssertionFails
<1>5. /\ \A T : T # t => (Posted(T)' <=> Posted(T))
      /\ \A T : NbMessages(T)' = IF T = t THEN NbMessages(T) - 1 ELSE NbMessages(T)
  BY <1>1, Taken
<1>6. RegistrationInv'
  BY <1>1, <1>5, RegistrationFrame DEF SafeInv
<1>7. HelperCounters'
  BY <1>1, <1>5, HelperFrame, CountersSplit DEF SafeInv
<1>8. EndInv'
  <2>1. (\A i \in DOMAIN mailbox : mailbox[i].type = t)
          => \A i \in DOMAIN mailbox' : mailbox'[i].type = t
    <3>1. mailbox # <<>> /\ mailbox' = Tail(mailbox) /\ mailbox \in Seq(Message)
      BY <1>1 DEF Receive, TypeOK
    <3> QED BY <3>1
  <2> QED BY <1>1, <2>1 DEF SafeInv, EndInv, EndIsFinal
<1> QED BY <1>3, <1>4, <1>6, <1>7, <1>8, CountersJoin DEF SafeInv

\* The scheduler finishes, or continues, the registration of jobs.
LEMMA OnRegistrationSafe ==
  ASSUME TypeOK, TypeOK', SafeInv, server_on_dynamic_register
  PROVE  SafeInv'
<1>1. PICK t \in {"END_DYNAMIC_REGISTER", "CONTINUE_DYNAMIC_REGISTER"} :
      /\ Receive(t)
      /\ registration_sched_finished' = (t = "END_DYNAMIC_REGISTER")
      /\ UNCHANGED <<counters, helpers, submitterCounters, loopVars,
                     origin_of_jobs, jobs_to_be_deleted, proto_writer,
                     kill_requested, deleted, job_state, killers, aborted,
                     actorVars>>
  BY DEF server_on_dynamic_register
<1>2. t \notin FromSubmitter /\ t \notin LifeMail /\ t # "KILLING_DONE" /\ t # "WAITING_DONE"
      /\ t # "SCHED_READY" /\ t \in Decisions
  BY DEF FromSubmitter, LifeMail, OfOneJob, Decisions
<1>3. MailSound' /\ LifeCycle' /\ KillInv' /\ MachineInv' /\ JobCounters'
  BY <1>1, <1>2, NewsKept, QuietHandler
<1>4. SubmitterInv' /\ NoAssertionFails'
  BY <1>1, <1>2, SubmitterHandlerFrame DEF SafeInv, NoAssertionFails
<1>5. /\ \A T : NbMessages(T)' = IF T = t THEN NbMessages(T) - 1 ELSE NbMessages(T)
      /\ ~end_of_simulation_sent
  BY <1>1, <1>2, Taken
<1>6. HelperCounters' /\ EndInv'
  BY <1>1, <1>2, <1>5, HelperFrame, EndFrame, CountersSplit DEF SafeInv
<1>7. RegistrationInv'
  <2>1. "END_DYNAMIC_REGISTER" \in Decisions
    BY DEF Decisions
  <2>2. ~Posted("END_DYNAMIC_REGISTER")'
    BY <1>1, <1>2, <2>1, DecisionAlone DEF SafeInv
  <2>3. Posted(t)
    BY <1>1, ReceiveEffect DEF SafeInv
  <2>4. ASSUME registration_sched_finished'
        PROVE  end_register' \notin {"open", "reopened"}
    <3>1. t = "END_DYNAMIC_REGISTER" /\ UNCHANGED end_register
      BY <1>1, <2>4
    <3> QED BY <2>3, <3>1 DEF SafeInv, RegistrationInv
  <2> QED BY <2>2, <2>4 DEF RegistrationInv
<1> QED BY <1>3, <1>4, <1>6, <1>7, CountersJoin DEF SafeInv

\* EXECUTE_JOB: the machines the scheduler chose are free when it is handled.
LEMMA OnExecuteSafe ==
  ASSUME TypeOK, TypeOK', SafeInv, server_on_execute_job
  PROVE  SafeInv'
<1> DEFINE t == "SCHED_EXECUTE_JOB"
<1>1. /\ Receive(t)
      /\ nb_running_jobs' = nb_running_jobs + 1
      /\ UNCHANGED <<nb_submitted_jobs, nb_completed_jobs, nb_killed_jobs,
                     helpers, submitterCounters, loopVars, origin_of_jobs,
                     jobs_to_be_deleted, proto_writer, contextVars,
                     jobs_being_computed, killers, sleeping, submitterVars,
                     reqrep, schedVars>>
  BY DEF server_on_execute_job
<1>2. t \in OfOneJob /\ t \in LifeMail /\ t # "KILLING_DONE"
  BY DEF OfOneJob, LifeMail
<1>3. PICK j \in Jobs : MsgJobs = {j}
  BY <1>1, <1>2, Taken
<1>4. /\ aborted' = \/ job_state[j] # "submitted"
                    \/ nb_running_jobs + 1 > nb_submitted_jobs
                    \/ \E m \in alloc[j] : jobs_being_computed[m] # {}
                    \/ Cardinality(alloc[j]) # Req[j]
      /\ job_state' = [job_state EXCEPT ![j] = "running"]
      /\ actor' = [actor EXCEPT ![j] = "spawned"]
  BY <1>3 DEF server_on_execute_job
<1>5. /\ t \in Mail(j) /\ killers = {}
      /\ \A T : MailJobs(T)' = IF T = t THEN MailJobs(T) \ MsgJobs ELSE MailJobs(T)
  BY <1>1, <1>2, <1>3, Taken
<1>6. Ordered(j)
  BY <1>5, MailLives DEF SafeInv
<1>7. \A k : News(k)' = News(k)
  BY <1>1, NewsKept
<1>8. /\ job_state'[j] = "running" /\ actor'[j] = "spawned"
      /\ \A k \in Jobs : k # j => job_state'[k] = job_state[k] /\ actor'[k] = actor[k]
      /\ job_state[j] = "submitted" /\ actor[j] = "none"
  BY <1>4, <1>6 DEF Ordered, In, TypeOK
<1>9. /\ MailSound' /\ RegistrationInv' /\ EndInv' /\ SubmitterInv'
      /\ HelperCounters' /\ \A k \in Jobs \ {j} : Untouched(k)
      /\ Mail(j)' = Mail(j) \ {t} /\ KillsDone' = KillsDone
  BY <1>1, <1>2, <1>3, <1>7, <1>8, OneJobHandler
<1>10. LifeCycle'
  <2>1. Computing(j)'
    BY <1>1, <1>6, <1>7, <1>8, <1>9 DEF Ordered, Computing, In, Kept
  <2> QED BY <1>9, <2>1, LifeOne DEF SafeInv, Lives
<1>11. KillInv'
  <2>1. j \notin kill_requested
    BY <1>8 DEF SafeInv, KillInv
  <2>2. \A k \in kill_requested : actor'[k] \notin {"none", "spawned"}
    BY <1>8, <2>1 DEF SafeInv, KillInv, TypeOK
  <2>3. \A k \in Jobs : /\ actor'[k] = "cancelled" => k \in KillsDone'
                        /\ job_state'[k] = "killed" => k \in kill_requested
    BY <1>8, <1>9 DEF SafeInv, KillInv
  <2>4. MailJobs("SCHED_KILL_JOB")' = MailJobs("SCHED_KILL_JOB")
    BY <1>5
  <2>5. killers' = {}
    BY <1>1, <1>5
  <2> QED BY <1>1, <1>9, <2>2, <2>3, <2>4, <2>5 DEF SafeInv, KillInv
<1>12. MachineInv'
  <2>1. \A m \in Machines : j \notin jobs_being_computed[m]
    BY <1>8 DEF SafeInv, MachineInv
  <2>2. \A m \in Machines, k \in Jobs :
           k \in jobs_being_computed'[m]
             <=> actor'[k] \in {"executing", "cancelled"} /\ m \in alloc'[k]
    BY <1>1, <1>8, <2>1 DEF SafeInv, MachineInv
  <2> QED BY <1>1, <2>2 DEF SafeInv, MachineInv
<1>13. /\ j \in SubmittedJobs' /\ j \in SubmittedJobs
       /\ j \in RunningJobs' /\ j \notin RunningJobs
       /\ j \notin CompletedJobs' /\ j \notin CompletedJobs
       /\ j \notin KilledJobs' /\ j \notin KilledJobs
  BY <1>6, <1>8, <1>9, CountedJobs, CountedNext DEF Ordered, In
<1>14. JobCounters'
  <2>1. /\ SubmittedJobs' \ {j} = SubmittedJobs \ {j}
        /\ RunningJobs' \ {j} = RunningJobs \ {j}
        /\ CompletedJobs' \ {j} = CompletedJobs \ {j}
        /\ KilledJobs' \ {j} = KilledJobs \ {j}
    <3>1. {j} \in SUBSET Jobs
      OBVIOUS
    <3> QED BY <1>9, <3>1, CountFrame
  <2>2. /\ SubmittedJobs' = SubmittedJobs /\ RunningJobs' = RunningJobs \cup {j}
        /\ CompletedJobs' = CompletedJobs /\ KilledJobs' = KilledJobs
    BY <1>13, <2>1
  <2> QED BY <1>1, <1>13, <2>2, CountedSets, OneJob, CountersSplit DEF JobCounters, SafeInv
<1>15. NoAssertionFails'
  <2>1. /\ nb_submitted_jobs \in Nat /\ nb_running_jobs \in Nat
        /\ nb_completed_jobs \in Nat
        /\ nb_completed_jobs + nb_running_jobs + 1 <= nb_submitted_jobs
    BY <1>13, Conserved, CountersSplit DEF SafeInv
  <2>2. view[j] = "running"
    BY <1>6 DEF Ordered, In
  <2>3. ASSUME NEW m \in alloc[j], NEW k \in jobs_being_computed[m] PROVE FALSE
    <3>1. m \in Machines /\ k \in Jobs
      BY <2>3 DEF TypeOK
    <3>2. actor[k] \in {"executing", "cancelled"} /\ m \in alloc[k]
      BY <2>3, <3>1 DEF SafeInv, MachineInv
    <3>3. Computing(k)
      BY <3>1, <3>2, ActorLives DEF SafeInv, Ended, Killed, Counted, Deleted, In
    <3>4. view[k] = "running" /\ k # j
      BY <1>8, <3>2, <3>3 DEF Computing
    <3> QED BY <2>2, <2>3, <3>1, <3>2, <3>4 DEF SafeInv, MachineInv
  <2>4. Cardinality(alloc[j]) = Req[j]
    BY <2>2 DEF SafeInv, MachineInv
  <2> QED BY <1>4, <1>8, <2>1, <2>3, <2>4 DEF NoAssertionFails
<1> QED BY <1>9, <1>10, <1>11, <1>12, <1>14, <1>15, CountersJoin DEF SafeInv

\* REJECT_JOB, and CHANGE_JOB_STATE to REJECTED: the job was submitted and is
\* counted as completed at once.
LEMMA OnRejectSafe ==
  ASSUME TypeOK, TypeOK', SafeInv,
         NEW t \in {"SCHED_REJECT_JOB", "CHANGE_TO_REJECTED"}, Receive(t),
         NEW j \in Jobs, MsgJobs = {j},
         aborted' = \/ j \in deleted \/ job_state[j] # "submitted"
                    \/ /\ t = "CHANGE_TO_REJECTED"
                       /\ nb_completed_jobs + 1 + nb_running_jobs > nb_submitted_jobs,
         job_state'[j] = "rejected",
         \A k \in Jobs : k # j => job_state'[k] = job_state[k],
         nb_completed_jobs' = nb_completed_jobs + 1, MarkForDeletion({j}),
         UNCHANGED <<nb_submitted_jobs, nb_running_jobs, nb_killed_jobs, helpers,
                     submitterCounters, loopVars, origin_of_jobs, proto_writer,
                     contextVars, killers, actorVars>>
  PROVE  SafeInv'
<1>1. t \in OfOneJob /\ t \in LifeMail /\ t # "KILLING_DONE"
  BY DEF OfOneJob, LifeMail
<1>2. t \in Mail(j)
  BY <1>1, Taken
<1>3. Refused(j) /\ Mail(j) = {t} /\ job_state[j] = "submitted"
  BY <1>2, MailLives DEF SafeInv, Refused, In
<1>4. \A k : News(k)' = News(k)
  BY NewsKept
<1>5. /\ jobs_to_be_deleted'[j] = jobs_to_be_deleted[j] + 1
      /\ \A k \in Jobs : k # j => jobs_to_be_deleted'[k] = jobs_to_be_deleted[k]
  BY DEF MarkForDeletion, TypeOK
<1>6. /\ MailSound' /\ RegistrationInv' /\ EndInv' /\ SubmitterInv'
      /\ HelperCounters' /\ \A k \in Jobs \ {j} : Untouched(k)
      /\ Mail(j)' = Mail(j) \ {t} /\ KillsDone' = KillsDone
  BY <1>1, <1>3, <1>4, <1>5, OneJobHandler
<1>7. LifeCycle'
  <2>1. Closed(j)'
    BY <1>3, <1>4, <1>5, <1>6 DEF Refused, Closed, In, Kept, Dropped
  <2> QED BY <1>6, <2>1, LifeOne DEF SafeInv, Lives
<1>8. KillInv' /\ MachineInv'
  <2>1. \A k \in Jobs : job_state'[k] = "killed" => job_state[k] = "killed"
    OBVIOUS
  <2> QED BY <1>1, <2>1, KillHandlerFrame, MachineFrame DEF SafeInv
<1>9. /\ j \in SubmittedJobs' /\ j \in SubmittedJobs
      /\ j \notin RunningJobs' /\ j \notin RunningJobs
      /\ j \in CompletedJobs' /\ j \notin CompletedJobs
      /\ j \notin KilledJobs' /\ j \notin KilledJobs
  BY <1>3, <1>6, CountedJobs, CountedNext
<1>10. JobCounters'
  <2>1. /\ SubmittedJobs' \ {j} = SubmittedJobs \ {j}
        /\ RunningJobs' \ {j} = RunningJobs \ {j}
        /\ CompletedJobs' \ {j} = CompletedJobs \ {j}
        /\ KilledJobs' \ {j} = KilledJobs \ {j}
    <3>1. {j} \in SUBSET Jobs
      OBVIOUS
    <3> QED BY <1>6, <3>1, CountFrame
  <2>2. /\ SubmittedJobs' = SubmittedJobs /\ RunningJobs' = RunningJobs
        /\ CompletedJobs' = CompletedJobs \cup {j} /\ KilledJobs' = KilledJobs
    BY <1>9, <2>1
  <2> QED BY <1>9, <2>2, CountedSets, OneJob, CountersSplit DEF JobCounters, SafeInv
<1>11. NoAssertionFails'
  <2>1. /\ nb_submitted_jobs \in Nat /\ nb_running_jobs \in Nat
        /\ nb_completed_jobs \in Nat
        /\ nb_completed_jobs + nb_running_jobs + 1 <= nb_submitted_jobs
    BY <1>9, Conserved, CountersSplit DEF SafeInv
  <2> QED BY <1>3, <2>1 DEF Refused, Kept, NoAssertionFails
<1> QED BY <1>6, <1>7, <1>8, <1>10, <1>11, CountersJoin DEF SafeInv

\* CHANGE_JOB_STATE to RUNNING and to COMPLETED, for a job the scheduler drives.
LEMMA OnSteerSafe ==
  ASSUME TypeOK, TypeOK', SafeInv,
         NEW t \in {"CHANGE_TO_RUNNING", "CHANGE_TO_COMPLETED"}, Receive(t),
         NEW j \in Jobs, MsgJobs = {j},
         \A k \in Jobs : k # j => job_state'[k] = job_state[k],
         UNCHANGED <<nb_submitted_jobs, nb_killed_jobs, helpers,
                     submitterCounters, loopVars, origin_of_jobs, proto_writer,
                     contextVars, killers, actorVars>>,
         \/ /\ t = "CHANGE_TO_RUNNING"
            /\ job_state'[j] = "running"
            /\ nb_running_jobs' = nb_running_jobs + 1
            /\ aborted' = \/ job_state[j] # "submitted" \/ j \in deleted
                          \/ nb_running_jobs + 1 > nb_submitted_jobs
            /\ UNCHANGED <<nb_completed_jobs, jobs_to_be_deleted>>
         \/ /\ t = "CHANGE_TO_COMPLETED"
            /\ job_state'[j] = "completed"
            /\ nb_running_jobs' = nb_running_jobs - 1
            /\ nb_completed_jobs' = nb_completed_jobs + 1
            /\ aborted' = \/ job_state[j] # "running" \/ j \in deleted
                          \/ nb_running_jobs < 1
                          \/ nb_completed_jobs + nb_running_jobs > nb_submitted_jobs
            /\ MarkForDeletion({j})
  PROVE  SafeInv'
<1>1. t \in OfOneJob /\ t \in LifeMail /\ t # "KILLING_DONE"
  BY DEF OfOneJob, LifeMail
<1>2. t \in Mail(j)
  BY <1>1, Taken
<1>3. /\ Steered(j) /\ Mail(j) = {t} /\ j \in Driven /\ Kept(j) /\ News(j) = {}
      /\ t = "CHANGE_TO_RUNNING" => In(j, "submitted", "driven", "none")
      /\ t = "CHANGE_TO_COMPLETED" => In(j, "running", "done", "none")
  BY <1>2, MailLives DEF SafeInv, Steered
<1>4. \A k : News(k)' = News(k)
  BY NewsKept
<1>5. /\ jobs_to_be_deleted'[j] = jobs_to_be_deleted[j]
                                    + (IF t = "CHANGE_TO_COMPLETED" THEN 1 ELSE 0)
      /\ \A k \in Jobs : k # j => jobs_to_be_deleted'[k] = jobs_to_be_deleted[k]
  <2>1. \A k \in Jobs : jobs_to_be_deleted[k] \in Nat
    BY DEF TypeOK
  <2>2. CASE t = "CHANGE_TO_RUNNING"
    BY <2>1, <2>2
  <2>3. CASE t = "CHANGE_TO_COMPLETED"
    BY <2>1, <2>3 DEF MarkForDeletion
  <2> QED BY <2>2, <2>3
<1>6. /\ MailSound' /\ RegistrationInv' /\ EndInv' /\ SubmitterInv'
      /\ HelperCounters' /\ \A k \in Jobs \ {j} : Untouched(k)
      /\ Mail(j)' = Mail(j) \ {t} /\ KillsDone' = KillsDone
  <2>1. job_state[j] # "not_submitted" /\ job_state'[j] # "not_submitted"
    BY <1>3 DEF In
  <2> QED BY <1>1, <1>4, <1>5, <2>1, OneJobHandler
<1>7. LifeCycle'
  <2>1. Steered(j)' \/ Closed(j)'
    <3>1. CASE t = "CHANGE_TO_RUNNING"
      BY <1>3, <1>4, <1>5, <1>6, <3>1 DEF Steered, In, Kept
    <3>2. CASE t = "CHANGE_TO_COMPLETED"
      BY <1>3, <1>4, <1>5, <1>6, <3>2 DEF Closed, In, Kept, Dropped
    <3> QED BY <3>1, <3>2
  <2> QED BY <1>6, <2>1, LifeOne DEF SafeInv, Lives
<1>8. KillInv' /\ MachineInv'
  <2>1. \A k \in Jobs : job_state'[k] = "killed" => job_state[k] = "killed"
    OBVIOUS
  <2> QED BY <1>1, <2>1, KillHandlerFrame, MachineFrame DEF SafeInv
<1>9. /\ SubmittedJobs' \ {j} = SubmittedJobs \ {j}
      /\ RunningJobs' \ {j} = RunningJobs \ {j}
      /\ CompletedJobs' \ {j} = CompletedJobs \ {j}
      /\ KilledJobs' \ {j} = KilledJobs \ {j}
  <2>1. {j} \in SUBSET Jobs
    OBVIOUS
  <2> QED BY <1>6, <2>1, CountFrame
<1>10. /\ j \in SubmittedJobs' /\ j \in SubmittedJobs
       /\ j \in RunningJobs <=> t = "CHANGE_TO_COMPLETED"
       /\ j \in RunningJobs' <=> t = "CHANGE_TO_RUNNING"
       /\ j \notin CompletedJobs
       /\ j \in CompletedJobs' <=> t = "CHANGE_TO_COMPLETED"
       /\ j \notin KilledJobs' /\ j \notin KilledJobs
  BY <1>3, <1>6, CountedJobs, CountedNext DEF In
<1>11. /\ SubmittedJobs' = SubmittedJobs /\ KilledJobs' = KilledJobs
       /\ t = "CHANGE_TO_RUNNING" => /\ RunningJobs' = RunningJobs \cup {j}
                                     /\ CompletedJobs' = CompletedJobs
       /\ t = "CHANGE_TO_COMPLETED" => /\ RunningJobs' = RunningJobs \ {j}
                                       /\ CompletedJobs' = CompletedJobs \cup {j}
  BY <1>9, <1>10
<1>12. JobCounters'
  <2>1. JobCounters
    BY CountersSplit DEF SafeInv
  <2>2. CASE t = "CHANGE_TO_RUNNING"
    <3>1. Cardinality(RunningJobs') = Cardinality(RunningJobs) + 1
      BY <1>10, <1>11, <2>2, CountedSets, OneJob
    <3> QED BY <1>11, <2>1, <2>2, <3>1 DEF JobCounters
  <2>3. CASE t = "CHANGE_TO_COMPLETED"
    <3>1. /\ Cardinality(RunningJobs') = Cardinality(RunningJobs) - 1
          /\ Cardinality(CompletedJobs') = Cardinality(CompletedJobs) + 1
      BY <1>10, <1>11, <2>3, CountedSets, OneJob
    <3> QED BY <1>11, <2>1, <2>3, <3>1 DEF JobCounters
  <2> QED BY <2>2, <2>3
<1>13. NoAssertionFails'
  <2>1. JobCounters /\ LifeCycle
    BY CountersSplit DEF SafeInv
  <2>2. /\ nb_submitted_jobs \in Nat /\ nb_running_jobs \in Nat
        /\ nb_completed_jobs \in Nat
        /\ nb_completed_jobs + nb_running_jobs <= nb_submitted_jobs
    BY <2>1, Conserved
  <2>3. t = "CHANGE_TO_RUNNING"
          => nb_completed_jobs + nb_running_jobs + 1 <= nb_submitted_jobs
    BY <1>10, <2>1, Conserved
  <2>4. t = "CHANGE_TO_COMPLETED" => Cardinality({j}) <= nb_running_jobs
    BY <1>10, <2>1, Conserved
  <2>5. Cardinality({j}) = 1
    BY FS_Singleton
  <2>6. /\ t = "CHANGE_TO_RUNNING" => job_state[j] = "submitted"
        /\ t = "CHANGE_TO_COMPLETED" => job_state[j] = "running"
        /\ j \notin deleted
    BY <1>3 DEF In, Kept
  <2>7. CASE t = "CHANGE_TO_RUNNING"
    <3>1. ~(nb_running_jobs + 1 > nb_submitted_jobs)
      BY <2>2, <2>3, <2>7
    <3> QED BY <2>6, <2>7, <3>1 DEF NoAssertionFails
  <2>8. CASE t = "CHANGE_TO_COMPLETED"
    <3>1. /\ ~(nb_running_jobs < 1)
          /\ ~(nb_completed_jobs + nb_running_jobs > nb_submitted_jobs)
      BY <2>2, <2>4, <2>5, <2>8
    <3> QED BY <2>6, <2>8, <3>1 DEF NoAssertionFails
  <2> QED BY <2>7, <2>8
<1> QED BY <1>6, <1>7, <1>8, <1>12, <1>13, CountersJoin DEF SafeInv

\* REJECT_JOB and CHANGE_JOB_STATE, by the state they ask for.
LEMMA OnChangeSafe ==
  ASSUME TypeOK, TypeOK', SafeInv,
         server_on_reject_job \/ server_on_change_job_state
  PROVE  SafeInv'
<1>1. UNCHANGED <<nb_submitted_jobs, nb_killed_jobs, helpers,
                  submitterCounters, loopVars, origin_of_jobs, proto_writer,
                  contextVars, killers, actorVars>>
  BY DEF server_on_reject_job, server_on_change_job_state
<1>2. ASSUME NEW t \in {"SCHED_REJECT_JOB", "CHANGE_TO_REJECTED",
                        "CHANGE_TO_RUNNING", "CHANGE_TO_COMPLETED"},
             Receive(t)
      PROVE  \E j \in Jobs : MsgJobs = {j}
  <2>1. t \in OfOneJob
    BY DEF OfOneJob
  <2> QED BY <1>2, <2>1, Taken
<1>3. CASE server_on_reject_job
  <2>1. Receive("SCHED_REJECT_JOB")
    BY <1>3 DEF server_on_reject_job
  <2>2. PICK j \in Jobs : MsgJobs = {j}
    BY <1>2, <2>1
  <2>3. /\ aborted' = (j \in deleted \/ job_state[j] # "submitted")
        /\ job_state' = [job_state EXCEPT ![j] = "rejected"]
        /\ nb_completed_jobs' = nb_completed_jobs + 1
        /\ MarkForDeletion({j}) /\ UNCHANGED nb_running_jobs
    BY <1>3, <2>2 DEF server_on_reject_job
  <2>4. /\ job_state'[j] = "rejected"
        /\ \A k \in Jobs : k # j => job_state'[k] = job_state[k]
    BY <2>3 DEF TypeOK
  <2> QED BY <1>1, <2>1, <2>2, <2>3, <2>4, OnRejectSafe
<1>4. CASE /\ Receive("CHANGE_TO_REJECTED")
           /\ job_state' = [j \in Jobs |-> IF j \in MsgJobs THEN "rejected"
                                           ELSE job_state[j]]
           /\ nb_completed_jobs' = nb_completed_jobs + 1
           /\ aborted' = \/ \E j \in MsgJobs : job_state[j] # "submitted"
                         \/ MsgJobs \cap deleted # {}
                         \/ nb_completed_jobs + 1 + nb_running_jobs
                               > nb_submitted_jobs
           /\ MarkForDeletion(MsgJobs)
           /\ UNCHANGED nb_running_jobs
  <2>1. PICK j \in Jobs : MsgJobs = {j}
    BY <1>2, <1>4
  <2>2. /\ aborted' = \/ j \in deleted \/ job_state[j] # "submitted"
                      \/ nb_completed_jobs + 1 + nb_running_jobs > nb_submitted_jobs
        /\ MarkForDeletion({j})
        /\ job_state'[j] = "rejected"
        /\ \A k \in Jobs : k # j => job_state'[k] = job_state[k]
    BY <1>4, <2>1
  <2> QED BY <1>1, <1>4, <2>1, <2>2, OnRejectSafe
<1>5. CASE /\ Receive("CHANGE_TO_RUNNING")
           /\ job_state' = [j \in Jobs |-> IF j \in MsgJobs THEN "running"
                                           ELSE job_state[j]]
           /\ nb_running_jobs' = nb_running_jobs + 1
           /\ aborted' = \/ \E j \in MsgJobs : job_state[j] # "submitted"
                         \/ MsgJobs \cap deleted # {}
                         \/ nb_running_jobs + 1 > nb_submitted_jobs
           /\ UNCHANGED <<nb_completed_jobs, jobs_to_be_deleted>>
  <2>1. PICK j \in Jobs : MsgJobs = {j}
    BY <1>2, <1>5
  <2>2. /\ aborted' = \/ job_state[j] # "submitted" \/ j \in deleted
                      \/ nb_running_jobs + 1 > nb_submitted_jobs
        /\ job_state'[j] = "running"
        /\ \A k \in Jobs : k # j => job_state'[k] = job_state[k]
    BY <1>5, <2>1
  <2> QED BY <1>1, <1>5, <2>1, <2>2, OnSteerSafe
<1>6. CASE /\ Receive("CHANGE_TO_COMPLETED")
           /\ job_state' = [j \in Jobs |-> IF j \in MsgJobs THEN "completed"
                                           ELSE job_state[j]]
           /\ nb_running_jobs' = nb_running_jobs - 1
           /\ nb_completed_jobs' = nb_completed_jobs + 1
           /\ aborted' = \/ \E j \in MsgJobs : job_state[j] # "running"
                         \/ MsgJobs \cap deleted # {}
                         \/ nb_running_jobs < 1
                         \/ nb_completed_jobs + nb_running_jobs
                               > nb_submitted_jobs
           /\ MarkForDeletion(MsgJobs)
  <2>1. PICK j \in Jobs : MsgJobs = {j}
    BY <1>2, <1>6
  <2>2. /\ aborted' = \/ job_state[j] # "running" \/ j \in deleted
                      \/ nb_running_jobs < 1
                      \/ nb_completed_jobs + nb_running_jobs > nb_submitted_jobs
        /\ MarkForDeletion({j})
        /\ job_state'[j] = "completed"
        /\ \A k \in Jobs : k # j => job_state'[k] = job_state[k]
    BY <1>6, <2>1
  <2> QED BY <1>1, <1>6, <2>1, <2>2, OnSteerSafe
<1> QED BY <1>3, <1>4, <1>5, <1>6 DEF server_on_change_job_state

\* KILL_JOB: the killer that is created has jobs the scheduler knows to run,
\* so each of them has an actor that has started, and none of them is erased.
LEMMA OnKillSafe ==
  ASSUME TypeOK, TypeOK', SafeInv, OneRequestAtATime, server_on_kill_jobs
  PROVE  SafeInv'
<1> DEFINE t == "SCHED_KILL_JOB"
           to_kill == MsgJobs \ kill_requested
<1>1. /\ Receive(t)
      /\ aborted' = \/ MsgJobs \cap deleted # {}
                    \/ \E j \in to_kill : job_state[j] # "running" /\ ~IsComplete(j)
      /\ kill_requested' = kill_requested \cup to_kill
      /\ killers' = IF to_kill = {} THEN killers ELSE killers \cup {to_kill}
      /\ nb_killers' = nb_killers + (IF to_kill = {} THEN 0 ELSE 1)
      /\ UNCHANGED <<counters, nb_waiters, submitterCounters, loopVars,
                     origin_of_jobs, jobs_to_be_deleted, proto_writer,
                     registration_sched_finished, deleted, job_state, actorVars>>
  BY DEF server_on_kill_jobs
<1>2. t \in Decisions /\ t \notin LifeMail /\ t \notin FromSubmitter
      /\ "SCHED_EXECUTE_JOB" \in Decisions
  BY DEF Decisions, LifeMail, OfOneJob, FromSubmitter
<1>3. /\ MailSound' /\ killers = {} /\ KillsDone' = KillsDone
      /\ \A j \in Jobs : actor[j] \notin {"spawned", "cancelled"}
      /\ \A j : Mail(j)' = Mail(j)
      /\ \A T : NbMessages(T)' = IF T = t THEN NbMessages(T) - 1 ELSE NbMessages(T)
  BY <1>1, <1>2, Taken
<1>4. MailJobs("SCHED_EXECUTE_JOB") = {} /\ MailJobs(t)' = {}
  <2>1. MailSound
    BY DEF SafeInv
  <2> QED BY <1>1, <1>2, <2>1, DecisionAlone
<1>5. MsgJobs \in SUBSET Jobs /\ MsgJobs \subseteq MailJobs(t)
  BY <1>1, ReceiveEffect DEF SafeInv
<1>6. ~sched_ready
  <2>1. /\ mailbox \in Seq(Message) /\ 1 \in DOMAIN mailbox /\ mailbox[1] \in Message
        /\ mailbox[1].type = t
    BY <1>1 DEF Receive, TypeOK
  <2>2. mailbox[1].from = "reqrep"
    BY <2>1 DEF Message, FromSubmitter
  <2> QED BY <2>1, <2>2 DEF OneRequestAtATime
<1>7. ASSUME NEW j \in MsgJobs
      PROVE  /\ j \in Jobs /\ j \notin deleted /\ actor[j] \notin {"none", "spawned"}
             /\ job_state[j] \in {"running", "completed", "killed"}
  <2>1. j \in Jobs /\ view[j] = "running" /\ Lives(j)
    BY <1>5, <1>7 DEF SafeInv, KillInv, LifeCycle
  <2>2. ~Ordered(j)
    <3>1. "SCHED_EXECUTE_JOB" \notin Mail(j)
      BY <1>4 DEF Mail
    <3> QED BY <3>1 DEF Ordered
  <2>3. Computing(j) \/ Ended(j) \/ Killed(j) \/ Counted(j)
    BY <2>1, <2>2 DEF Lives, Waiting, Announced, Registered, Offered, Deleted,
                      Refused, Steered, Closed, In
  <2>4. actor[j] \notin {"none", "spawned"}
    BY <1>3, <2>1, <2>3 DEF Computing, Ended, Killed, Counted, In
  <2> QED BY <2>1, <2>3, <2>4 DEF Computing, Ended, Killed, Counted, In, Kept
<1>8. \A j \in to_kill : /\ job_state[j] \in {"running", "completed"}
                         /\ j \notin KillsDone
  BY <1>7 DEF SafeInv, KillInv
<1>9. \A j \in Jobs : Untouched(j)
  <2>1. \A j : News(j)' = News(j)
    BY <1>1, NewsKept
  <2> QED BY <1>1, <1>3, <2>1 DEF Untouched
<1>10. LifeCycle' /\ JobCounters'
  <2>1. LifeCycle /\ JobCounters
    BY CountersSplit DEF SafeInv
  <2>2. LifeCycle'
    BY <1>9, <2>1, LifeFrame DEF LifeCycle
  <2> QED BY <1>1, <1>9, <2>1, <2>2, CountKept
<1>11. RegistrationInv' /\ EndInv' /\ SubmitterInv' /\ MachineInv'
  BY <1>1, <1>2, HandlerFrame, SubmitterHandlerFrame, MachineFrame DEF SafeInv
<1>12. killers' = IF to_kill = {} THEN {} ELSE {to_kill}
  BY <1>1, <1>3
<1>13. KillInv'
  <2>1. UNION killers' \subseteq to_kill /\ \A K \in killers' : K = to_kill
    BY <1>12
  <2>2. /\ \A j \in kill_requested : actor[j] \notin {"none", "spawned"}
        /\ KillsDone \subseteq kill_requested /\ KillsDone \cap deleted = {}
        /\ \A j \in Jobs : job_state[j] = "killed" => j \in kill_requested
    BY DEF SafeInv, KillInv
  <2>3. UNCHANGED <<actor, job_state, deleted, sched_ready>>
    BY <1>1
  <2>4. \A j \in kill_requested' : actor'[j] \notin {"none", "spawned"}
    BY <1>1, <1>7, <2>2, <2>3
  <2>5. /\ \A K \in killers' : K \subseteq kill_requested'
        /\ KillsDone' \subseteq kill_requested'
        /\ \A K, L \in killers' : K = L
    BY <1>1, <1>3, <2>1, <2>2
  <2>6. /\ (UNION killers') \cap KillsDone' = {}
        /\ (KillsDone' \cup UNION killers') \cap deleted' = {}
        /\ \A j \in UNION killers' : job_state'[j] # "killed"
    BY <1>3, <1>7, <1>8, <2>1, <2>2, <2>3
  <2> HIDE DEF to_kill
  <2> QED BY <1>1, <1>3, <1>4, <1>6, <2>2, <2>3, <2>4, <2>5, <2>6 DEF KillInv
<1>14. HelperCounters'
  <2>1. /\ nb_killers = Cardinality(killers) + NbMessages("KILLING_DONE")
        /\ nb_waiters = sleeping + NbMessages("WAITING_DONE")
        /\ NbMessages("KILLING_DONE") \in Nat
    BY CountersSplit, NbMessagesType DEF HelperCounters, SafeInv
  <2>2. /\ Cardinality(killers) = 0
        /\ Cardinality(killers') = IF to_kill = {} THEN 0 ELSE 1
    BY <1>3, <1>12, FS_EmptySet, FS_Singleton
  <2> HIDE DEF to_kill
  <2> QED BY <1>1, <1>3, <2>1, <2>2 DEF HelperCounters
<1>15. NoAssertionFails'
  BY <1>1, <1>7, <1>8 DEF NoAssertionFails, IsComplete
<1> QED BY <1>3, <1>10, <1>11, <1>13, <1>14, <1>15, CountersJoin DEF SafeInv

\* What a KILLING_DONE tells the scheduler: the completion of the jobs killed.
LEMMA KillingNews ==
  ASSUME TypeOK, NEW killed \in SUBSET Jobs, NEW J \in SUBSET Jobs,
         proto_writer' = proto_writer \o KillingDoneEvents(killed, J)
  PROVE  \A j : News(j)' = IF j \in killed THEN News(j) \cup {"JOB_COMPLETED"} ELSE News(j)
<1> DEFINE e == [type |-> "JOB_COMPLETED", jobs |-> killed]
           f == [type |-> "JOB_KILLED", jobs |-> J]
           n == Len(proto_writer)
<1>1. proto_writer \in Seq(Event) /\ n \in Nat /\ e \in Event /\ f \in Event
  BY DEF TypeOK, Event, EventTypes
<1>2. /\ e.type = "JOB_COMPLETED" /\ e.jobs = killed
      /\ f.type = "JOB_KILLED" /\ f.jobs = J
  OBVIOUS
<1>3. KillingDoneEvents(killed, J) = IF killed = {} THEN <<f>> ELSE <<e, f>>
  <2>1. KillingDoneEvents(killed, J) = (IF killed = {} THEN <<>> ELSE <<e>>) \o <<f>>
    BY DEF KillingDoneEvents, Evt
  <2> HIDE DEF e, f
  <2>2. <<>> \o <<f>> = <<f>>
    BY <1>1
  <2>3. <<e>> \o <<f>> = <<e, f>>
    <3> DEFINE d == <<e>> \o <<f>>
               c == <<e, f>>
    <3>1. <<e>> \in Seq(Event) /\ <<f>> \in Seq(Event) /\ c \in Seq(Event)
      BY <1>1
    <3>2. d \in Seq(Event) /\ Len(d) = 2 /\ d[1] = e /\ d[2] = f
      BY <3>1
    <3>3. Len(c) = 2 /\ c[1] = e /\ c[2] = f
      BY <1>1
    <3> HIDE DEF d, c
    <3>4. \A i \in 1..2 : d[i] = c[i]
      BY <3>2, <3>3
    <3>5. d = c
      BY <3>1, <3>2, <3>3, <3>4
    <3> QED BY <3>5 DEF d, c
  <2> QED BY <2>1, <2>2, <2>3
<1> HIDE DEF e, f
<1>4. CASE killed = {}
  <2>1. proto_writer' = proto_writer \o Evt("JOB_KILLED", J)
    BY <1>3, <1>4 DEF Evt, f
  <2>2. "JOB_KILLED" \in EventTypes
    BY DEF EventTypes
  <2> QED BY <1>4, <2>1, <2>2, NewsAdded
<1>5. CASE killed # {}
  <2>1. proto_writer' = proto_writer \o <<e, f>>
    BY <1>3, <1>5
  <2>2. /\ \A i \in DOMAIN proto_writer : i \in DOMAIN proto_writer'
                                          /\ proto_writer'[i] = proto_writer[i]
        /\ \A i \in DOMAIN proto_writer' :
             \/ i \in DOMAIN proto_writer /\ proto_writer'[i] = proto_writer[i]
             \/ i = n + 1 /\ proto_writer'[i] = e
             \/ i = n + 2 /\ proto_writer'[i] = f
        /\ n + 1 \in DOMAIN proto_writer' /\ proto_writer'[n + 1] = e
    BY <1>1, <2>1
  <2>3. ASSUME NEW T \in {"JOB_SUBMITTED", "JOB_COMPLETED"}, NEW j
        PROVE  j \in EventJobs(T)'
                 <=> j \in EventJobs(T) \/ (T = "JOB_COMPLETED" /\ j \in killed)
    <3>1. EventJobs(T)' = UNION {proto_writer'[i].jobs :
                         i \in {k \in DOMAIN proto_writer' : proto_writer'[k].type = T}}
      BY DEF EventJobs
    <3>2. ASSUME j \in EventJobs(T)'
          PROVE  j \in EventJobs(T) \/ (T = "JOB_COMPLETED" /\ j \in killed)
      <4>1. PICK i \in DOMAIN proto_writer' :
              proto_writer'[i].type = T /\ j \in proto_writer'[i].jobs
        BY <3>1, <3>2
      <4> QED BY <1>2, <2>2, <4>1 DEF EventJobs
    <3>3. ASSUME j \in EventJobs(T)
          PROVE  j \in EventJobs(T)'
      <4>1. PICK i \in DOMAIN proto_writer :
              proto_writer[i].type = T /\ j \in proto_writer[i].jobs
        BY <3>3 DEF EventJobs
      <4> QED BY <2>2, <3>1, <4>1
    <3>4. ASSUME T = "JOB_COMPLETED", j \in killed
          PROVE  j \in EventJobs(T)'
      BY <1>2, <2>2, <3>1, <3>4
    <3> QED BY <3>2, <3>3, <3>4
  <2> QED BY <2>3 DEF News
<1> QED BY <1>4, <1>5

\* KILLING_DONE: the jobs of the message that were killed are counted here and
\* marked for deletion, once; those that ended by themselves are left to their
\* own JOB_COMPLETED.
LEMMA OnKillingDoneSafe ==
  ASSUME TypeOK, TypeOK', SafeInv, server_on_killing_done
  PROVE  SafeInv'
<1> DEFINE t == "KILLING_DONE"
           killed == {j \in MsgJobs : job_state[j] = "killed"}
           n == Cardinality(killed)
<1>1. /\ Receive(t) /\ CountKilled(n)
      /\ aborted' = \/ MsgJobs \cap deleted # {}
                    \/ nb_running_jobs < n
                    \/ nb_completed_jobs + nb_running_jobs > nb_submitted_jobs
      /\ proto_writer' = proto_writer \o KillingDoneEvents(killed, MsgJobs)
      /\ MarkForDeletion(killed)
      /\ nb_killers' = nb_killers - 1
      /\ UNCHANGED <<nb_submitted_jobs, nb_waiters, submitterCounters, loopVars,
                     origin_of_jobs, contextVars, job_state, killers, actorVars>>
  BY DEF server_on_killing_done
<1>2. t \notin LifeMail /\ t \notin FromSubmitter /\ t # "SCHED_KILL_JOB"
      /\ t # "WAITING_DONE" /\ t # "SCHED_READY"
      /\ t \notin {"END_DYNAMIC_REGISTER", "CONTINUE_DYNAMIC_REGISTER"}
  BY DEF LifeMail, OfOneJob, FromSubmitter
<1>3. /\ MailSound' /\ killers = {} /\ KillsDone' = KillsDone \ MsgJobs
      /\ \A j \in Jobs : actor[j] \notin {"spawned", "cancelled"}
      /\ \A j : Mail(j)' = Mail(j)
      /\ \A T : T # t => (Posted(T)' <=> Posted(T)) /\ MailJobs(T)' = MailJobs(T)
      /\ \A T : NbMessages(T)' = IF T = t THEN NbMessages(T) - 1 ELSE NbMessages(T)
      /\ ~end_of_simulation_sent
  BY <1>1, <1>2, Taken
<1>4. MsgJobs \in SUBSET Jobs /\ MsgJobs \subseteq KillsDone
  BY <1>1, ReceiveEffect DEF SafeInv, KillsDone
<1>5. killed \in SUBSET Jobs /\ killed \subseteq MsgJobs
      /\ \A j \in MsgJobs : j \in killed <=> job_state[j] = "killed"
  BY <1>4
<1> HIDE DEF killed, n
<1>6. \A j : News(j)' = IF j \in killed THEN News(j) \cup {"JOB_COMPLETED"} ELSE News(j)
  BY <1>1, <1>4, <1>5, KillingNews
<1>7. \A j \in Jobs : jobs_to_be_deleted'[j]
                        = jobs_to_be_deleted[j] + (IF j \in killed THEN 1 ELSE 0)
  BY <1>1 DEF MarkForDeletion
<1>8. ASSUME NEW j \in killed
      PROVE  Killed(j)
  <2>1. j \in Jobs /\ job_state[j] = "killed" /\ j \in KillsDone /\ Lives(j)
    BY <1>4, <1>5, <1>8 DEF SafeInv, LifeCycle
  <2> QED BY <2>1 DEF Lives, Waiting, Announced, Registered, Offered, Ordered, Computing,
                      Ended, Counted, Deleted, Refused, Steered, Closed, In
<1>9. \A j \in Jobs \ killed : Untouched(j)
  <2>1. \A j \in Jobs \ killed : jobs_to_be_deleted'[j] = jobs_to_be_deleted[j]
    <3>1. \A j \in Jobs : jobs_to_be_deleted[j] \in Nat
      BY DEF TypeOK
    <3> QED BY <1>7, <3>1
  <2> QED BY <1>1, <1>3, <1>5, <1>6, <2>1 DEF Untouched
<1>10. LifeCycle'
  <2>1. ASSUME NEW j \in killed
        PROVE  Counted(j)'
    <3>1. /\ jobs_to_be_deleted'[j] = 1 /\ j \notin deleted' /\ j \notin KillsDone'
          /\ News(j)' = {"JOB_COMPLETED"} /\ Mail(j)' = {}
      BY <1>1, <1>3, <1>5, <1>6, <1>7, <1>8, <2>1 DEF Killed, Kept
    <3> QED BY <1>1, <1>8, <2>1, <3>1 DEF Killed, Counted, In
  <2>2. \A j \in killed \cap Jobs : Lives(j)'
    BY <2>1 DEF Lives
  <2> QED BY <1>9, <2>2, LifeKept DEF SafeInv
<1>11. RegistrationInv' /\ EndInv' /\ SubmitterInv' /\ MachineInv'
  <2>1. RegistrationInv' /\ EndInv'
    BY <1>1, <1>2, <1>3, RegistrationFrame, EndFrame DEF SafeInv
  <2> QED BY <1>1, <1>2, <2>1, SubmitterHandlerFrame, MachineFrame DEF SafeInv
<1>12. KillInv'
  BY <1>1, <1>2, <1>3 DEF SafeInv, KillInv
<1>13. /\ SubmittedJobs' = SubmittedJobs /\ RunningJobs' = RunningJobs \ killed
       /\ CompletedJobs' = CompletedJobs \cup killed /\ CompletedJobs \cap killed = {}
       /\ KilledJobs' = KilledJobs \cup killed /\ KilledJobs \cap killed = {}
       /\ killed \subseteq RunningJobs
  <2>1. /\ SubmittedJobs' \ killed = SubmittedJobs \ killed
        /\ RunningJobs' \ killed = RunningJobs \ killed
        /\ CompletedJobs' \ killed = CompletedJobs \ killed
        /\ KilledJobs' \ killed = KilledJobs \ killed
    BY <1>5, <1>9, CountFrame
  <2>2. ASSUME NEW j \in killed
        PROVE  /\ j \in SubmittedJobs' /\ j \in SubmittedJobs
               /\ j \notin RunningJobs' /\ j \in RunningJobs
               /\ j \in CompletedJobs' /\ j \notin CompletedJobs
               /\ j \in KilledJobs' /\ j \notin KilledJobs
    <3>1. /\ j \in Jobs /\ job_state[j] = "killed" /\ job_state'[j] = "killed"
          /\ Mail(j) = {} /\ Mail(j)' = {} /\ j \in KillsDone /\ j \notin KillsDone'
      BY <1>1, <1>3, <1>4, <1>5, <1>8, <2>2 DEF Killed
    <3> QED BY <3>1, CountedJobs, CountedNext
  <2> QED BY <2>1, <2>2
<1>14. JobCounters /\ LifeCycle
  BY CountersSplit DEF SafeInv
<1>15. JobCounters'
  <2>1. /\ Cardinality(RunningJobs') = Cardinality(RunningJobs) - n
        /\ Cardinality(CompletedJobs') = Cardinality(CompletedJobs) + n
        /\ Cardinality(KilledJobs') = Cardinality(KilledJobs) + n
    BY <1>5, <1>13, CountedSets, JobsJoin, JobsLeave DEF n
  <2> QED BY <1>1, <1>13, <1>14, <2>1 DEF JobCounters, CountKilled
<1>16. HelperCounters'
  <2>1. /\ nb_killers = Cardinality(killers) + NbMessages(t)
        /\ nb_waiters = sleeping + NbMessages("WAITING_DONE")
        /\ NbMessages(t) \in Nat /\ Cardinality(killers) = 0
    BY <1>3, CountersSplit, NbMessagesType, FS_EmptySet DEF HelperCounters, SafeInv
  <2> QED BY <1>1, <1>3, <2>1 DEF HelperCounters
<1>17. NoAssertionFails'
  <2>1. /\ nb_running_jobs \in Nat /\ nb_submitted_jobs \in Nat
        /\ nb_completed_jobs \in Nat /\ n <= nb_running_jobs
        /\ nb_completed_jobs + nb_running_jobs <= nb_submitted_jobs
    BY <1>13, <1>14, Conserved DEF n
  <2>2. n \in Int
    BY <1>5, FS_CardinalityType, FS_Subset, ServerAssumption DEF ServerAssumption, n
  <2>3. MsgJobs \cap deleted = {}
    BY <1>4 DEF SafeInv, KillInv
  <2>4. /\ ~(nb_running_jobs < n)
        /\ ~(nb_completed_jobs + nb_running_jobs > nb_submitted_jobs)
    BY <2>1, <2>2
  <2> QED BY <1>1, <2>3, <2>4 DEF NoAssertionFails
<1> QED BY <1>3, <1>10, <1>11, <1>12, <1>15, <1>16, <1>17, CountersJoin DEF SafeInv
-----------------------------------------------------------------------------
(* The tail of the loop.                                                   *)

\* What the tail of the loop leaves alone.
tailFrame == <<counters, helpers, submitterCounters,
               end_of_simulation_ack_received, origin_of_jobs,
               registration_sched_finished, kill_requested, jobVars, mailbox,
               killers, sleeping, submitterVars, alloc, end_register>>

\* The parts of the invariant that no branch of the tail disturbs.
LEMMA TailKeeps ==
  ASSUME SafeInv, UNCHANGED tailFrame
  PROVE  /\ MailSound' /\ SubmitterInv' /\ RegistrationInv' /\ CountersAgree'
         /\ \A T : MailJobs(T)' = MailJobs(T)
         /\ \A j : Mail(j)' = Mail(j)
         /\ KillsDone' = KillsDone
<1> USE DEF tailFrame
<1>1. /\ \A T : MailJobs(T)' = MailJobs(T) /\ NbMessages(T)' = NbMessages(T)
      /\ \A T : Posted(T)' <=> Posted(T)
      /\ \A s : Blocked(s)' <=> Blocked(s)
      /\ \A s, T : Said(s, T)' <=> Said(s, T)
      /\ \A j : Mail(j)' = Mail(j)
      /\ KillsDone' = KillsDone /\ MailSound'
  BY MailKept DEF SafeInv
<1>2. SubmitterInv'
  <2>1. /\ \A s \in Submitters : \A j \in todo[s] :
             job_state'[j] = "not_submitted" /\ Mail(j)' = {}
        /\ \A j \in origin_of_jobs' : job_state'[j] # "not_submitted"
    BY <1>1 DEF SafeInv, SubmitterInv
  <2> QED BY <1>1, <2>1, SubmitterFrame DEF SafeInv
<1>3. RegistrationInv'
  BY <1>1, RegistrationFrame DEF SafeInv
<1>4. CountersAgree'
  <2>1. /\ SubmittedJobs' = SubmittedJobs /\ RunningJobs' = RunningJobs
        /\ CompletedJobs' = CompletedJobs /\ KilledJobs' = KilledJobs
    BY <1>1 DEF SubmittedJobs, RunningJobs, CompletedJobs, KilledJobs, InState,
                EndInFlight
  <2>2. JobCounters /\ HelperCounters
    BY CountersSplit DEF SafeInv
  <2>3. JobCounters'
    BY <2>1, <2>2 DEF JobCounters
  <2>4. HelperCounters'
    BY <1>1, <2>2, HelperFrame
  <2> QED BY <2>3, <2>4, CountersJoin
<1> QED BY <1>1, <1>2, <1>3, <1>4

\* An empty mailbox: no job is named by a message.
LEMMA NoMail ==
  ASSUME mailbox = <<>>
  PROVE  /\ \A T : MailJobs(T) = {} /\ NbMessages(T) = 0
         /\ \A j : Mail(j) = {}
         /\ KillsDone = {}
<1>1. DOMAIN mailbox = {}
  OBVIOUS
<1>2. \A T : MailJobs(T) = {} /\ {k \in DOMAIN mailbox : mailbox[k].type = T} = {}
  BY <1>1 DEF MailJobs
<1> QED BY <1>2, FS_EmptySet DEF Mail, KillsDone, NbMessages

\* The buffered events are sent: the scheduler learns of each submission and of
\* each completion once, and the jobs marked for deletion are erased once.
LEMMA SendEventsSafe ==
  ASSUME TypeOK, TypeOK', SafeInv, MayCallScheduler, SendEvents, UNCHANGED tailFrame
  PROVE  SafeInv'
<1> USE DEF tailFrame
<1>1. /\ sched_ready /\ mailbox = <<>> /\ proto_writer # <<>> /\ proto_writer' = <<>>
      /\ sched_ready' = FALSE
      /\ UNCHANGED <<end_of_simulation_sent, told_end>>
      /\ deleted' = deleted \cup {j \in Jobs : jobs_to_be_deleted[j] > 0}
      /\ jobs_to_be_deleted' = [j \in Jobs |-> 0]
      /\ aborted' = \E j \in Jobs : \/ jobs_to_be_deleted[j] > 1
                                    \/ jobs_to_be_deleted[j] > 0 /\ j \in deleted
  BY DEF MayCallScheduler, SendEvents, CallScheduler
<1>2. \A j \in Jobs : view'[j] = IF "JOB_COMPLETED" \in News(j) THEN "done"
                                 ELSE IF "JOB_SUBMITTED" \in News(j) THEN "submitted"
                                 ELSE view[j]
  <2> TAKE j \in Jobs
  <2>1. view'[j] = CASE j \in EventJobs("JOB_COMPLETED") -> "done"
                     [] j \in EventJobs("JOB_SUBMITTED") -> "submitted"
                     [] OTHER -> view[j]
    BY Zenon DEF SendEvents, Learn
  <2>2. /\ "JOB_COMPLETED" \in News(j) <=> j \in EventJobs("JOB_COMPLETED")
        /\ "JOB_SUBMITTED" \in News(j) <=> j \in EventJobs("JOB_SUBMITTED")
    BY DEF News
  <2>3. News(j) \in {{}, {"JOB_SUBMITTED"}, {"JOB_COMPLETED"}}
    BY DEF SafeInv, LifeCycle, Lives, Waiting, Announced, Registered, Offered, Ordered,
           Computing, Ended, Killed, Counted, Deleted, Refused, Steered, Closed
  <2>4. CASE News(j) = {"JOB_COMPLETED"}
    BY <2>1, <2>2, <2>4
  <2>5. CASE News(j) = {"JOB_SUBMITTED"}
    BY <2>1, <2>2, <2>5
  <2>6. CASE News(j) = {}
    BY <2>1, <2>2, <2>6
  <2> QED BY <2>3, <2>4, <2>5, <2>6
<1>3. /\ MailSound' /\ SubmitterInv' /\ RegistrationInv' /\ CountersAgree'
      /\ \A T : MailJobs(T)' = {}
      /\ \A j : Mail(j) = {} /\ Mail(j)' = {}
      /\ KillsDone' = {} /\ KillsDone = {}
  BY <1>1, TailKeeps, NoMail
<1>4. \A j : News(j)' = {}
  <2>1. DOMAIN proto_writer' = {}
    BY <1>1
  <2>2. \A T : EventJobs(T)' = UNION {proto_writer'[i].jobs :
                         i \in {k \in DOMAIN proto_writer' : proto_writer'[k].type = T}}
    BY DEF EventJobs
  <2>3. \A T : EventJobs(T)' = {}
    BY <2>1, <2>2
  <2> QED BY <2>3 DEF News
<1>5. ASSUME NEW j \in Jobs
      PROVE  Lives(j)' /\ ~(\/ jobs_to_be_deleted[j] > 1
                            \/ jobs_to_be_deleted[j] > 0 /\ j \in deleted)
  <2>1. /\ jobs_to_be_deleted[j] \in Nat /\ jobs_to_be_deleted'[j] = 0
        /\ j \in deleted' <=> j \in deleted \/ jobs_to_be_deleted[j] > 0
        /\ job_state'[j] = job_state[j] /\ actor'[j] = actor[j]
        /\ Mail(j) = {} /\ Mail(j)' = {} /\ News(j)' = {}
        /\ j \notin KillsDone' /\ j \notin KillsDone
    BY <1>1, <1>3, <1>4 DEF TypeOK
  <2>2. CASE Waiting(j)
    <3>1. Waiting(j)'
      BY <1>2, <2>1, <2>2 DEF Waiting, In, Kept
    <3> QED BY <2>2, <3>1 DEF Lives, Waiting, Kept
  <2>3. CASE Announced(j) \/ Registered(j) \/ Offered(j)
    <3>1. Offered(j)'
      BY <1>2, <2>1, <2>3 DEF Announced, Registered, Offered, In, Kept
    <3> QED BY <2>3, <3>1 DEF Lives, Announced, Registered, Offered, Kept
  <2>4. CASE Computing(j)
    <3>1. Computing(j)'
      BY <1>2, <2>1, <2>4 DEF Computing, Kept
    <3> QED BY <2>4, <3>1 DEF Lives, Computing, Kept
  <2>5. CASE Counted(j) \/ Deleted(j)
    <3>1. Deleted(j)'
      BY <1>2, <2>1, <2>5 DEF Counted, Deleted, In
    <3>2. jobs_to_be_deleted[j] <= 1 /\ (jobs_to_be_deleted[j] > 0 => j \notin deleted)
      BY <2>5 DEF Counted, Deleted
    <3> QED BY <2>1, <3>1, <3>2 DEF Lives
  <2>6. CASE Steered(j)
    <3>1. Steered(j)'
      BY <1>2, <2>1, <2>6 DEF Steered, In, Kept
    <3> QED BY <2>6, <3>1 DEF Lives, Steered, Kept
  <2>7. CASE Closed(j)
    <3>1. Closed(j)'
      BY <1>2, <2>1, <2>7 DEF Closed, In, Dropped
    <3>2. jobs_to_be_deleted[j] <= 1 /\ (jobs_to_be_deleted[j] > 0 => j \notin deleted)
      BY <2>7 DEF Closed, Dropped
    <3> QED BY <2>1, <3>1, <3>2 DEF Lives
  <2>8. ~Ordered(j) /\ ~Ended(j) /\ ~Killed(j) /\ ~Refused(j)
    BY <2>1 DEF Ordered, Ended, Killed, Refused
  <2> QED BY <2>2, <2>3, <2>4, <2>5, <2>6, <2>7, <2>8 DEF SafeInv, LifeCycle, Lives
<1>6. LifeCycle' /\ NoAssertionFails'
  BY <1>1, <1>5 DEF LifeCycle, NoAssertionFails
<1>7. KillInv'
  <2>1. killers = {}
    BY <1>1 DEF SafeInv, KillInv
  <2> QED BY <1>1, <1>3, <2>1 DEF SafeInv, KillInv
<1>8. MachineInv'
  <2>1. \A j \in Jobs : view'[j] = "running" => view[j] = "running"
    BY <1>2
  <2> QED BY <2>1, MachineFrame DEF SafeInv
<1>9. EndInv'
  <2>1. ~end_of_simulation_sent
    BY <1>1 DEF SafeInv, EndInv, EndIsFinal
  <2> QED BY <1>1, <2>1, EndFrame DEF SafeInv
<1> QED BY <1>3, <1>6, <1>7, <1>8, <1>9 DEF SafeInv

\* The submitters counted as finished are all of them only when each has said
\* goodbye and has been heard.
LEMMA AllSubmittersFinished ==
  ASSUME SubmitterInv, nb_submitters_finished = Cardinality(Submitters)
  PROVE  \A s \in Submitters : submitter_pc[s] = "bye" /\ s \notin submitters
<1> DEFINE F == {s \in Submitters : submitter_pc[s] = "bye" /\ s \notin submitters}
<1>1. IsFiniteSet(Submitters) /\ F \in SUBSET Submitters
  BY ServerAssumption DEF ServerAssumption
<1>2. Cardinality(F) = Cardinality(Submitters)
  BY DEF SubmitterInv
<1>3. F = Submitters
  BY <1>1, <1>2, FS_Subset
<1> QED BY <1>3

\* SIMULATION_ENDS: the counters say that nothing is left, and they do not lie,
\* so no actor, no submitter and no message can reach the server afterwards.
LEMMA SendSimulationEndsSafe ==
  ASSUME TypeOK, TypeOK', SafeInv, MayCallScheduler, SendSimulationEnds,
         UNCHANGED tailFrame
  PROVE  SafeInv'
<1> USE DEF tailFrame
<1>1. /\ sched_ready /\ ~end_of_simulation_ack_received /\ mailbox = <<>>
      /\ is_simulation_finished /\ proto_writer = <<>> /\ sched_ready' = FALSE
      /\ end_of_simulation_sent' = TRUE /\ told_end' = TRUE
      /\ UNCHANGED <<view, proto_writer, aborted, deleted, jobs_to_be_deleted>>
  BY DEF MayCallScheduler, SendSimulationEnds, CallScheduler
<1>2. /\ MailSound' /\ SubmitterInv' /\ RegistrationInv' /\ CountersAgree'
      /\ \A T : MailJobs(T)' = MailJobs(T)
      /\ \A j : Mail(j)' = Mail(j) /\ News(j)' = News(j)
      /\ KillsDone' = KillsDone
  BY <1>1, TailKeeps, NewsKept
<1>3. LifeCycle' /\ NoAssertionFails'
  <2>1. \A j \in Jobs : Untouched(j)
    BY <1>1, <1>2 DEF Untouched
  <2> QED BY <1>1, <2>1, LifeFrame DEF SafeInv, LifeCycle, NoAssertionFails
<1>4. KillInv' /\ MachineInv'
  BY <1>1, <1>2 DEF SafeInv, KillInv, MachineInv
<1>5. /\ nb_submitters_finished = Cardinality(Submitters)
      /\ nb_completed_jobs = nb_submitted_jobs /\ nb_running_jobs = 0
      /\ nb_waiters = 0 /\ nb_killers = 0
  BY <1>1 DEF is_simulation_finished
<1>6. killers = {}
  BY <1>1 DEF SafeInv, KillInv
<1>7. sleeping = 0
  <2>1. nb_waiters = sleeping + NbMessages("WAITING_DONE") /\ sleeping \in Nat
    BY DEF SafeInv, CountersAgree, TypeOK
  <2>2. NbMessages("WAITING_DONE") = 0
    BY <1>1, NoMail
  <2> QED BY <1>5, <2>1, <2>2
<1>8. ASSUME NEW j \in Jobs
      PROVE  actor[j] \in {"none", "done"}
  <2>1. RunningJobs = {}
    <3>1. Cardinality(RunningJobs) = 0
      BY <1>5, CountersSplit DEF SafeInv, JobCounters
    <3>2. IsFiniteSet(RunningJobs)
      BY CountedSets, FS_Subset, ServerAssumption DEF ServerAssumption
    <3> QED BY <3>1, <3>2, FS_EmptySet
  <2>2. ~Computing(j)
    BY <2>1, CountedJobs DEF Computing
  <2> QED BY <2>2, ActorLives DEF SafeInv, Ended, Killed, Counted, Deleted, In
<1>9. \A s \in Submitters : submitter_pc[s] = "bye"
  BY <1>5, AllSubmittersFinished DEF SafeInv
<1>10. EndInv'
  <2>1. \A i \in DOMAIN mailbox' : mailbox'[i].type = "SCHED_READY"
    BY <1>1
  <2> QED BY <1>1, <1>5, <1>6, <1>7, <1>8, <1>9, <2>1 DEF EndInv, EndIsFinal
<1> QED BY <1>2, <1>3, <1>4, <1>10 DEF SafeInv

\* What the invariant is about.
safeVars == <<tailFrame, sched_ready, end_of_simulation_sent, told_end, view,
              proto_writer, deleted, jobs_to_be_deleted>>

\* A step that changes nothing that the invariant is about.
LEMMA SafeFrame ==
  ASSUME SafeInv, UNCHANGED safeVars, ~aborted'
  PROVE  SafeInv'
<1> USE DEF safeVars, tailFrame
<1>1. /\ MailSound' /\ SubmitterInv' /\ RegistrationInv' /\ CountersAgree'
      /\ \A T : MailJobs(T)' = MailJobs(T)
      /\ \A j : Mail(j)' = Mail(j) /\ News(j)' = News(j)
      /\ KillsDone' = KillsDone
  BY TailKeeps, NewsKept
<1>2. LifeCycle' /\ NoAssertionFails'
  <2>1. \A j \in Jobs : Untouched(j)
    BY <1>1 DEF Untouched
  <2> QED BY <2>1, LifeFrame DEF SafeInv, LifeCycle, NoAssertionFails
<1>3. KillInv' /\ MachineInv'
  BY <1>1 DEF SafeInv, KillInv, MachineInv
<1>4. EndInv'
  BY DEF SafeInv, EndInv, EndIsFinal
<1> QED BY <1>1, <1>2, <1>3, <1>4 DEF SafeInv

\* The tail of the loop, whichever of its branches is taken.
LEMMA TailSafe ==
  ASSUME TypeOK, TypeOK', SafeInv, ServerTail
  PROVE  SafeInv'
<1>1. UNCHANGED tailFrame
  BY DEF ServerTail, tailFrame
<1>2. CASE MayCallScheduler /\ SendEvents
  BY <1>1, <1>2, SendEventsSafe
<1>3. CASE MayCallScheduler /\ SendSimulationEnds
  BY <1>1, <1>3, SendSimulationEndsSafe
<1>4. CASE UNCHANGED <<sched_ready, end_of_simulation_sent, told_end, view,
                       proto_writer, aborted, deleted, jobs_to_be_deleted>>
  BY <1>1, <1>4, SafeFrame DEF safeVars, SafeInv, NoAssertionFails
<1> QED BY <1>2, <1>3, <1>4 DEF ServerTail

\* The server leaves its loop: the assertions at the end of server_process.
LEMMA ExitSafe ==
  ASSUME TypeOK, SafeInv, ServerExit
  PROVE  SafeInv'
<1>1. UNCHANGED safeVars /\ end_of_simulation_ack_received
  BY DEF ServerExit, safeVars, tailFrame
<1>2. /\ end_of_simulation_sent /\ sched_ready
      /\ nb_running_jobs = 0 /\ nb_killers = 0 /\ nb_waiters = 0
      /\ nb_completed_jobs = nb_submitted_jobs
  BY <1>1 DEF SafeInv, EndInv
<1>3. ~aborted'
  BY <1>2 DEF ServerExit
<1> QED BY <1>1, <1>3, SafeFrame
-----------------------------------------------------------------------------
(* Every step preserves the invariant.                                     *)

\* Every step of a submitter keeps the invariant.
LEMMA SubmitterSafe ==
  ASSUME TypeOK, TypeOK', SafeInv, SubmitterStep PROVE SafeInv'
<1>1. PICK s \in Submitters :
        \/ SubmitterHello(s) \/ SubmitterBye(s) \/ WorkflowCallback(s)
        \/ \E S \in SUBSET JobsOf[s] : StaticSubmit(s, S)
        \/ \E j \in JobsOf[s] : WorkflowSubmit(s, j)
  BY DEF SubmitterStep
<1> QED BY <1>1, HelloSafe, ByeSafe, CallbackSafe, SubmitSafe

\* Every decision of the scheduler keeps the invariant.
LEMMA SchedulerSafe ==
  ASSUME TypeOK, TypeOK', SafeInv, SchedulerStep PROVE SafeInv'
<1>1. CASE \E j \in Jobs : \E A \in SUBSET Machines : SchedExecute(j, A)
  BY <1>1, ExecuteSafe
<1>2. CASE \E j \in Jobs : SchedReject(j) \/ SchedChangeState(j) \/ SchedRegister(j)
  BY <1>2, RejectSafe, ChangeStateSafe, RegisterSafe
<1>3. CASE \/ \E K \in SUBSET Jobs : SchedKill(K)
           \/ SchedCallMeLater \/ SchedNotifyRegistration
  BY <1>3, RequestSafe
<1>4. CASE SchedReady
  BY <1>4, ReadySafe
<1> QED BY <1>1, <1>2, <1>3, <1>4 DEF SchedulerStep

\* Every step of a job actor, a killer or a waiter keeps the invariant.
LEMMA ActorSafe ==
  ASSUME TypeOK, TypeOK', SafeInv, ActorStep PROVE SafeInv'
<1>1. CASE \E j \in Jobs : JobStart(j) \/ JobEnd(j) \/ JobCancelled(j)
  BY <1>1, JobStartSafe, JobEndSafe, JobCancelledSafe
<1>2. CASE \E K \in SUBSET Jobs : KillerProcess(K)
  BY <1>2, KillerSafe
<1>3. CASE WaiterProcess
  BY <1>3, WaiterSafe
<1> QED BY <1>1, <1>2, <1>3 DEF ActorStep

\* Every handler of the server, and its tail, keeps the invariant.
LEMMA ServerSafe ==
  ASSUME TypeOK, TypeOK', SafeInv, OneRequestAtATime, ServerStep PROVE SafeInv'
<1>1. CASE server_on_submitter_hello \/ server_on_submitter_bye
  BY <1>1, OnHelloSafe, OnByeSafe
<1>2. CASE server_on_job_submitted \/ server_on_register_job
  BY <1>2, OnSubmittedSafe, OnRegisterSafe
<1>3. CASE server_on_job_completed \/ server_on_killing_done
  BY <1>3, OnCompletedSafe, OnKillingDoneSafe
<1>4. CASE server_on_waiting_done \/ server_on_call_me_later
  BY <1>4, OnWaitingSafe
<1>5. CASE server_on_sched_ready \/ server_on_execute_job
  BY <1>5, OnReadySafe, OnExecuteSafe
<1>6. CASE server_on_reject_job \/ server_on_change_job_state
  BY <1>6, OnChangeSafe
<1>7. CASE server_on_kill_jobs \/ server_on_dynamic_register
  BY <1>7, OnKillSafe, OnRegistrationSafe
<1>8. CASE ServerTail \/ ServerExit
  BY <1>8, TailSafe, ExitSafe
<1> QED BY <1>1, <1>2, <1>3, <1>4, <1>5, <1>6, <1>7, <1>8 DEF ServerStep

\* The invariant is inductive.
LEMMA SafeNext ==
  TypeOK /\ OneRequestAtATime /\ SafeInv /\ [Next]_vars => SafeInv'
<1> SUFFICES ASSUME TypeOK, OneRequestAtATime, SafeInv, [Next]_vars PROVE SafeInv'
  OBVIOUS
<1>1. TypeOK'
  BY TypeNext
<1>2. CASE UNCHANGED vars
  BY <1>2, SafeFrame DEF vars, safeVars, tailFrame, SafeInv, NoAssertionFails
<1>3. CASE ServerStep
  BY <1>1, <1>3, ServerSafe
<1>4. CASE SubmitterStep
  BY <1>1, <1>4, SubmitterSafe
<1>5. CASE SchedulerStep
  BY <1>1, <1>5, SchedulerSafe
<1>6. CASE ActorStep
  BY <1>1, <1>6, ActorSafe
<1> QED BY <1>2, <1>3, <1>4, <1>5, <1>6 DEF Next, Finished
-----------------------------------------------------------------------------
(* What the server guarantees.                                             *)

\* In every reachable state each job is at one point of its life, each kill
\* request, submitter and message is where the invariant says, and the
\* counters of server.cpp count them.
THEOREM ServerInvariant == Spec => []SafeInv
<1>1. Init => TypeOK /\ OneRequestAtATime /\ SafeInv
  BY TypeInit, RequestInit, SafeInit
<1>2. TypeOK /\ OneRequestAtATime /\ SafeInv /\ [Next]_vars
        => TypeOK' /\ OneRequestAtATime' /\ SafeInv'
  BY TypeNext, RequestNext, SafeNext
<1> QED BY <1>1, <1>2, PTL DEF Spec

\* No xbt_assert of the server, of the job actors or of the killers fires,
\* whatever a scheduler decides from the messages it has received, and none at
\* the end of server_process.
THEOREM NoAssertionEverFails == Spec => []NoAssertionFails
BY ServerInvariant, PTL DEF SafeInv

\* The counters of ServerData agree with the jobs, the helper actors and the
\* messages in flight: each completion, rejection and kill is counted once.
THEOREM CountersAlwaysAgree == Spec => []CountersAgree
BY ServerInvariant, PTL DEF SafeInv

\* When SIMULATION_ENDS is sent nothing is left that can reach the server: no
\* actor, no submitter and no message but the answer of the scheduler.
THEOREM TheEndIsFinal == Spec => []EndIsFinal
<1>1. SafeInv => EndIsFinal
  BY DEF SafeInv, EndInv
<1> QED BY <1>1, ServerInvariant, PTL

\* The machines that the scheduler believes to be free are free, and no two
\* jobs compute on one machine.
THEOREM FreeMachinesAreFree == Spec => []FreeInViewIsFree
<1>1. ASSUME TypeOK, SafeInv
      PROVE  FreeInViewIsFree
  <2>1. ASSUME NEW m \in Machines, NEW j \in jobs_being_computed[m]
        PROVE  j \in Jobs /\ view[j] = "running" /\ m \in alloc[j]
    <3>1. j \in Jobs
      BY <1>1, <2>1 DEF TypeOK
    <3>2. actor[j] \in {"executing", "cancelled"} /\ m \in alloc[j]
      BY <1>1, <2>1, <3>1 DEF SafeInv, MachineInv
    <3>3. Computing(j)
      BY <1>1, <3>1, <3>2, ActorLives DEF SafeInv, Ended, Killed, Counted, Deleted, In
    <3> QED BY <3>1, <3>2, <3>3 DEF Computing
  <2>2. ASSUME NEW m \in FreeInView
        PROVE  jobs_being_computed[m] = {}
    BY <2>1, <2>2 DEF FreeInView
  <2>3. ASSUME NEW m \in Machines
        PROVE  Cardinality(jobs_being_computed[m]) <= 1
    <3>1. \A j, k \in jobs_being_computed[m] : j = k
      BY <1>1, <2>1 DEF SafeInv, MachineInv
    <3>2. CASE jobs_being_computed[m] = {}
      BY <3>2, FS_EmptySet
    <3>3. CASE \E j : j \in jobs_being_computed[m]
      <4>1. PICK j : j \in jobs_being_computed[m]
        BY <3>3
      <4>2. \A k : k \in jobs_being_computed[m] <=> k \in {j}
        BY <3>1, <4>1
      <4>3. jobs_being_computed[m] = {j}
        BY <4>2
      <4>4. Cardinality({j}) = 1
        BY FS_Singleton
      <4> QED BY <4>3, <4>4
    <3> QED BY <3>2, <3>3
  <2> QED BY <2>2, <2>3 DEF FreeInViewIsFree
<1> QED BY <1>1, TypeCorrect, ServerInvariant, PTL
=============================================================================
