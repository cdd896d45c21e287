--------------------------- MODULE BatsimMachines ---------------------------
(***************************************************************************)
(* The machines of Batsim: their MachineState and power state, the grouped *)
(* power state switches (batsim4/src/pstate.cpp), the availability events  *)
(* (event_submitter.cpp) and the handlers of the server that change them.  *)
(* A job is the set of machines it runs on: Batsim runs without resource   *)
(* sharing here, so the jobs being computed are disjoint sets.             *)
(*                                                                         *)
(* The scheduler is external and reasonable: it switches or uses only the  *)
(* machines that the events it received allow it to.                       *)
(***************************************************************************)
EXTENDS Integers, Sequences, FiniteSets

CONSTANTS
    Machines,
    Computation, Sleep, \* the pstates of each type, the same on every machine
    Virtual,            \* the transition pstates, as one
    InitialPState,
    Switchable,         \* machines the scheduler may switch
    Failing,            \* machines of the event list
    MaxSwitches, MaxJobs, MaxEvents  \* bounds: requests, jobs, events

PStates == Computation \cup Sleep
NoPState == "none"

ASSUME MachinesAssumption ==
    /\ IsFiniteSet(Machines)
    /\ Computation \cap Sleep = {} /\ Virtual \notin PStates
    /\ NoPState \notin PStates /\ InitialPState \in Computation
    /\ Switchable \subseteq Machines /\ Failing \subseteq Machines
    /\ MaxSwitches \in Nat /\ MaxJobs \in Nat /\ MaxEvents \in Nat

VARIABLES
    machine_state,   \* Machine::state
    pstate,          \* the pstate of the SimGrid host
    computing,       \* the jobs of jobs_being_computed, as sets of machines
    switches,        \* CurrentSwitches::_switches, in order of addition
    switchers,       \* the switch_on/switch_off actors
    nb_switching_machines,
    mailbox,         \* the "server" mailbox
    proto_writer,    \* the events buffered for the scheduler
    aborted,         \* the xbt_assert that failed, or "no"
    down,            \* machines the event list has made unavailable
    events,          \* how many events have been sent
    sched_ready,     \* no request to the scheduler is pending
    wanted,          \* wanted[m]: pstate requested and not acknowledged
    known,           \* known[m]: pstate last acknowledged
    using,           \* the jobs the scheduler believes running
    missing,         \* machines it believes unavailable
    requests, jobs,  \* how many switches and jobs it asked for
    unacked          \* requests not acknowledged yet

machineVars == <<machine_state, pstate, computing>>
switchVars == <<switches, switchers, nb_switching_machines>>
eventVars == <<down, events>>
schedVars == <<wanted, known, using, missing, requests, jobs, unacked>>
vars == <<machineVars, switchVars, mailbox, proto_writer, aborted, eventVars,
          sched_ready, schedVars>>

MessageTypes == {"PSTATE_MODIFICATION", "SCHED_EXECUTE_JOB", "JOB_COMPLETED",
                 "SWITCHED", "EVENT_UNAVAILABLE", "EVENT_AVAILABLE",
                 "SCHED_READY"}

Message == [type : MessageTypes, machines : SUBSET Machines,
            pstate : PStates \cup {NoPState}]

Msg(type, machines, p) == [type |-> type, machines |-> machines, pstate |-> p]

Send(type, machines, p) == mailbox' = Append(mailbox, Msg(type, machines, p))

EventTypes == {"RESOURCE_STATE_CHANGED", "JOB_COMPLETED", "UNAVAILABLE",
               "AVAILABLE"}

Event == [type : EventTypes, machines : SUBSET Machines,
          pstate : PStates \cup {NoPState}]

\* update_machine_state for the machines of M.
UpdateState(M, s) ==
    machine_state' = [m \in Machines |-> IF m \in M THEN s ELSE machine_state[m]]

Busy == UNION computing

Init ==
    /\ machine_state = [m \in Machines |-> "IDLE"]
    /\ pstate = [m \in Machines |-> InitialPState]
    /\ computing = {} /\ switches = <<>> /\ switchers = {}
    /\ nb_switching_machines = 0
    /\ mailbox = <<>> /\ proto_writer = <<>> /\ aborted = "no"
    /\ down = {} /\ events = 0
    /\ sched_ready = FALSE
    /\ wanted = [m \in Machines |-> NoPState]
    /\ known = [m \in Machines |-> InitialPState]
    /\ using = {} /\ missing = {} /\ requests = 0 /\ jobs = 0
    /\ unacked = 0
-----------------------------------------------------------------------------
(* The scheduler, while it answers a request.  Its decisions go through    *)
(* blocking puts, so one is in the mailbox at a time.                      *)

Decisions == {"PSTATE_MODIFICATION", "SCHED_EXECUTE_JOB", "SCHED_READY"}

Deciding ==
    /\ aborted = "no" /\ ~sched_ready
    /\ \A i \in DOMAIN mailbox : mailbox[i].type \notin Decisions

\* Machines it may act on: no switch pending, and available as far as it knows.
Settled(m) == wanted[m] = NoPState /\ m \notin missing

\* SET_RESOURCE_STATE.  A machine in use stays in a computation pstate, and
\* a sleeping machine is only woken.
SchedSetResourceState(M, p) ==
    /\ Deciding /\ requests < MaxSwitches
    /\ M # {} /\ M \subseteq Switchable
    /\ \A m \in M : /\ Settled(m)
                    /\ p \in Sleep => m \notin UNION using
                    /\ known[m] \in Sleep => p \in Computation
    /\ requests' = requests + 1 /\ unacked' = unacked + 1
    /\ wanted' = [m \in Machines |-> IF m \in M THEN p ELSE wanted[m]]
    /\ Send("PSTATE_MODIFICATION", M, p)
    /\ UNCHANGED <<machineVars, switchVars, proto_writer, aborted, eventVars,
                   sched_ready, known, using, missing, jobs>>

SchedExecuteJob(M) ==
    /\ Deciding /\ jobs < MaxJobs
    /\ M # {}
    /\ \A m \in M : /\ Settled(m) /\ known[m] \in Computation
                    /\ m \notin UNION using
    /\ jobs' = jobs + 1
    /\ using' = using \cup {M}
    /\ Send("SCHED_EXECUTE_JOB", M, NoPState)
    /\ UNCHANGED <<machineVars, switchVars, proto_writer, aborted, eventVars,
                   sched_ready, wanted, known, missing, requests,
                   unacked>>

\* The end of the answer.
SchedReady ==
    /\ Deciding
    /\ Send("SCHED_READY", {}, NoPState)
    /\ UNCHANGED <<machineVars, switchVars, proto_writer, aborted, eventVars,
                   sched_ready, schedVars>>
-----------------------------------------------------------------------------
(* The event submitter: its list makes machines unavailable and available  *)
(* again, in this order for each machine.                                  *)

EventSubmitter(M) ==
    /\ aborted = "no" /\ events < MaxEvents
    /\ \A i \in DOMAIN mailbox :
         mailbox[i].type \notin {"EVENT_UNAVAILABLE", "EVENT_AVAILABLE"}
    /\ M # {} /\ M \subseteq Failing
    /\ events' = events + 1
    /\ \/ /\ M \cap down = {}
          /\ down' = down \cup M
          /\ Send("EVENT_UNAVAILABLE", M, NoPState)
       \/ /\ M \subseteq down
          /\ down' = down \ M
          /\ Send("EVENT_AVAILABLE", M, NoPState)
    /\ UNCHANGED <<machineVars, switchVars, proto_writer, aborted, sched_ready,
                   schedVars>>
-----------------------------------------------------------------------------
(* The actors on the machines.                                             *)

Transition(p) == IF p \in Computation THEN "SWITCHING_ON" ELSE "SWITCHING_OFF"

\* switch_on_machine_process / switch_off_machine_process up to execute(1).
SwitchBegin(a) ==
    /\ aborted = "no" /\ a \in switchers /\ a.pc = "spawned"
    /\ aborted' = IF \/ machine_state[a.machine] # Transition(a.target)
                     \/ a.machine \in Busy
                  THEN "switch_process" ELSE "no"
    /\ switchers' = (switchers \ {a}) \cup {[a EXCEPT !.pc = "executing"]}
    /\ pstate' = [pstate EXCEPT ![a.machine] = Virtual]
    /\ UNCHANGED <<machine_state, computing, switches, nb_switching_machines,
                   mailbox, proto_writer, eventVars, sched_ready, schedVars>>

\* The MachineState of a machine that reached pstate p.
StateIn_AlwaysIdle(p) == "IDLE"
StateIn(p) == IF p \in Computation THEN "IDLE" ELSE "SLEEPING"

\* The flop is computed: the machine reaches its pstate.
SwitchEnd(a) ==
    /\ aborted = "no" /\ a \in switchers /\ a.pc = "executing"
    /\ switchers' = switchers \ {a}
    /\ pstate' = [pstate EXCEPT ![a.machine] = a.target]
    /\ UpdateState({a.machine}, StateIn(a.target))
    /\ Send("SWITCHED", {a.machine}, a.target)
    /\ UNCHANGED <<computing, switches, nb_switching_machines, proto_writer,
                   aborted, eventVars, sched_ready, schedVars>>

\* The machines of an ended job become idle, unless they are unavailable.
Released_All(J) == J
Released(J) == {m \in J : machine_state[m] # "UNAVAILABLE"}

\* The end of a job: update_machines_on_job_end, then JOB_COMPLETED.
JobEnd(J) ==
    /\ aborted = "no" /\ J \in computing
    /\ computing' = computing \ {J}
    /\ UpdateState(Released(J), "IDLE")
    /\ Send("JOB_COMPLETED", J, NoPState)
    /\ UNCHANGED <<pstate, switchVars, proto_writer, aborted, eventVars,
                   sched_ready, schedVars>>
-----------------------------------------------------------------------------
(* The handlers of the server.  A switcher that was created runs before    *)
(* the server receives its next message.                                   *)

Receive(type) ==
    /\ aborted = "no"
    /\ \A a \in switchers : a.pc # "spawned"
    /\ mailbox # <<>> /\ Head(mailbox).type = type
    /\ mailbox' = Tail(mailbox)

MsgMachines == Head(mailbox).machines
MsgPState == Head(mailbox).pstate

\* CurrentSwitches::mark_switch_as_done for the machines M that reached p.
\* Each is taken out of the first switch to p that waits for it.
Holds(sw, i, m, p) == sw[i].target = p /\ m \in sw[i].switching

\* Mutant: the first machine of a group that is ready ends the whole switch.
Marked_AllDone(sw, M, p) ==
    [i \in DOMAIN sw |-> IF sw[i].target = p /\ sw[i].switching \cap M # {}
                         THEN [sw[i] EXCEPT !.switching = {}] ELSE sw[i]]

Marked(sw, M, p) ==
    [i \in DOMAIN sw |->
        [sw[i] EXCEPT !.switching = @ \ {m \in M :
            /\ Holds(sw, i, m, p)
            /\ \A k \in 1..(i - 1) : ~Holds(sw, k, m, p)}]]

\* The elements of a list at the positions I, in their order.
Nth(I, k) == CHOOSE i \in I : Cardinality({x \in I : x <= i}) = k
Selected(list, I) == [k \in 1..Cardinality(I) |-> list[Nth(I, k)]]

\* The switches that are still going on, and the acknowledgement of each of
\* the others: it names all the machines of the request.
Pending(sw) == Selected(sw, {i \in DOMAIN sw : sw[i].switching # {}})

Acks(sw, M, p) ==
    LET marked == Marked(sw, M, p)
        done == Selected(marked, {i \in DOMAIN sw : marked[i].switching = {}})
    IN [i \in DOMAIN done |-> [type |-> "RESOURCE_STATE_CHANGED",
                               machines |-> done[i].all, pstate |-> p]]

\* The assertion of mark_switch_as_done.
NotSwitching(sw, M, p) ==
    \E m \in M : \A i \in DOMAIN sw : ~Holds(sw, i, m, p)

CountSwitching(on, off) ==
    nb_switching_machines' = nb_switching_machines + Cardinality(on \cup off)

\* PSTATE_MODIFICATION.  Between computation pstates a machine is switched at
\* once; otherwise a process does it.
server_on_pstate_modification ==
    /\ Receive("PSTATE_MODIFICATION")
    /\ LET M == MsgMachines
           p == MsgPState
           sw == Append(switches, [target |-> p, all |-> M, switching |-> M])
           atonce == {m \in M : pstate[m] \in Computation /\ p \in Computation}
           on == {m \in M : pstate[m] \in Sleep}
           off == {m \in M : pstate[m] \in Computation} \ atonce
       IN /\ aborted' = IF \/ on # {} /\ p \notin Computation
                           \/ NotSwitching(sw, atonce, p)
                        THEN "pstate" ELSE "no"
          /\ pstate' = [m \in Machines |-> IF m \in atonce THEN p ELSE pstate[m]]
          /\ switches' = Pending(Marked(sw, atonce, p))
          /\ proto_writer' = IF atonce = {} THEN proto_writer
                             ELSE proto_writer \o Acks(sw, atonce, p)
          /\ machine_state' = [m \in Machines |->
                                 IF m \in on THEN "SWITCHING_ON"
                                 ELSE IF m \in off THEN "SWITCHING_OFF"
                                 ELSE machine_state[m]]
          /\ switchers' = switchers \cup
               {[machine |-> m, target |-> p, pc |-> "spawned"] : m \in on \cup off}
          /\ CountSwitching(on, off)
    /\ UNCHANGED <<computing, eventVars, sched_ready, schedVars>>

server_on_switched ==
    /\ Receive("SWITCHED")
    /\ aborted' = IF \/ \E m \in MsgMachines : pstate[m] # MsgPState
                     \/ NotSwitching(switches, MsgMachines, MsgPState)
                  THEN "switched" ELSE "no"
    /\ switches' = Pending(Marked(switches, MsgMachines, MsgPState))
    /\ proto_writer' = proto_writer \o Acks(switches, MsgMachines, MsgPState)
    /\ nb_switching_machines' = nb_switching_machines - 1
    /\ UNCHANGED <<machineVars, switchers, eventVars, sched_ready, schedVars>>

\* SCHED_EXECUTE_JOB: the assertions on the machines, then the execution
\* actor, which runs update_machines_on_job_run before the next message.
server_on_execute_job ==
    /\ Receive("SCHED_EXECUTE_JOB")
    /\ aborted' = IF \E m \in MsgMachines :
                        \/ m \in Busy
                        \/ machine_state[m] \notin {"COMPUTING", "IDLE"}
                        \/ pstate[m] \notin Computation
                  THEN "allocation" ELSE "no"
    /\ computing' = computing \cup {MsgMachines}
    /\ UpdateState(MsgMachines, "COMPUTING")
    /\ UNCHANGED <<pstate, switchVars, proto_writer, eventVars, sched_ready,
                   schedVars>>

server_on_job_completed ==
    /\ Receive("JOB_COMPLETED")
    /\ proto_writer' = Append(proto_writer, Head(mailbox))
    /\ UNCHANGED <<machineVars, switchVars, aborted, eventVars, sched_ready,
                   schedVars>>

Notify(type) ==
    proto_writer' = Append(proto_writer, Msg(type, MsgMachines, NoPState))

server_on_event_machine_unavailable ==
    /\ Receive("EVENT_UNAVAILABLE")
    /\ aborted' = IF \E m \in MsgMachines : machine_state[m] = "UNAVAILABLE"
                  THEN "unavailable" ELSE "no"
    /\ UpdateState(MsgMachines, "UNAVAILABLE")
    /\ Notify("UNAVAILABLE")
    /\ UNCHANGED <<pstate, computing, switchVars, eventVars, sched_ready,
                   schedVars>>

StateWhenBack(m) == IF m \in Busy THEN "COMPUTING" ELSE "IDLE"

server_on_event_machine_available ==
    /\ Receive("EVENT_AVAILABLE")
    /\ aborted' = IF \E m \in MsgMachines : machine_state[m] # "UNAVAILABLE"
                  THEN "available" ELSE "no"
    /\ machine_state' = [m \in Machines |->
                           IF m \in MsgMachines THEN StateWhenBack(m)
                           ELSE machine_state[m]]
    /\ Notify("AVAILABLE")
    /\ UNCHANGED <<pstate, computing, switchVars, eventVars, sched_ready,
                   schedVars>>

server_on_sched_ready ==
    /\ Receive("SCHED_READY")
    /\ sched_ready' = TRUE
    /\ UNCHANGED <<machineVars, switchVars, proto_writer, aborted, eventVars,
                   schedVars>>

\* What the buffered events of a type name.
Told(type) ==
    UNION {proto_writer[i].machines :
             i \in {k \in DOMAIN proto_writer : proto_writer[k].type = type}}

NbEvents(type) ==
    Cardinality({k \in DOMAIN proto_writer : proto_writer[k].type = type})

LastEvent(m, types) ==
    LET I == {i \in DOMAIN proto_writer : /\ proto_writer[i].type \in types
                                          /\ m \in proto_writer[i].machines}
    IN proto_writer[CHOOSE i \in I : \A k \in I : k <= i]

\* The tail of the loop: the scheduler is called with the buffered events.
ServerTail ==
    /\ aborted = "no" /\ sched_ready /\ mailbox = <<>> /\ proto_writer # <<>>
    /\ sched_ready' = FALSE
    /\ proto_writer' = <<>>
    /\ wanted' = [m \in Machines |-> IF m \in Told("RESOURCE_STATE_CHANGED")
                                     THEN NoPState ELSE wanted[m]]
    /\ known' = [m \in Machines |->
                   IF m \in Told("RESOURCE_STATE_CHANGED")
                   THEN LastEvent(m, {"RESOURCE_STATE_CHANGED"}).pstate
                   ELSE known[m]]
    /\ using' = {J \in using : \A i \in DOMAIN proto_writer :
                   ~(/\ proto_writer[i].type = "JOB_COMPLETED"
                     /\ proto_writer[i].machines = J)}
    /\ missing' = {m \in Machines :
                     IF m \in Told("UNAVAILABLE") \cup Told("AVAILABLE")
                     THEN LastEvent(m, {"UNAVAILABLE", "AVAILABLE"}).type
                            = "UNAVAILABLE"
                     ELSE m \in missing}
    /\ unacked' = unacked - NbEvents("RESOURCE_STATE_CHANGED")
    /\ UNCHANGED <<machineVars, switchVars, mailbox, aborted, eventVars,
                   requests, jobs>>
-----------------------------------------------------------------------------
ServerStep ==
    \/ server_on_pstate_modification \/ server_on_switched
    \/ server_on_execute_job \/ server_on_job_completed
    \/ server_on_event_machine_unavailable \/ server_on_event_machine_available
    \/ server_on_sched_ready \/ ServerTail

SchedulerStep ==
    \/ \E M \in SUBSET Machines : \/ \E p \in PStates : SchedSetResourceState(M, p)
                                  \/ SchedExecuteJob(M)
    \/ SchedReady

ActorStep ==
    \/ \E M \in SUBSET Failing : EventSubmitter(M)
    \/ \E a \in switchers : SwitchBegin(a) \/ SwitchEnd(a)
    \/ \E J \in computing : JobEnd(J)

Next == ServerStep \/ SchedulerStep \/ ActorStep

Spec == Init /\ [][Next]_vars

\* Switches and jobs end, messages are handled and the scheduler answers.
FairSpec == Spec /\ WF_vars(Next)
-----------------------------------------------------------------------------

\* The machines that the messages of a type name, and how many there are.
InMail(type) ==
    UNION {mailbox[i].machines :
             i \in {k \in DOMAIN mailbox : mailbox[k].type = type}}

NbMessages(type) ==
    Cardinality({k \in DOMAIN mailbox : mailbox[k].type = type})

\* When no machine is both switched and subject to availability events, the
\* only assertion that can fail is the one on allocations: the scheduler may
\* choose a machine before it hears that the machine is gone.
AssertionsHold ==
    /\ aborted \in {"no", "allocation"}
    /\ Failing = {} => aborted = "no"

\* A machine shows the state of its host: IDLE and COMPUTING in a computation
\* pstate, SLEEPING in a sleep pstate, a transition exactly while one of the
\* switch processes works on it, and COMPUTING exactly while it has a job.
StateMatchesPState ==
    aborted = "no" =>
    \A m \in Machines :
        /\ machine_state[m] \in {"IDLE", "COMPUTING"} => pstate[m] \in Computation
        /\ machine_state[m] = "SLEEPING" => pstate[m] \in Sleep
        /\ machine_state[m] \in {"SWITCHING_ON", "SWITCHING_OFF"}
             <=> \E a \in switchers : a.machine = m
        /\ machine_state[m] = "COMPUTING" => m \in Busy
        /\ m \in Busy => machine_state[m] \in {"COMPUTING", "UNAVAILABLE"}

\* A machine is UNAVAILABLE exactly between the two events of the list, as
\* the server handles them: neither a job that ends on it nor one that
\* started before brings it back.
AvailabilityFollowsEvents ==
    aborted = "no" =>
    \A m \in Machines :
        machine_state[m] = "UNAVAILABLE"
          <=> \/ m \in down \ InMail("EVENT_UNAVAILABLE")
              \/ m \in InMail("EVENT_AVAILABLE")

\* docs/protocol.rst on SET_RESOURCE_STATE: as soon as all the resources are
\* in the state the request is acknowledged, unless an allocation of a machine
\* that had failed stops the simulation (see AssertionsHold).
SwitchesAcknowledged ==
    \A m \in Machines : (wanted[m] # NoPState)
                          ~> (wanted[m] = NoPState \/ aborted = "allocation")

=============================================================================
