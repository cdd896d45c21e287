------------------------ MODULE BatsimMachinesProofs ------------------------
(***************************************************************************)
(* The machines of Batsim, for every set of machines and pstates: no       *)
(* assertion on machines fails but the one on allocations, the state of a  *)
(* machine is the one its host and its jobs give it, and UNAVAILABLE       *)
(* follows the event list.                                                 *)
(*                                                                         *)
(* The theorems suppose that no machine is both switched by the scheduler  *)
(* and subject to availability events, since a switch of an unavailable    *)
(* machine overwrites its state in the code.                               *)
(***************************************************************************)
EXTENDS BatsimMachines, FiniteSetTheorems, SequenceTheorems, TLAPS

USE DEF machineVars, switchVars, eventVars, schedVars
-----------------------------------------------------------------------------
(* The messages, the buffered events and the switches in progress, as sets *)

Mail == {mailbox[i] : i \in DOMAIN mailbox}
Written == {proto_writer[i] : i \in DOMAIN proto_writer}
Groups == {switches[i] : i \in DOMAIN switches}

\* No switch in progress names m, no process switches it, no process has
\* switched it and waits for the server, no buffered event acknowledges it.
Ungrouped(m) == \A g \in Groups : m \notin g.all
NoSwitcher(m) == \A a \in switchers : a.machine # m
NotSwitched(m) == \A x \in Mail : x.type = "SWITCHED" => m \notin x.machines
NotAcked(m) ==
    \A e \in Written : e.type = "RESOURCE_STATE_CHANGED" => m \notin e.machines

\* No completion of J is on its way to the scheduler.
NotCompleted(J) ==
    \A x \in Mail \cup Written : x.type = "JOB_COMPLETED" => x.machines # J

States == {"IDLE", "COMPUTING", "SLEEPING", "SWITCHING_ON", "SWITCHING_OFF",
           "UNAVAILABLE"}

Group == [target : PStates, all : SUBSET Machines, switching : SUBSET Machines]
Switcher == [machine : Machines, target : PStates, pc : {"spawned", "executing"}]

MachineTypes ==
    /\ machine_state \in [Machines -> States]
    /\ pstate \in [Machines -> PStates \cup {Virtual}]
    /\ computing \subseteq SUBSET Machines
    /\ switches \in Seq(Group) /\ switchers \subseteq Switcher
    /\ mailbox \in Seq(Message) /\ proto_writer \in Seq(Event)
    /\ wanted \in [Machines -> PStates \cup {NoPState}]
    /\ known \in [Machines -> PStates]
    /\ using \subseteq SUBSET Machines /\ sched_ready \in BOOLEAN
    /\ down \subseteq Failing

EventMessages == {"EVENT_UNAVAILABLE", "EVENT_AVAILABLE"}

\* Two messages that are never in the mailbox together.
Conflict(x, y) ==
    \/ x.type \in Decisions /\ y.type \in Decisions
    \/ x.type \in EventMessages /\ y.type \in EventMessages
    \/ x.type = "SWITCHED" /\ y.type = "SWITCHED" /\ x.machines \cap y.machines # {}

MailApart ==
    \A i, k \in DOMAIN mailbox : i # k => ~Conflict(mailbox[i], mailbox[k])

\* A decision in the mailbox keeps the scheduler from being ready.
MachineMail ==
    /\ MailApart
    /\ \A x \in Mail : x.type \in Decisions => ~sched_ready

\* A request that the server has not handled: nothing else is going on with
\* its machines, they are where the scheduler knows them to be.
RequestsFresh ==
    \A x \in Mail : x.type = "PSTATE_MODIFICATION" =>
        /\ x.machines # {} /\ x.machines \subseteq Switchable
        /\ x.pstate \in PStates
        /\ \A m \in x.machines :
             /\ wanted[m] = x.pstate /\ pstate[m] = known[m]
             /\ known[m] \in Sleep => x.pstate \in Computation
             /\ x.pstate \in Sleep => m \notin UNION using
             /\ Ungrouped(m) /\ NotAcked(m)

\* A machine is in one switch at most; those of its machines it does not wait
\* for have reached its pstate.
GroupsSound ==
    /\ \A g \in Groups :
         /\ g.switching # {} /\ g.switching \subseteq g.all
         /\ g.all \subseteq Switchable
         /\ \A m \in g.all : wanted[m] = g.target /\ NotAcked(m)
         /\ \A m \in g.all \ g.switching :
              pstate[m] = g.target /\ NoSwitcher(m) /\ NotSwitched(m)
    /\ \A i, k \in DOMAIN switches :
         i # k => switches[i].all \cap switches[k].all = {}

\* A process works for a switch that waits for its machine.
SwitchersSound ==
    \A a \in switchers :
        /\ \E g \in Groups : g.target = a.target /\ a.machine \in g.switching
        /\ NotSwitched(a.machine) /\ a.machine \notin UNION using
        /\ machine_state[a.machine] = Transition(a.target)
        /\ \A b \in switchers : b.machine = a.machine => b = a

SwitchedSound ==
    \A x \in Mail : x.type = "SWITCHED" =>
        \E m \in Machines :
            /\ x.machines = {m} /\ pstate[m] = x.pstate
            /\ \E g \in Groups : g.target = x.pstate /\ m \in g.switching

\* An acknowledged machine is in the pstate that was asked for.
AcksSound ==
    \A e \in Written : e.type = "RESOURCE_STATE_CHANGED" =>
        /\ e.pstate \in PStates
        /\ \A m \in e.machines : wanted[m] = e.pstate /\ pstate[m] = e.pstate

\* What the scheduler knows of a machine without a pending request is true.
KnownRight == \A m \in Machines : wanted[m] = NoPState => pstate[m] = known[m]

\* The jobs the scheduler believes running hold disjoint sets of machines, in
\* computation pstates; each is about to start, computes, or has ended.
JobsSound ==
    /\ \A J, K \in using : J # K => J \cap K = {}
    /\ {} \notin using /\ computing \subseteq using
    /\ \A m \in UNION using : pstate[m] \in Computation
    /\ \A x \in Mail : x.type = "SCHED_EXECUTE_JOB" =>
         x.machines \in using \ computing /\ NotCompleted(x.machines)
    /\ \A x \in Mail \cup Written : x.type = "JOB_COMPLETED" =>
         x.machines \in using \ computing

\* The event submitter is ahead of the server by one event.
EventsSound ==
    /\ \A x \in Mail : /\ x.type = "EVENT_UNAVAILABLE" => x.machines \subseteq down
                       /\ x.type = "EVENT_AVAILABLE"
                            => x.machines \subseteq Failing \ down
    /\ \A m \in Machines \ Switchable : pstate[m] = InitialPState

MachineFacts ==
    /\ MachineTypes /\ MachineMail /\ RequestsFresh /\ GroupsSound
    /\ SwitchersSound /\ SwitchedSound /\ AcksSound /\ KnownRight /\ JobsSound
    /\ EventsSound /\ StateMatchesPState /\ AvailabilityFollowsEvents

\* After a failed assertion nothing happens any more.
MachineInv == AssertionsHold /\ (aborted = "no" => MachineFacts)
-----------------------------------------------------------------------------
(* The operators on lists.                                                 *)

\* The elements of I in their order: Nth enumerates I without repetition.
LEMMA NthEnumerates ==
    ASSUME NEW n \in Nat, NEW I \in SUBSET (1..n)
    PROVE  /\ Cardinality(I) \in Nat
           /\ \A k \in 1..Cardinality(I) : Nth(I, k) \in I
           /\ \A k, l \in 1..Cardinality(I) : k # l => Nth(I, k) # Nth(I, l)
           /\ \A i \in I : \E k \in 1..Cardinality(I) : Nth(I, k) = i
<1>. DEFINE below(i) == {x \in I : x <= i}
            rank == [i \in I |-> Cardinality(below(i))]
            N == Cardinality(I)
<1>1. IsFiniteSet(I) /\ N \in Nat /\ I \subseteq Nat
  <2>1. IsFiniteSet(1..n)
      BY FS_Interval
  <2>2. IsFiniteSet(I)
      BY <2>1, FS_Subset
  <2>. QED
      BY <2>2, FS_CardinalityType
<1>2. \A i \in I : /\ IsFiniteSet(below(i)) /\ Cardinality(below(i)) \in Nat
                   /\ Cardinality(below(i)) <= N /\ Cardinality(below(i)) # 0
  <2>. TAKE i \in I
  <2>1. below(i) \in SUBSET I /\ i \in below(i)
      BY <1>1
  <2>2. IsFiniteSet(below(i)) /\ Cardinality(below(i)) <= N
      BY <1>1, <2>1, FS_Subset
  <2>3. Cardinality(below(i)) \in Nat
      BY <2>2, FS_CardinalityType
  <2>4. Cardinality(below(i)) # 0
      BY <2>1, <2>2, FS_EmptySet
  <2>. QED
      BY <2>2, <2>3, <2>4
<1>3. \A i, j \in I : i < j => Cardinality(below(i)) # Cardinality(below(j))
  <2>. SUFFICES ASSUME NEW i \in I, NEW j \in I, i < j,
                       Cardinality(below(i)) = Cardinality(below(j))
                PROVE  FALSE
      OBVIOUS
  <2>0. \A x \in I : x \in Nat
      BY <1>1
  <2>1. below(i) \in SUBSET below(j) /\ j \in below(j) /\ j \notin below(i)
    <3>1. \A x \in I : x <= i => x <= j
        BY <2>0
    <3>2. j <= j /\ ~(j <= i)
        BY <2>0
    <3>. QED
        BY <3>1, <3>2
  <2>2. below(j) = below(i)
      BY <1>2, <2>1, FS_Subset
  <2>. QED
      BY <2>1, <2>2
<1>4. \A i, j \in I : Cardinality(below(i)) = Cardinality(below(j)) => i = j
    BY <1>1, <1>3
<1>5. rank \in Injection(I, 1..N)
  <2>1. \A i \in I : Cardinality(below(i)) \in 1..N
      BY <1>1, <1>2
  <2>2. rank \in [I -> 1..N]
      BY <2>1
  <2>3. \A i, j \in I : rank[i] = rank[j] => i = j
      BY <1>4
  <2>. QED
      BY <2>2, <2>3 DEF Injection, IsInjective
<1>6. rank \in Surjection(I, 1..N)
  <2>1. IsFiniteSet(1..N) /\ Cardinality(1..N) = N
    <3>1. 1 \in Int /\ N \in Int
        BY <1>1
    <3>2. IsFiniteSet(1..N) /\ Cardinality(1..N) = IF 1 > N THEN 0 ELSE N - 1 + 1
        BY <3>1, FS_Interval
    <3>. QED
        BY <1>1, <3>2
  <2>2. Cardinality(I) = Cardinality(1..N)
      BY <2>1
  <2>. HIDE DEF rank, N
  <2>. QED
      BY <1>5, <2>1, <2>2, FS_Injection
<1>7. \A k \in 1..N : Nth(I, k) \in I /\ Cardinality(below(Nth(I, k))) = k
  <2>. TAKE k \in 1..N
  <2>1. \E i \in I : rank[i] = k
      BY <1>6 DEF Surjection
  <2>2. \E i \in I : Cardinality({x \in I : x <= i}) = k
      BY <2>1
  <2>. QED
      BY <2>2 DEF Nth
<1>8. \A i \in I : \E k \in 1..N : Nth(I, k) = i
  <2>. TAKE i \in I
  <2>1. Cardinality(below(i)) \in 1..N
      BY <1>1, <1>2
  <2>2. Nth(I, Cardinality(below(i))) = i
      BY <1>4, <1>7, <2>1
  <2>. QED
      BY <2>1, <2>2
<1>9. \A k, l \in 1..N : k # l => Nth(I, k) # Nth(I, l)
    BY <1>7
<1>. QED
    BY <1>1, <1>7, <1>8, <1>9

\* The list of the elements at the positions I.
LEMMA SelectedElements ==
    ASSUME NEW S, NEW list \in Seq(S), NEW I \in SUBSET DOMAIN list
    PROVE  /\ Selected(list, I) \in Seq(S)
           /\ \A k \in DOMAIN Selected(list, I) :
                \E i \in I : Selected(list, I)[k] = list[i]
           /\ \A i \in I :
                \E k \in DOMAIN Selected(list, I) : Selected(list, I)[k] = list[i]
           /\ \A k, l \in DOMAIN Selected(list, I) : k # l =>
                \E i, j \in I : /\ i # j /\ Selected(list, I)[k] = list[i]
                                /\ Selected(list, I)[l] = list[j]
<1>. DEFINE N == Cardinality(I)
            sel == Selected(list, I)
<1>1. Len(list) \in Nat /\ DOMAIN list = 1..Len(list) /\ I \in SUBSET (1..Len(list))
    OBVIOUS
<1>2. /\ N \in Nat
      /\ \A k \in 1..N : Nth(I, k) \in I
      /\ \A k, l \in 1..N : k # l => Nth(I, k) # Nth(I, l)
      /\ \A i \in I : \E k \in 1..N : Nth(I, k) = i
    BY <1>1, NthEnumerates
<1>3. sel = [k \in 1..N |-> list[Nth(I, k)]]
    BY DEF Selected
<1>4. DOMAIN sel = 1..N /\ \A k \in 1..N : sel[k] = list[Nth(I, k)]
    BY <1>3
<1>. HIDE DEF N, sel
<1>5. sel \in Seq(S)
    BY <1>1, <1>2, <1>3
<1>6. \A k \in DOMAIN sel : \E i \in I : sel[k] = list[i]
    BY <1>2, <1>4
<1>7. \A i \in I : \E k \in DOMAIN sel : sel[k] = list[i]
    BY <1>2, <1>4
<1>8. \A k, l \in DOMAIN sel : k # l =>
        \E i, j \in I : i # j /\ sel[k] = list[i] /\ sel[l] = list[j]
    BY <1>2, <1>4
<1>. QED
    BY <1>5, <1>6, <1>7, <1>8 DEF sel
-----------------------------------------------------------------------------
(* mark_switch_as_done.                                                    *)

\* Each switch waits for machines of its own.
Apart(sw) ==
    /\ \A i \in DOMAIN sw : sw[i].switching \subseteq sw[i].all
    /\ \A i, k \in DOMAIN sw : i # k => sw[i].all \cap sw[k].all = {}

\* The machines that a switch still waits for when those of M have reached p.
Left(g, M, p) == {m \in g.switching : ~(g.target = p /\ m \in M)}

\* When the switches are apart, each machine is taken out of the one that
\* waits for it, and nothing else changes.
LEMMA MarkedGroups ==
    ASSUME NEW sw \in Seq(Group), Apart(sw), NEW M, NEW p
    PROVE  /\ Marked(sw, M, p) \in Seq(Group)
           /\ DOMAIN Marked(sw, M, p) = DOMAIN sw
           /\ \A i \in DOMAIN sw : Marked(sw, M, p)[i] =
                [target |-> sw[i].target, all |-> sw[i].all,
                 switching |-> Left(sw[i], M, p)]
<1>. DEFINE taken(i) == {m \in M : /\ Holds(sw, i, m, p)
                                   /\ \A k \in 1..(i - 1) : ~Holds(sw, k, m, p)}
            ms == [i \in DOMAIN sw |-> [target |-> sw[i].target, all |-> sw[i].all,
                                        switching |-> Left(sw[i], M, p)]]
<1>1. /\ Len(sw) \in Nat /\ DOMAIN sw = 1..Len(sw)
      /\ \A i \in DOMAIN sw : sw[i] \in Group
    OBVIOUS
<1>2. \A i \in DOMAIN sw : sw[i].switching \ taken(i) = Left(sw[i], M, p)
  <2>. TAKE i \in DOMAIN sw
  <2>1. \A m \in sw[i].switching : \A k \in 1..(i - 1) : ~Holds(sw, k, m, p)
    <3>1. \A k \in 1..(i - 1) : k \in DOMAIN sw /\ k # i
        BY <1>1
    <3>. QED
        BY <3>1 DEF Holds, Apart
  <2>. QED
      BY <2>1 DEF Left, Holds
<1>3. \A i \in DOMAIN sw : [sw[i] EXCEPT !.switching = @ \ taken(i)] = ms[i]
  <2>. TAKE i \in DOMAIN sw
  <2>1. sw[i] \in Group
      BY <1>1
  <2>2. ASSUME NEW g \in Group, NEW T
        PROVE  [g EXCEPT !.switching = @ \ T] = [target |-> g.target,
                 all |-> g.all, switching |-> g.switching \ T]
    <3>1. ASSUME NEW v
          PROVE  [g EXCEPT !.switching = v]
                   = [target |-> g.target, all |-> g.all, switching |-> v]
        BY DEF Group
    <3>2. [g EXCEPT !.switching = g.switching \ T]
            = [target |-> g.target, all |-> g.all, switching |-> g.switching \ T]
        BY <3>1
    <3>. QED
        BY <3>2
  <2>. HIDE DEF taken
  <2>3. [sw[i] EXCEPT !.switching = @ \ taken(i)]
          = [target |-> sw[i].target, all |-> sw[i].all,
             switching |-> sw[i].switching \ taken(i)]
      BY <2>1, <2>2
  <2>. QED
      BY <1>2, <2>3
<1>4. Marked(sw, M, p) = ms
    BY <1>3 DEF Marked
<1>5. \A i \in DOMAIN sw : ms[i] \in Group
  <2>1. \A i \in DOMAIN sw : Left(sw[i], M, p) \subseteq sw[i].switching
      BY DEF Left
  <2>. QED
      BY <1>1, <2>1 DEF Group
<1>6. ms \in Seq(Group) /\ DOMAIN ms = DOMAIN sw
  <2>1. ms \in [1..Len(sw) -> Group]
      BY <1>1, <1>5
  <2>. HIDE DEF ms
  <2>2. ms \in Seq(Group)
      BY <1>1, <2>1
  <2>. QED
      BY <1>1, <2>1, <2>2
<1>. QED
    BY <1>4, <1>6

\* The switches that go on when switches sw are marked, and the
\* acknowledgements of those that are done.
MarkingSound(sw, M, p) ==
    LET on == Pending(Marked(sw, M, p))
        acks == Acks(sw, M, p)
    IN  /\ on \in Seq(Group) /\ acks \in Seq(Event)
        /\ \A k \in DOMAIN on : \E i \in DOMAIN sw :
             /\ on[k].target = sw[i].target /\ on[k].all = sw[i].all
             /\ on[k].switching = Left(sw[i], M, p)
             /\ on[k].switching # {}
        /\ \A i \in DOMAIN sw : Left(sw[i], M, p) # {} =>
             \E k \in DOMAIN on :
               /\ on[k].target = sw[i].target /\ on[k].all = sw[i].all
               /\ on[k].switching = Left(sw[i], M, p)
        /\ \A k, l \in DOMAIN on : k # l => on[k].all \cap on[l].all = {}
        /\ \A k \in DOMAIN acks :
             /\ acks[k].type = "RESOURCE_STATE_CHANGED"
             /\ acks[k].pstate = p
             /\ \E i \in DOMAIN sw : /\ acks[k].machines = sw[i].all
                                     /\ Left(sw[i], M, p) = {}
        /\ \A k \in DOMAIN acks : \A l \in DOMAIN on :
             acks[k].machines \cap on[l].all = {}

\* mark_switch_as_done does what MarkingSound says, for switches that are
\* apart.
LEMMA SwitchesMarked ==
    ASSUME NEW sw \in Seq(Group), Apart(sw), NEW M,
           NEW p \in PStates \cup {NoPState}
    PROVE  MarkingSound(sw, M, p)
<1>. DEFINE ms == Marked(sw, M, p)
            I == {i \in DOMAIN ms : ms[i].switching # {}}
            D == {i \in DOMAIN sw : ms[i].switching = {}}
            on == Pending(ms)
            done == Selected(ms, D)
            acks == Acks(sw, M, p)
<1>1. /\ ms \in Seq(Group) /\ DOMAIN ms = DOMAIN sw
      /\ \A i \in DOMAIN sw : /\ ms[i].target = sw[i].target
                              /\ ms[i].all = sw[i].all
                              /\ ms[i].switching = Left(sw[i], M, p)
  <2>1. /\ ms \in Seq(Group) /\ DOMAIN ms = DOMAIN sw
        /\ \A i \in DOMAIN sw : ms[i] =
             [target |-> sw[i].target, all |-> sw[i].all,
              switching |-> Left(sw[i], M, p)]
      BY MarkedGroups
  <2>. HIDE DEF ms
  <2>. QED
      BY <2>1
<1>2. /\ on \in Seq(Group)
      /\ \A k \in DOMAIN on : \E i \in I : on[k] = ms[i]
      /\ \A i \in I : \E k \in DOMAIN on : on[k] = ms[i]
      /\ \A k, l \in DOMAIN on : k # l =>
           \E i, j \in I : i # j /\ on[k] = ms[i] /\ on[l] = ms[j]
  <2>1. I \in SUBSET DOMAIN ms
      OBVIOUS
  <2>2. on = Selected(ms, I)
      BY DEF Pending
  <2>. HIDE DEF ms, I, on
  <2>. QED
      BY <1>1, <2>1, <2>2, SelectedElements
<1>3. /\ done \in Seq(Group)
      /\ \A k \in DOMAIN done : \E i \in D : done[k] = ms[i]
  <2>1. D \in SUBSET DOMAIN ms
      BY <1>1
  <2>. HIDE DEF ms, D
  <2>. QED
      BY <1>1, <2>1, SelectedElements
<1>4. acks = [i \in DOMAIN done |-> [type |-> "RESOURCE_STATE_CHANGED",
                                     machines |-> done[i].all, pstate |-> p]]
    BY DEF Acks
<1>. HIDE DEF ms, on, done, acks
<1>5. acks \in Seq(Event) /\ DOMAIN acks = DOMAIN done
  <2>1. \A k \in DOMAIN done : done[k].all \in SUBSET Machines
    <3>1. \A k \in DOMAIN done : done[k] \in Group
        BY <1>3
    <3>. QED
        BY <3>1 DEF Group
  <2>2. Len(done) \in Nat /\ DOMAIN done = 1..Len(done)
      BY <1>3
  <2>3. acks \in [1..Len(done) -> Event]
      BY <1>4, <2>1, <2>2 DEF Event, EventTypes
  <2>. QED
      BY <2>2, <2>3
<1>6. \A k \in DOMAIN on : \E i \in DOMAIN sw :
         /\ on[k].target = sw[i].target /\ on[k].all = sw[i].all
         /\ on[k].switching = Left(sw[i], M, p) /\ on[k].switching # {}
  <2>. TAKE k \in DOMAIN on
  <2>1. PICK i \in I : on[k] = ms[i]
      BY <1>2
  <2>. QED
      BY <1>1, <2>1
<1>7. \A i \in DOMAIN sw : Left(sw[i], M, p) # {} =>
         \E k \in DOMAIN on :
           /\ on[k].target = sw[i].target /\ on[k].all = sw[i].all
           /\ on[k].switching = Left(sw[i], M, p)
  <2>. SUFFICES ASSUME NEW i \in DOMAIN sw, Left(sw[i], M, p) # {}
                PROVE  \E k \in DOMAIN on :
                         /\ on[k].target = sw[i].target /\ on[k].all = sw[i].all
                         /\ on[k].switching = Left(sw[i], M, p)
      OBVIOUS
  <2>1. i \in I
      BY <1>1
  <2>2. PICK k \in DOMAIN on : on[k] = ms[i]
      BY <1>2, <2>1
  <2>. QED
      BY <1>1, <2>2
<1>8. \A k, l \in DOMAIN on : k # l => on[k].all \cap on[l].all = {}
  <2>1. \A k, l \in DOMAIN on : k # l =>
          \E i, j \in DOMAIN sw : i # j /\ on[k].all = sw[i].all /\ on[l].all = sw[j].all
      BY <1>1, <1>2
  <2>. QED
      BY <2>1 DEF Apart
<1>9. \A k \in DOMAIN acks :
         /\ acks[k].type = "RESOURCE_STATE_CHANGED" /\ acks[k].pstate = p
         /\ \E i \in DOMAIN sw : /\ acks[k].machines = sw[i].all
                                 /\ Left(sw[i], M, p) = {}
  <2>. TAKE k \in DOMAIN acks
  <2>1. PICK i \in D : done[k] = ms[i]
      BY <1>3, <1>5
  <2>2. acks[k].machines = done[k].all /\ acks[k].pstate = p
        /\ acks[k].type = "RESOURCE_STATE_CHANGED"
      BY <1>4, <1>5
  <2>. QED
      BY <1>1, <2>1, <2>2
<1>10. \A k \in DOMAIN acks : \A l \in DOMAIN on :
          acks[k].machines \cap on[l].all = {}
  <2>. TAKE k \in DOMAIN acks
  <2>. TAKE l \in DOMAIN on
  <2>1. PICK i \in DOMAIN sw : acks[k].machines = sw[i].all
                               /\ Left(sw[i], M, p) = {}
      BY <1>9
  <2>2. PICK j \in DOMAIN sw : on[l].all = sw[j].all /\ Left(sw[j], M, p) # {}
      BY <1>6
  <2>3. i # j
      BY <2>1, <2>2
  <2>. QED
      BY <2>1, <2>2, <2>3 DEF Apart
<1>. QED
    BY <1>2, <1>5, <1>6, <1>7, <1>8, <1>9, <1>10 DEF on, acks, ms, MarkingSound
-----------------------------------------------------------------------------
(* The mailbox and the buffered events.                                    *)

\* A message that is sent joins the others.
LEMMA Sent ==
    ASSUME mailbox \in Seq(Message), NEW type \in MessageTypes,
           NEW M \in SUBSET Machines, NEW p \in PStates \cup {NoPState},
           Send(type, M, p)
    PROVE  /\ mailbox' \in Seq(Message)
           /\ Mail' = Mail \cup {Msg(type, M, p)}
           /\ MailApart /\ (\A x \in Mail : ~Conflict(x, Msg(type, M, p)))
                => MailApart'
<1>. DEFINE x == Msg(type, M, p)
            n == Len(mailbox)
<1>1. x \in Message /\ mailbox' = Append(mailbox, x)
    BY DEF Send, Msg, Message
<1>. HIDE DEF x
<1>2. mailbox' \in Seq(Message)
    BY <1>1
<1>3. /\ n \in Nat /\ DOMAIN mailbox = 1..n /\ DOMAIN mailbox' = 1..(n + 1)
      /\ \A i \in 1..n : mailbox'[i] = mailbox[i]
      /\ mailbox'[n + 1] = x
    BY <1>1
<1>4. Mail' = Mail \cup {x}
    BY <1>3 DEF Mail
<1>5. ASSUME MailApart, \A y \in Mail : ~Conflict(y, x)
      PROVE  MailApart'
  <2>. SUFFICES ASSUME NEW i \in DOMAIN mailbox', NEW k \in DOMAIN mailbox',
                       i # k
                PROVE  ~Conflict(mailbox'[i], mailbox'[k])
      BY DEF MailApart, Conflict
  <2>1. CASE i \in 1..n /\ k \in 1..n
      BY <1>3, <1>5, <2>1 DEF MailApart
  <2>2. CASE i \in 1..n /\ k = n + 1
      BY <1>3, <1>5, <2>2 DEF Mail
  <2>3. CASE k \in 1..n /\ i = n + 1
    <3>1. ~Conflict(mailbox[k], x)
        BY <1>3, <1>5, <2>3 DEF Mail
    <3>. QED
        BY <1>3, <2>3, <3>1 DEF Conflict
  <2>. QED
      BY <1>3, <2>1, <2>2, <2>3
<1>. QED
    BY <1>2, <1>4, <1>5 DEF x

\* The message that is received leaves the others, and none of them conflicts
\* with it.
LEMMA Received ==
    ASSUME mailbox \in Seq(Message), MailApart, NEW type, Receive(type)
    PROVE  /\ mailbox' \in Seq(Message) /\ MailApart'
           /\ Head(mailbox) \in Mail /\ Head(mailbox) \in Message
           /\ Head(mailbox).type = type
           /\ MsgMachines \in SUBSET Machines
           /\ MsgPState \in PStates \cup {NoPState}
           /\ Mail' \subseteq Mail
           /\ \A x \in Mail : x = Head(mailbox) \/ x \in Mail'
           /\ \A x \in Mail' : ~Conflict(x, Head(mailbox))
<1>. DEFINE n == Len(mailbox)
<1>1. /\ mailbox # <<>> /\ mailbox' = Tail(mailbox)
      /\ Head(mailbox).type = type
    BY DEF Receive
<1>2. /\ n \in Nat /\ n > 0 /\ DOMAIN mailbox = 1..n
      /\ DOMAIN mailbox' = 1..(n - 1) /\ mailbox' \in Seq(Message)
      /\ \A i \in 1..(n - 1) : mailbox'[i] = mailbox[i + 1]
      /\ Head(mailbox) = mailbox[1] /\ mailbox[1] \in Message
    BY <1>1
<1>3. Head(mailbox) \in Mail
    BY <1>2 DEF Mail
<1>4. MailApart'
    BY <1>2 DEF MailApart, Conflict
<1>5. Mail' \subseteq Mail
  <2>. SUFFICES ASSUME NEW i \in DOMAIN mailbox'
                PROVE  mailbox'[i] \in Mail
      BY DEF Mail
  <2>1. i + 1 \in DOMAIN mailbox /\ mailbox'[i] = mailbox[i + 1]
      BY <1>2
  <2>. QED
      BY <2>1 DEF Mail
<1>6. \A x \in Mail : x = Head(mailbox) \/ x \in Mail'
  <2>. SUFFICES ASSUME NEW i \in DOMAIN mailbox, i # 1
                PROVE  mailbox[i] \in Mail'
      BY <1>2 DEF Mail
  <2>1. i - 1 \in DOMAIN mailbox' /\ mailbox'[i - 1] = mailbox[i]
      BY <1>2
  <2>. QED
      BY <2>1 DEF Mail
<1>7. \A x \in Mail' : ~Conflict(x, Head(mailbox))
  <2>. SUFFICES ASSUME NEW i \in DOMAIN mailbox'
                PROVE  ~Conflict(mailbox'[i], Head(mailbox))
      BY DEF Mail
  <2>1. /\ i + 1 \in DOMAIN mailbox /\ 1 \in DOMAIN mailbox /\ i + 1 # 1
        /\ mailbox'[i] = mailbox[i + 1]
      BY <1>2
  <2>. QED
      BY <1>2, <2>1 DEF MailApart
<1>. QED
    BY <1>1, <1>2, <1>3, <1>4, <1>5, <1>6, <1>7 DEF Message, MsgMachines, MsgPState

\* Events that are written join the others.
LEMMA Wrote ==
    ASSUME proto_writer \in Seq(Event), NEW es \in Seq(Event),
           proto_writer' = proto_writer \o es
    PROVE  /\ proto_writer' \in Seq(Event)
           /\ Written' = Written \cup {es[k] : k \in DOMAIN es}
<1>. DEFINE n == Len(proto_writer)
            l == Len(es)
<1>1. /\ n \in Nat /\ l \in Nat
      /\ DOMAIN proto_writer = 1..n /\ DOMAIN es = 1..l
      /\ proto_writer' \in Seq(Event) /\ DOMAIN proto_writer' = 1..(n + l)
      /\ \A i \in 1..n : proto_writer'[i] = proto_writer[i]
      /\ \A i \in 1..(n + l) : i \notin 1..n => proto_writer'[i] = es[i - n]
    OBVIOUS
<1>2. \A e \in Written' : e \in Written \cup {es[k] : k \in DOMAIN es}
  <2>. SUFFICES ASSUME NEW i \in DOMAIN proto_writer'
                PROVE  proto_writer'[i] \in Written \cup {es[k] : k \in DOMAIN es}
      BY DEF Written
  <2>1. CASE i \in 1..n
      BY <1>1, <2>1 DEF Written
  <2>2. CASE i \notin 1..n
    <3>1. i - n \in DOMAIN es
        BY <1>1, <2>2
    <3>. QED
        BY <1>1, <2>2, <3>1
  <2>. QED
      BY <2>1, <2>2
<1>3. Written \subseteq Written'
    BY <1>1 DEF Written
<1>4. \A k \in DOMAIN es : es[k] \in Written'
  <2>. TAKE k \in DOMAIN es
  <2>1. /\ n + k \in DOMAIN proto_writer' /\ n + k \notin 1..n
        /\ (n + k) - n = k
      BY <1>1
  <2>2. proto_writer'[n + k] = es[k]
      BY <1>1, <2>1
  <2>. QED
      BY <2>1, <2>2 DEF Written
<1>. QED
    BY <1>1, <1>2, <1>3, <1>4

\* An event that is written joins the others.
LEMMA WroteOne ==
    ASSUME proto_writer \in Seq(Event), NEW e \in Event,
           proto_writer' = Append(proto_writer, e)
    PROVE  /\ proto_writer' \in Seq(Event)
           /\ Written' = Written \cup {e}
<1>. DEFINE n == Len(proto_writer)
<1>1. /\ n \in Nat /\ DOMAIN proto_writer = 1..n
      /\ proto_writer' \in Seq(Event) /\ DOMAIN proto_writer' = 1..(n + 1)
      /\ \A i \in 1..n : proto_writer'[i] = proto_writer[i]
      /\ proto_writer'[n + 1] = e
    OBVIOUS
<1>. QED
    BY <1>1 DEF Written

\* What the types say of a message, an event, a switch and a switcher.
LEMMA MemberTypes ==
    ASSUME MachineTypes
    PROVE  /\ \A x \in Mail : /\ x \in Message /\ x.machines \in SUBSET Machines
                              /\ x.pstate \in PStates \cup {NoPState}
           /\ \A e \in Written : /\ e \in Event /\ e.machines \in SUBSET Machines
                                 /\ e.pstate \in PStates \cup {NoPState}
           /\ \A g \in Groups : /\ g \in Group /\ g.target \in PStates
                                /\ g.all \in SUBSET Machines
                                /\ g.switching \in SUBSET Machines
           /\ \A a \in switchers : a.machine \in Machines /\ a.target \in PStates
           /\ \A J \in using \cup computing : J \in SUBSET Machines
<1>1. \A x \in Mail : x \in Message
    BY DEF MachineTypes, Mail
<1>2. \A e \in Written : e \in Event
    BY DEF MachineTypes, Written
<1>3. \A g \in Groups : g \in Group
    BY DEF MachineTypes, Groups
<1>4. \A a \in switchers : a \in Switcher
    BY DEF MachineTypes
<1>5. \A J \in using \cup computing : J \in SUBSET Machines
    BY DEF MachineTypes
<1>. QED
    BY <1>1, <1>2, <1>3, <1>4, <1>5 DEF Message, Event, Group, Switcher

\* Availability, with the messages as a set.
Available ==
    \A m \in Machines :
        machine_state[m] = "UNAVAILABLE"
          <=> \/ /\ m \in down
                 /\ \A x \in Mail : x.type = "EVENT_UNAVAILABLE"
                                     => m \notin x.machines
              \/ \E x \in Mail : x.type = "EVENT_AVAILABLE" /\ m \in x.machines

\* AvailabilityFollowsEvents, with the messages as a set.
LEMMA AvailabilityInMail ==
    (AvailabilityFollowsEvents <=> (aborted = "no" => Available))
<1>1. ASSUME NEW type, NEW m
      PROVE  m \in InMail(type) <=> \E x \in Mail : x.type = type /\ m \in x.machines
    BY DEF InMail, Mail
<1>. HIDE DEF InMail, Mail
<1>2. \A m : m \in down \ InMail("EVENT_UNAVAILABLE")
        <=> /\ m \in down
            /\ \A x \in Mail : x.type = "EVENT_UNAVAILABLE" => m \notin x.machines
    BY <1>1
<1>3. \A m : m \in InMail("EVENT_AVAILABLE")
        <=> \E x \in Mail : x.type = "EVENT_AVAILABLE" /\ m \in x.machines
    BY <1>1
<1>. QED
    BY <1>2, <1>3 DEF AvailabilityFollowsEvents, Available

\* The facts include it while no assertion has failed.
LEMMA FactsNow ==
    ASSUME MachineFacts, aborted = "no"
    PROVE  Available
    BY AvailabilityInMail DEF MachineFacts

\* The same after a step.
LEMMA AvailableNext == Available' => AvailabilityFollowsEvents'
    BY AvailabilityInMail, PTL
-----------------------------------------------------------------------------
(* The steps of the scheduler and of the event submitter.                  *)

\* No machine is both switched and subject to events.
Separate == Switchable \cap Failing = {}

\* A request for a switch is sent: its machines are settled, so that nothing
\* is going on with them.
LEMMA SetResourceStateKeeps ==
    ASSUME MachineFacts, aborted = "no", NEW M \in SUBSET Machines,
           NEW p \in PStates, SchedSetResourceState(M, p)
    PROVE  MachineFacts'
<1>. DEFINE x == Msg("PSTATE_MODIFICATION", M, p)
<1>. USE DEF SchedSetResourceState
<1>1. /\ mailbox' \in Seq(Message) /\ Mail' = Mail \cup {x}
      /\ MailApart /\ (\A y \in Mail : ~Conflict(y, x)) => MailApart'
    BY Sent DEF MachineFacts, MachineTypes, MessageTypes
<1>2. x.type = "PSTATE_MODIFICATION" /\ x.machines = M /\ x.pstate = p
    BY DEF Msg
<1>. HIDE DEF x
<1>3. /\ Written' = Written /\ Groups' = Groups /\ aborted' = aborted
      /\ \A m : Ungrouped(m)' = Ungrouped(m) /\ NoSwitcher(m)' = NoSwitcher(m)
      /\ \A m : NotAcked(m)' = NotAcked(m)
    BY DEF Written, Groups, Ungrouped, NoSwitcher, NotAcked
<1>4. /\ \A m \in Machines \ M : wanted'[m] = wanted[m]
      /\ \A m \in M : wanted'[m] = p /\ wanted[m] = NoPState
    BY DEF Settled
<1>5. \A m \in M : Ungrouped(m) /\ NotAcked(m) /\ pstate[m] = known[m]
  <2>. TAKE m \in M
  <2>1. wanted[m] = NoPState /\ NoPState \notin PStates
      BY <1>4, MachinesAssumption
  <2>2. Ungrouped(m)
    <3>1. \A g \in Groups : g.target \in PStates
        BY MemberTypes DEF MachineFacts
    <3>. QED
        BY <2>1, <3>1 DEF Ungrouped, MachineFacts, GroupsSound
  <2>3. NotAcked(m)
      BY <2>1 DEF NotAcked, MachineFacts, AcksSound
  <2>. QED
      BY <2>1, <2>2, <2>3 DEF MachineFacts, KnownRight
<1>6. MachineTypes'
    BY <1>1 DEF MachineFacts, MachineTypes
<1>7. MachineMail'
  <2>1. \A y \in Mail : y.type \notin Decisions
      BY DEF Mail, Deciding
  <2>2. \A y \in Mail : ~Conflict(y, x)
      BY <1>2, <2>1 DEF Conflict, EventMessages
  <2>. QED
      BY <1>1, <2>1, <2>2 DEF MachineFacts, MachineMail, Deciding
<1>8. \A m : NotSwitched(m)' = NotSwitched(m)
    BY <1>1, <1>2 DEF NotSwitched
<1>9. RequestsFresh'
  <2>1. \A y \in Mail : y.type # "PSTATE_MODIFICATION"
      BY DEF Mail, Deciding, Decisions
  <2>. QED
      BY <1>1, <1>2, <1>3, <1>4, <1>5, <2>1
         DEF RequestsFresh, MachineFacts, MachineTypes
<1>10. GroupsSound'
  <2>1. \A g \in Groups : \A m \in g.all : wanted'[m] = wanted[m]
    <3>1. \A g \in Groups : g.all \subseteq Machines
        BY MemberTypes DEF MachineFacts
    <3>. QED
        BY <1>4, <1>5, <3>1 DEF Ungrouped
  <2>. QED
      BY <1>3, <1>8, <2>1 DEF GroupsSound, MachineFacts
<1>11. SwitchersSound'
    BY <1>3, <1>8 DEF SwitchersSound, MachineFacts
<1>12. SwitchedSound'
    BY <1>1, <1>2, <1>3 DEF SwitchedSound, MachineFacts
<1>13. AcksSound'
  <2>1. \A e \in Written : e.type = "RESOURCE_STATE_CHANGED" =>
          \A m \in e.machines : wanted'[m] = wanted[m]
    <3>1. \A e \in Written : e.machines \subseteq Machines
        BY MemberTypes DEF MachineFacts
    <3>. QED
        BY <1>4, <1>5, <3>1 DEF NotAcked
  <2>. QED
      BY <1>3, <2>1 DEF AcksSound, MachineFacts
<1>14. KnownRight'
  <2>1. NoPState \notin PStates
      BY MachinesAssumption
  <2>. QED
      BY <1>4, <2>1 DEF KnownRight, MachineFacts
<1>15. JobsSound'
    BY <1>1, <1>2, <1>3 DEF JobsSound, NotCompleted, MachineFacts
<1>16. EventsSound'
    BY <1>1, <1>2 DEF EventsSound, MachineFacts
<1>17. StateMatchesPState'
    BY DEF StateMatchesPState, MachineFacts, Busy
<1>18. AvailabilityFollowsEvents'
  <2>1. Available'
      BY <1>1, <1>2, FactsNow DEF Available
  <2>. QED
      BY <2>1, AvailableNext
<1>. QED
    BY <1>6, <1>7, <1>9, <1>10, <1>11, <1>12, <1>13, <1>14, <1>15, <1>16, <1>17,
       <1>18 DEF MachineFacts

\* A job is sent to machines that no other job of the scheduler uses.
LEMMA ExecuteJobKeeps ==
    ASSUME MachineFacts, aborted = "no", NEW M \in SUBSET Machines,
           SchedExecuteJob(M)
    PROVE  MachineFacts'
<1>. DEFINE x == Msg("SCHED_EXECUTE_JOB", M, NoPState)
<1>. USE DEF SchedExecuteJob
<1>1. /\ mailbox' \in Seq(Message) /\ Mail' = Mail \cup {x}
      /\ MailApart /\ (\A y \in Mail : ~Conflict(y, x)) => MailApart'
    BY Sent DEF MachineFacts, MachineTypes, MessageTypes
<1>2. x.type = "SCHED_EXECUTE_JOB" /\ x.machines = M /\ x.pstate = NoPState
    BY DEF Msg
<1>. HIDE DEF x
<1>3. /\ Written' = Written /\ Groups' = Groups /\ aborted' = aborted
      /\ \A m : Ungrouped(m)' = Ungrouped(m) /\ NoSwitcher(m)' = NoSwitcher(m)
      /\ \A m : NotAcked(m)' = NotAcked(m) /\ NotSwitched(m)' = NotSwitched(m)
    BY <1>1, <1>2 DEF Written, Groups, Ungrouped, NoSwitcher, NotAcked, NotSwitched
<1>4. \A m \in M : /\ wanted[m] = NoPState /\ pstate[m] \in Computation
                   /\ m \in Machines /\ m \notin UNION using
    BY DEF Settled, MachineFacts, KnownRight
<1>5. using' = using \cup {M} /\ UNION using' = M \cup UNION using
    OBVIOUS
<1>6. MachineTypes'
    BY <1>1 DEF MachineFacts, MachineTypes
<1>7. \A y \in Mail : y.type \notin Decisions
    BY DEF Mail, Deciding
<1>8. MachineMail'
  <2>1. \A y \in Mail : ~Conflict(y, x)
      BY <1>2, <1>7 DEF Conflict, EventMessages
  <2>. QED
      BY <1>1, <1>7, <2>1 DEF MachineFacts, MachineMail, Deciding
<1>9. RequestsFresh'
    BY <1>1, <1>2, <1>7 DEF RequestsFresh, Decisions
<1>10. GroupsSound'
    BY <1>3 DEF GroupsSound, MachineFacts
<1>11. SwitchersSound'
  <2>1. \A a \in switchers : a.machine \notin M
    <3>1. \A a \in switchers : wanted[a.machine] \in PStates
        BY MemberTypes DEF MachineFacts, SwitchersSound, GroupsSound
    <3>. QED
        BY <1>4, <3>1, MachinesAssumption
  <2>. QED
      BY <1>3, <1>5, <2>1 DEF SwitchersSound, MachineFacts
<1>12. SwitchedSound'
    BY <1>1, <1>2, <1>3 DEF SwitchedSound, MachineFacts
<1>13. AcksSound'
    BY <1>3 DEF AcksSound, MachineFacts
<1>14. KnownRight'
    BY DEF KnownRight, MachineFacts
<1>15. JobsSound'
  <2>1. M # {} /\ M \notin using /\ \A J \in using : J \cap M = {}
      BY <1>4
  <2>2. \A J, K \in using' : J # K => J \cap K = {}
      BY <1>5, <2>1 DEF JobsSound, MachineFacts
  <2>3. \A y \in Mail \cup Written : y.type = "JOB_COMPLETED" => y.machines # M
      BY <2>1 DEF JobsSound, MachineFacts
  <2>4. {} \notin using' /\ computing' \subseteq using'
        /\ \A m \in UNION using' : pstate'[m] \in Computation
      BY <1>4, <1>5, <2>1 DEF JobsSound, MachineFacts
  <2>5. \A y \in Mail' : y.type = "SCHED_EXECUTE_JOB" =>
          y.machines \in using' \ computing' /\ NotCompleted(y.machines)'
    <3>1. \A y \in Mail' : y.type = "SCHED_EXECUTE_JOB" => y = x
        BY <1>1, <1>7 DEF Decisions
    <3>2. M \in using' \ computing'
        BY <1>5, <2>1 DEF JobsSound, MachineFacts
    <3>3. NotCompleted(M)'
        BY <1>1, <1>2, <1>3, <2>3 DEF NotCompleted
    <3>. QED
        BY <1>2, <3>1, <3>2, <3>3
  <2>6. \A y \in Mail' \cup Written' : y.type = "JOB_COMPLETED" =>
          y.machines \in using' \ computing'
      BY <1>1, <1>2, <1>3, <1>5 DEF JobsSound, MachineFacts
  <2>. QED
      BY <2>2, <2>4, <2>5, <2>6 DEF JobsSound
<1>16. EventsSound'
    BY <1>1, <1>2 DEF EventsSound, MachineFacts
<1>17. StateMatchesPState'
    BY DEF StateMatchesPState, MachineFacts, Busy
<1>18. AvailabilityFollowsEvents'
    BY <1>1, <1>2, FactsNow, AvailableNext DEF Available
<1>. QED
    BY <1>6, <1>8, <1>9, <1>10, <1>11, <1>12, <1>13, <1>14, <1>15, <1>16, <1>17,
       <1>18 DEF MachineFacts

\* The end of the answer is the only decision in the mailbox.
LEMMA SchedReadyKeeps ==
    ASSUME MachineFacts, aborted = "no", SchedReady
    PROVE  MachineFacts'
<1>. DEFINE x == Msg("SCHED_READY", {}, NoPState)
<1>. USE DEF SchedReady
<1>1. /\ mailbox' \in Seq(Message) /\ Mail' = Mail \cup {x}
      /\ MailApart /\ (\A y \in Mail : ~Conflict(y, x)) => MailApart'
    BY Sent DEF MachineFacts, MachineTypes, MessageTypes
<1>2. x.type = "SCHED_READY"
    BY DEF Msg
<1>. HIDE DEF x
<1>3. /\ Written' = Written /\ Groups' = Groups /\ aborted' = aborted
      /\ \A m : Ungrouped(m)' = Ungrouped(m) /\ NoSwitcher(m)' = NoSwitcher(m)
      /\ \A m : NotAcked(m)' = NotAcked(m) /\ NotSwitched(m)' = NotSwitched(m)
      /\ \A J : NotCompleted(J)' = NotCompleted(J)
    BY <1>1, <1>2 DEF Written, Groups, Ungrouped, NoSwitcher, NotAcked, NotSwitched,
                      NotCompleted
<1>4. MachineTypes'
    BY <1>1 DEF MachineFacts, MachineTypes
<1>5. MachineMail'
  <2>1. \A y \in Mail : y.type \notin Decisions
      BY DEF Mail, Deciding
  <2>2. \A y \in Mail : ~Conflict(y, x)
      BY <1>2, <2>1 DEF Conflict, EventMessages
  <2>. QED
      BY <1>1, <2>1, <2>2 DEF MachineFacts, MachineMail, Deciding
<1>6. RequestsFresh'
    BY <1>1, <1>2, <1>3 DEF RequestsFresh, MachineFacts
<1>7. GroupsSound' /\ SwitchersSound' /\ AcksSound' /\ KnownRight'
    BY <1>3 DEF GroupsSound, SwitchersSound, AcksSound, KnownRight, MachineFacts
<1>8. SwitchedSound'
    BY <1>1, <1>2, <1>3 DEF SwitchedSound, MachineFacts
<1>9. JobsSound'
    BY <1>1, <1>2, <1>3 DEF JobsSound, MachineFacts
<1>10. EventsSound' /\ StateMatchesPState'
    BY <1>1, <1>2 DEF EventsSound, StateMatchesPState, Busy, MachineFacts
<1>11. AvailabilityFollowsEvents'
    BY <1>1, <1>2, FactsNow, AvailableNext DEF Available
<1>. QED
    BY <1>4, <1>5, <1>6, <1>7, <1>8, <1>9, <1>10, <1>11 DEF MachineFacts

\* An event reaches the mailbox and changes what the event list has done.
LEMMA EventSubmitterKeeps ==
    ASSUME MachineFacts, aborted = "no", NEW M \in SUBSET Failing,
           EventSubmitter(M)
    PROVE  MachineFacts'
<1>. DEFINE type == IF M \cap down = {} THEN "EVENT_UNAVAILABLE"
                    ELSE "EVENT_AVAILABLE"
            x == Msg(type, M, NoPState)
<1>1. /\ type \in EventMessages /\ Send(type, M, NoPState)
      /\ type = "EVENT_UNAVAILABLE" => M \cap down = {} /\ down' = down \cup M
      /\ type = "EVENT_AVAILABLE" => M \subseteq down /\ down' = down \ M
  <2>1. M # {}
      BY DEF EventSubmitter
  <2>2. CASE M \cap down = {}
      BY <2>1, <2>2 DEF EventSubmitter, EventMessages
  <2>3. CASE M \cap down # {}
      BY <2>3 DEF EventSubmitter, EventMessages
  <2>. QED
      BY <2>2, <2>3
<1>. HIDE DEF type
<1>2. /\ mailbox' \in Seq(Message) /\ Mail' = Mail \cup {x}
      /\ MailApart /\ (\A y \in Mail : ~Conflict(y, x)) => MailApart'
  <2>1. M \in SUBSET Machines /\ type \in MessageTypes
      BY <1>1, MachinesAssumption DEF EventMessages, MessageTypes
  <2>. QED
      BY <1>1, <2>1, Sent DEF MachineFacts, MachineTypes
<1>3. x.type = type /\ x.machines = M
    BY DEF Msg
<1>. HIDE DEF x
<1>4. UNCHANGED <<machineVars, switchVars, proto_writer, aborted, sched_ready,
                  schedVars>>
    BY DEF EventSubmitter
<1>5. x.type \notin {"JOB_COMPLETED", "SWITCHED", "SCHED_EXECUTE_JOB",
                     "PSTATE_MODIFICATION"} \cup Decisions
    BY <1>1, <1>3 DEF EventMessages, Decisions
<1>6. /\ Written' = Written /\ Groups' = Groups /\ aborted' = aborted
      /\ \A m : Ungrouped(m)' = Ungrouped(m) /\ NoSwitcher(m)' = NoSwitcher(m)
      /\ \A m : NotAcked(m)' = NotAcked(m) /\ NotSwitched(m)' = NotSwitched(m)
      /\ \A J : NotCompleted(J)' = NotCompleted(J)
    BY <1>2, <1>4, <1>5 DEF Written, Groups, Ungrouped, NoSwitcher, NotAcked,
                            NotSwitched, NotCompleted
<1>7. MachineTypes'
  <2>1. down' \subseteq Failing
      BY <1>1 DEF MachineFacts, MachineTypes, EventMessages
  <2>. QED
      BY <1>2, <1>4, <2>1 DEF MachineFacts, MachineTypes
<1>8. \A y \in Mail : y.type \notin EventMessages
    BY DEF EventSubmitter, Mail, EventMessages
<1>9. MachineMail'
  <2>1. \A y \in Mail : ~Conflict(y, x)
      BY <1>5, <1>8 DEF Conflict
  <2>. QED
      BY <1>2, <1>4, <1>5, <2>1 DEF MachineFacts, MachineMail
<1>10. RequestsFresh'
    BY <1>2, <1>4, <1>5, <1>6 DEF RequestsFresh, MachineFacts
<1>11. GroupsSound' /\ SwitchersSound' /\ AcksSound' /\ KnownRight'
    BY <1>4, <1>6 DEF GroupsSound, SwitchersSound, AcksSound, KnownRight,
                      MachineFacts
<1>12. SwitchedSound'
    BY <1>2, <1>4, <1>5, <1>6 DEF SwitchedSound, MachineFacts
<1>13. JobsSound'
    BY <1>2, <1>4, <1>5, <1>6 DEF JobsSound, MachineFacts
<1>14. EventsSound'
  <2>1. \A y \in Mail' : y.type \in EventMessages => y = x
      BY <1>2, <1>8
  <2>2. \A y \in Mail' : /\ y.type = "EVENT_UNAVAILABLE" => y.machines \subseteq down'
                         /\ y.type = "EVENT_AVAILABLE"
                              => y.machines \subseteq Failing \ down'
      BY <1>1, <1>3, <2>1 DEF EventMessages
  <2>. QED
      BY <1>4, <2>2 DEF EventsSound, MachineFacts
<1>15. StateMatchesPState'
    BY <1>4 DEF StateMatchesPState, Busy, MachineFacts
<1>16. Available'
  <2>1. \A m \in Machines : machine_state[m] = "UNAVAILABLE" <=> m \in down
      BY <1>8, FactsNow DEF Available, EventMessages
  <2>2. CASE type = "EVENT_UNAVAILABLE"
      BY <1>1, <1>2, <1>3, <1>4, <1>8, <2>1, <2>2 DEF Available, EventMessages
  <2>3. CASE type = "EVENT_AVAILABLE"
      BY <1>1, <1>2, <1>3, <1>4, <1>8, <2>1, <2>3 DEF Available, EventMessages
  <2>. QED
      BY <1>1, <2>2, <2>3 DEF EventMessages
<1>. QED
    BY <1>7, <1>9, <1>10, <1>11, <1>12, <1>13, <1>14, <1>15, <1>16, AvailableNext
       DEF MachineFacts
-----------------------------------------------------------------------------
(* The steps of the actors on the machines.                                *)

\* The machine of a switcher: its switch waits for it, nothing else does.
LEMMA SwitcherFacts ==
    ASSUME MachineFacts, NEW a \in switchers
    PROVE  LET m == a.machine
           IN  /\ m \in Machines /\ m \in Switchable /\ wanted[m] = a.target
               /\ wanted[m] \in PStates /\ ~Ungrouped(m) /\ NotAcked(m)
               /\ NotSwitched(m) /\ m \notin UNION using
               /\ machine_state[m] = Transition(a.target)
               /\ machine_state[m] \in {"SWITCHING_ON", "SWITCHING_OFF"}
               /\ \A g \in Groups : m \in g.all => m \in g.switching
               /\ \E g \in Groups : g.target = a.target /\ m \in g.switching
<1>. DEFINE m == a.machine
<1>1. /\ NotSwitched(m) /\ m \notin UNION using
      /\ machine_state[m] = Transition(a.target)
      /\ \E g \in Groups : g.target = a.target /\ m \in g.switching
    BY DEF MachineFacts, SwitchersSound
<1>2. PICK g \in Groups : g.target = a.target /\ m \in g.switching
    BY <1>1
<1>3. m \in g.all /\ m \in Switchable /\ wanted[m] = a.target /\ NotAcked(m)
    BY <1>2 DEF MachineFacts, GroupsSound
<1>4. \A h \in Groups : m \in h.all => m \in h.switching
    BY DEF MachineFacts, GroupsSound, NoSwitcher
<1>5. m \in Machines /\ a.target \in PStates
    BY MemberTypes DEF MachineFacts
<1>6. Transition(a.target) \in {"SWITCHING_ON", "SWITCHING_OFF"}
    BY DEF Transition
<1>. QED
    BY <1>1, <1>2, <1>3, <1>4, <1>5, <1>6 DEF Ungrouped

\* A switch process starts: its machine is in transition and computes nothing,
\* so its assertion holds.
LEMMA SwitchBeginKeeps ==
    ASSUME MachineFacts, aborted = "no", NEW a \in switchers, SwitchBegin(a)
    PROVE  aborted' = "no" /\ MachineFacts'
<1>. DEFINE n == a.machine
            b == [a EXCEPT !.pc = "executing"]
<1>. USE DEF SwitchBegin
<1>1. /\ n \in Machines /\ n \in Switchable /\ wanted[n] = a.target
      /\ wanted[n] \in PStates /\ ~Ungrouped(n) /\ NotAcked(n)
      /\ NotSwitched(n) /\ n \notin UNION using
      /\ machine_state[n] = Transition(a.target)
      /\ machine_state[n] \in {"SWITCHING_ON", "SWITCHING_OFF"}
      /\ \A g \in Groups : n \in g.all => n \in g.switching
      /\ \E g \in Groups : g.target = a.target /\ n \in g.switching
    BY SwitcherFacts
<1>2. /\ b \in Switcher /\ b.machine = n /\ b.target = a.target
  <2>1. a \in Switcher
      BY DEF MachineFacts, MachineTypes
  <2>. QED
      BY <2>1 DEF Switcher
<1>. HIDE DEF b
<1>3. aborted' = "no"
  <2>1. n \notin Busy
      BY <1>1 DEF Busy, MachineFacts, JobsSound
  <2>. QED
      BY <1>1, <2>1
<1>4. /\ switchers' = (switchers \ {a}) \cup {b}
      /\ pstate' = [pstate EXCEPT ![n] = Virtual]
      /\ \A m \in Machines : m # n => pstate'[m] = pstate[m]
      /\ pstate'[n] = Virtual
  <2>1. switchers' = (switchers \ {a}) \cup {b}
      BY DEF b
  <2>. QED
      BY <1>1, <2>1 DEF MachineFacts, MachineTypes
<1>5. /\ Mail' = Mail /\ Written' = Written /\ Groups' = Groups
      /\ \A m : Ungrouped(m)' = Ungrouped(m) /\ NotAcked(m)' = NotAcked(m)
      /\ \A m : NotSwitched(m)' = NotSwitched(m)
      /\ \A J : NotCompleted(J)' = NotCompleted(J)
    BY DEF Mail, Written, Groups, Ungrouped, NotAcked, NotSwitched, NotCompleted
<1>6. \A m : NoSwitcher(m)' <=> NoSwitcher(m)
    BY <1>2, <1>4 DEF NoSwitcher
<1>7. MachineTypes'
    BY <1>2, <1>4 DEF MachineFacts, MachineTypes
<1>8. MachineMail'
    BY <1>5 DEF MachineFacts, MachineMail, MailApart
<1>9. RequestsFresh'
  <2>1. \A x \in Mail : x.type = "PSTATE_MODIFICATION"
          => \A m \in x.machines : m # n /\ m \in Machines
      BY <1>1, MemberTypes DEF RequestsFresh, MachineFacts
  <2>. QED
      BY <1>4, <1>5, <2>1 DEF RequestsFresh, MachineFacts
<1>10. GroupsSound'
  <2>1. \A g \in Groups : \A m \in g.all \ g.switching : m # n /\ m \in Machines
      BY <1>1, MemberTypes DEF MachineFacts
  <2>. QED
      BY <1>4, <1>5, <1>6, <2>1 DEF GroupsSound, MachineFacts
<1>11. SwitchersSound'
  <2>. SUFFICES ASSUME NEW c \in switchers'
                PROVE  /\ \E g \in Groups : g.target = c.target /\ c.machine \in g.switching
                       /\ NotSwitched(c.machine) /\ c.machine \notin UNION using
                       /\ machine_state[c.machine] = Transition(c.target)
                       /\ \A d \in switchers' : d.machine = c.machine => d = c
      BY <1>5 DEF SwitchersSound
  <2>1. CASE c = b
      BY <1>1, <1>2, <1>4, <2>1 DEF SwitchersSound, MachineFacts
  <2>2. CASE c \in switchers \ {a}
      BY <1>2, <1>4, <2>2 DEF SwitchersSound, MachineFacts
  <2>. QED
      BY <1>4, <2>1, <2>2
<1>12. SwitchedSound'
  <2>1. \A x \in Mail : x.type = "SWITCHED" => n \notin x.machines
      BY <1>1 DEF NotSwitched
  <2>. QED
      BY <1>4, <1>5, <2>1 DEF SwitchedSound, MachineFacts
<1>13. AcksSound'
  <2>1. \A e \in Written : e.type = "RESOURCE_STATE_CHANGED"
          => \A m \in e.machines : m # n /\ m \in Machines
      BY <1>1, MemberTypes DEF NotAcked, MachineFacts
  <2>. QED
      BY <1>4, <1>5, <2>1 DEF AcksSound, MachineFacts
<1>14. KnownRight'
  <2>1. wanted[n] # NoPState
      BY <1>1, MachinesAssumption
  <2>. QED
      BY <1>4, <2>1 DEF KnownRight, MachineFacts
<1>15. JobsSound'
  <2>1. \A m \in UNION using : m # n /\ m \in Machines
      BY <1>1, MemberTypes DEF MachineFacts
  <2>. QED
      BY <1>4, <1>5, <2>1 DEF JobsSound, MachineFacts
<1>16. EventsSound'
    BY <1>1, <1>4, <1>5 DEF EventsSound, MachineFacts
<1>17. StateMatchesPState'
  <2>1. \A m : (\E c \in switchers' : c.machine = m)
             <=> (\E c \in switchers : c.machine = m)
      BY <1>6 DEF NoSwitcher
  <2>. QED
      BY <1>1, <1>4, <2>1 DEF StateMatchesPState, MachineFacts, Busy
<1>18. AvailabilityFollowsEvents'
    BY <1>5, FactsNow, AvailableNext DEF Available
<1>. QED
    BY <1>3, <1>7, <1>8, <1>9, <1>10, <1>11, <1>12, <1>13, <1>14, <1>15, <1>16,
       <1>17, <1>18 DEF MachineFacts

\* A switch process ends: its machine is in the pstate it was switched to, and
\* the server will hear of it.
LEMMA SwitchEndKeeps ==
    ASSUME MachineFacts, aborted = "no", NEW a \in switchers, SwitchEnd(a)
    PROVE  aborted' = "no" /\ MachineFacts'
<1>. DEFINE n == a.machine
            x == Msg("SWITCHED", {n}, a.target)
<1>. USE DEF SwitchEnd
<1>1. /\ n \in Machines /\ n \in Switchable /\ wanted[n] = a.target
      /\ wanted[n] \in PStates /\ ~Ungrouped(n) /\ NotAcked(n)
      /\ NotSwitched(n) /\ n \notin UNION using
      /\ machine_state[n] = Transition(a.target)
      /\ machine_state[n] \in {"SWITCHING_ON", "SWITCHING_OFF"}
      /\ \A g \in Groups : n \in g.all => n \in g.switching
      /\ \E g \in Groups : g.target = a.target /\ n \in g.switching
    BY SwitcherFacts
<1>2. /\ mailbox' \in Seq(Message) /\ Mail' = Mail \cup {x}
      /\ MailApart /\ (\A y \in Mail : ~Conflict(y, x)) => MailApart'
  <2>1. {n} \in SUBSET Machines /\ a.target \in PStates \cup {NoPState}
        /\ "SWITCHED" \in MessageTypes
      BY <1>1 DEF MessageTypes
  <2>2. Send("SWITCHED", {n}, a.target) /\ mailbox \in Seq(Message)
      BY DEF MachineFacts, MachineTypes
  <2>. QED
      BY <2>1, <2>2, Sent
<1>3. x.type = "SWITCHED" /\ x.machines = {n} /\ x.pstate = a.target
    BY DEF Msg
<1>. HIDE DEF x
<1>4. /\ switchers' = switchers \ {a} /\ aborted' = "no"
      /\ \A m \in Machines : /\ m # n => pstate'[m] = pstate[m]
                             /\ m # n => machine_state'[m] = machine_state[m]
      /\ pstate' = [pstate EXCEPT ![n] = a.target]
      /\ pstate'[n] = a.target /\ machine_state'[n] = StateIn(a.target)
    BY <1>1 DEF MachineFacts, MachineTypes, UpdateState
<1>5. StateIn(a.target) \in {"IDLE", "SLEEPING"}
    BY DEF StateIn
<1>6. /\ Written' = Written /\ Groups' = Groups
      /\ \A m : Ungrouped(m)' = Ungrouped(m) /\ NotAcked(m)' = NotAcked(m)
      /\ \A m : NotSwitched(m) /\ m # n => NotSwitched(m)'
      /\ \A J : NotCompleted(J)' = NotCompleted(J)
    BY <1>2, <1>3 DEF Written, Groups, Ungrouped, NotAcked, NotSwitched, NotCompleted
<1>7. /\ \A m : NoSwitcher(m) => NoSwitcher(m)'
      /\ \A m : m # n => (NoSwitcher(m)' <=> NoSwitcher(m))
      /\ NoSwitcher(n)'
  <2>1. \A c \in switchers : c.machine = n => c = a
      BY DEF MachineFacts, SwitchersSound
  <2>2. \A m : m # n => (NoSwitcher(m)' <=> NoSwitcher(m))
      BY <1>4 DEF NoSwitcher
  <2>3. NoSwitcher(n)'
      BY <1>4, <2>1 DEF NoSwitcher
  <2>4. \A m : NoSwitcher(m) => NoSwitcher(m)'
      BY <1>4 DEF NoSwitcher
  <2>. HIDE DEF n
  <2>. QED
      BY <2>2, <2>3, <2>4
<1>8. MachineTypes'
  <2>1. machine_state' \in [Machines -> States]
      BY <1>5 DEF MachineFacts, MachineTypes, UpdateState, States
  <2>. QED
      BY <1>1, <1>2, <1>4, <2>1 DEF MachineFacts, MachineTypes
<1>9. MachineMail'
  <2>1. \A y \in Mail : ~Conflict(y, x)
      BY <1>1, <1>3 DEF Conflict, NotSwitched, Decisions, EventMessages
  <2>. QED
      BY <1>2, <1>3, <2>1 DEF MachineFacts, MachineMail, Decisions
<1>10. RequestsFresh'
  <2>1. \A y \in Mail : y.type = "PSTATE_MODIFICATION"
          => \A m \in y.machines : m # n /\ m \in Machines
      BY <1>1, MemberTypes DEF RequestsFresh, MachineFacts
  <2>. QED
      BY <1>2, <1>3, <1>4, <1>6, <2>1 DEF RequestsFresh, MachineFacts
<1>11. GroupsSound'
  <2>1. \A g \in Groups : \A m \in g.all \ g.switching : m # n /\ m \in Machines
      BY <1>1, MemberTypes DEF MachineFacts
  <2>. QED
      BY <1>4, <1>6, <1>7, <2>1 DEF GroupsSound, MachineFacts
<1>12. SwitchersSound'
  <2>1. \A c \in switchers' : c.machine # n /\ c \in switchers
                              /\ c.machine \in Machines
      BY <1>4, MemberTypes DEF SwitchersSound, MachineFacts
  <2>. QED
      BY <1>4, <1>6, <2>1 DEF SwitchersSound, MachineFacts
<1>13. SwitchedSound'
  <2>1. \A y \in Mail : y.type = "SWITCHED" => n \notin y.machines
      BY <1>1 DEF NotSwitched
  <2>. QED
      BY <1>1, <1>2, <1>3, <1>4, <1>6, <2>1 DEF SwitchedSound, MachineFacts
<1>14. AcksSound'
  <2>1. \A e \in Written : e.type = "RESOURCE_STATE_CHANGED"
          => \A m \in e.machines : m # n /\ m \in Machines
      BY <1>1, MemberTypes DEF NotAcked, MachineFacts
  <2>. QED
      BY <1>4, <1>6, <2>1 DEF AcksSound, MachineFacts
<1>15. KnownRight'
  <2>1. wanted[n] # NoPState
      BY <1>1, MachinesAssumption
  <2>. QED
      BY <1>4, <2>1 DEF KnownRight, MachineFacts
<1>16. JobsSound'
  <2>1. \A m \in UNION using : m # n /\ m \in Machines
      BY <1>1, MemberTypes DEF MachineFacts
  <2>. QED
      BY <1>2, <1>3, <1>4, <1>6, <2>1 DEF JobsSound, MachineFacts
<1>17. EventsSound'
    BY <1>1, <1>2, <1>3, <1>4 DEF EventsSound, MachineFacts
<1>18. StateMatchesPState'
  <2>1. \A m : (m # n => ((\E c \in switchers' : c.machine = m)
                             <=> (\E c \in switchers : c.machine = m)))
      BY <1>7 DEF NoSwitcher
  <2>2. ~ \E c \in switchers' : c.machine = n
      BY <1>7 DEF NoSwitcher
  <2>3. n \notin Busy /\ Busy' = Busy
      BY <1>1 DEF Busy, MachineFacts, JobsSound
  <2>4. /\ machine_state'[n] = "IDLE" => pstate'[n] \in Computation
        /\ machine_state'[n] = "SLEEPING" => pstate'[n] \in Sleep
      BY <1>1, <1>4 DEF StateIn, PStates
  <2>. QED
      BY <1>4, <1>5, <2>1, <2>2, <2>3, <2>4 DEF StateMatchesPState, MachineFacts
<1>19. AvailabilityFollowsEvents'
  <2>1. \A m \in Machines : machine_state'[m] = "UNAVAILABLE"
                              <=> machine_state[m] = "UNAVAILABLE"
      BY <1>1, <1>4, <1>5
  <2>. QED
      BY <1>2, <1>3, <2>1, FactsNow, AvailableNext DEF Available
<1>. QED
    BY <1>4, <1>8, <1>9, <1>10, <1>11, <1>12, <1>13, <1>14, <1>15, <1>16, <1>17,
       <1>18, <1>19 DEF MachineFacts

\* A job ends: its machines become idle, unless they are unavailable.
LEMMA JobEndKeeps ==
    ASSUME MachineFacts, aborted = "no", NEW J \in computing, JobEnd(J)
    PROVE  aborted' = "no" /\ MachineFacts'
<1>. DEFINE x == Msg("JOB_COMPLETED", J, NoPState)
<1>. USE DEF JobEnd
<1>1. /\ J \in SUBSET Machines /\ J \in using
      /\ \A K \in computing : K # J => J \cap K = {}
      /\ \A K \in computing : K \in SUBSET Machines
    BY MemberTypes DEF MachineFacts, JobsSound
<1>2. /\ mailbox' \in Seq(Message) /\ Mail' = Mail \cup {x}
      /\ MailApart /\ (\A y \in Mail : ~Conflict(y, x)) => MailApart'
    BY <1>1, Sent DEF MachineFacts, MachineTypes, MessageTypes
<1>3. x.type = "JOB_COMPLETED" /\ x.machines = J
    BY DEF Msg
<1>. HIDE DEF x
<1>4. /\ Written' = Written /\ Groups' = Groups /\ aborted' = "no"
      /\ \A m : Ungrouped(m)' = Ungrouped(m) /\ NotAcked(m)' = NotAcked(m)
      /\ \A m : NotSwitched(m)' = NotSwitched(m)
      /\ \A m : NoSwitcher(m)' = NoSwitcher(m)
    BY <1>2, <1>3 DEF Written, Groups, Ungrouped, NotAcked, NotSwitched, NoSwitcher
<1>5. \A m \in Machines : machine_state'[m] =
        IF m \in J /\ machine_state[m] # "UNAVAILABLE" THEN "IDLE"
        ELSE machine_state[m]
    BY DEF UpdateState, Released
<1>6. MachineTypes'
  <2>1. machine_state' \in [Machines -> States]
      BY DEF MachineFacts, MachineTypes, UpdateState, States
  <2>. QED
      BY <1>2, <2>1 DEF MachineFacts, MachineTypes
<1>7. MachineMail'
  <2>1. \A y \in Mail : ~Conflict(y, x)
      BY <1>3 DEF Conflict, Decisions, EventMessages
  <2>. QED
      BY <1>2, <1>3, <2>1 DEF MachineFacts, MachineMail, Decisions
<1>8. RequestsFresh'
    BY <1>2, <1>3, <1>4 DEF RequestsFresh, MachineFacts
<1>9. GroupsSound' /\ AcksSound' /\ KnownRight'
    BY <1>4 DEF GroupsSound, AcksSound, KnownRight, MachineFacts
<1>10. SwitchersSound'
  <2>1. \A c \in switchers : c.machine \notin J /\ c.machine \in Machines
      BY <1>1, MemberTypes DEF SwitchersSound, MachineFacts
  <2>. QED
      BY <1>4, <1>5, <2>1 DEF SwitchersSound, MachineFacts
<1>11. SwitchedSound'
    BY <1>2, <1>3, <1>4 DEF SwitchedSound, MachineFacts
<1>12. JobsSound'
  <2>1. \A y \in Mail' : y.type = "SCHED_EXECUTE_JOB" =>
          y.machines \in using' \ computing' /\ NotCompleted(y.machines)'
    <3>. SUFFICES ASSUME NEW y \in Mail, y.type = "SCHED_EXECUTE_JOB"
                  PROVE  y.machines \in using' \ computing' /\ NotCompleted(y.machines)'
        BY <1>2, <1>3
    <3>1. y.machines \in using \ computing /\ NotCompleted(y.machines)
        BY DEF JobsSound, MachineFacts
    <3>. QED
        BY <1>2, <1>3, <1>4, <3>1 DEF NotCompleted
  <2>2. \A y \in Mail' \cup Written' : y.type = "JOB_COMPLETED" =>
          y.machines \in using' \ computing'
      BY <1>1, <1>2, <1>3, <1>4 DEF JobsSound, MachineFacts
  <2>. QED
      BY <2>1, <2>2 DEF JobsSound, MachineFacts
<1>13. EventsSound'
    BY <1>2, <1>3 DEF EventsSound, MachineFacts
<1>14. StateMatchesPState'
  <2>. SUFFICES ASSUME NEW m \in Machines
                PROVE  /\ machine_state'[m] \in {"IDLE", "COMPUTING"}
                            => pstate[m] \in Computation
                       /\ machine_state'[m] = "SLEEPING" => pstate[m] \in Sleep
                       /\ machine_state'[m] \in {"SWITCHING_ON", "SWITCHING_OFF"}
                            <=> \E c \in switchers : c.machine = m
                       /\ machine_state'[m] = "COMPUTING" => m \in Busy'
                       /\ m \in Busy'
                            => machine_state'[m] \in {"COMPUTING", "UNAVAILABLE"}
      BY DEF StateMatchesPState
  <2>1. /\ machine_state[m] \in {"IDLE", "COMPUTING"} => pstate[m] \in Computation
        /\ machine_state[m] = "SLEEPING" => pstate[m] \in Sleep
        /\ machine_state[m] \in {"SWITCHING_ON", "SWITCHING_OFF"}
             <=> \E c \in switchers : c.machine = m
        /\ machine_state[m] = "COMPUTING" => m \in Busy
        /\ m \in Busy => machine_state[m] \in {"COMPUTING", "UNAVAILABLE"}
      BY DEF StateMatchesPState, MachineFacts
  <2>2. m \in Busy' <=> m \in Busy /\ m \notin J
      BY <1>1 DEF Busy
  <2>3. CASE m \in J
    <3>1. m \in Busy /\ m \notin Busy'
        BY <2>2, <2>3 DEF Busy
    <3>. QED
        BY <1>5, <2>1, <2>3, <3>1
  <2>4. CASE m \notin J
      BY <1>5, <2>1, <2>2, <2>4
  <2>. QED
      BY <2>3, <2>4
<1>15. AvailabilityFollowsEvents'
    BY <1>2, <1>3, <1>5, FactsNow, AvailableNext DEF Available
<1>. QED
    BY <1>4, <1>6, <1>7, <1>8, <1>9, <1>10, <1>11, <1>12, <1>13, <1>14, <1>15
       DEF MachineFacts
-----------------------------------------------------------------------------
(* The handlers of the server.                                             *)

\* Where the switches and the acknowledgements come from when switches sw are
\* marked.
SwitchesFrom(sw, M, p) ==
    LET S == {sw[i] : i \in DOMAIN sw}
    IN  /\ switches' \in Seq(Group) /\ proto_writer' \in Seq(Event)
        /\ Written \subseteq Written'
        /\ \A g \in Groups' : \E h \in S :
             /\ g.target = h.target /\ g.all = h.all
             /\ g.switching = Left(h, M, p) /\ g.switching # {}
        /\ \A h \in S : Left(h, M, p) # {} => \E g \in Groups' :
             /\ g.target = h.target /\ g.switching = Left(h, M, p)
        /\ \A i, k \in DOMAIN switches' :
             i # k => switches'[i].all \cap switches'[k].all = {}
        /\ \A e \in Written' : e \in Written \/
             /\ e.type = "RESOURCE_STATE_CHANGED" /\ e.pstate = p
             /\ \E h \in S : e.machines = h.all /\ Left(h, M, p) = {}
             /\ \A g \in Groups' : e.machines \cap g.all = {}

\* The step that marks switches leads to the sets that SwitchesFrom describes.
LEMMA MarkedSets ==
    ASSUME NEW sw \in Seq(Group), Apart(sw), NEW M,
           NEW p \in PStates \cup {NoPState},
           switches' = Pending(Marked(sw, M, p)),
           proto_writer \in Seq(Event),
           proto_writer' = proto_writer \o Acks(sw, M, p)
    PROVE  SwitchesFrom(sw, M, p)
<1>. DEFINE on == Pending(Marked(sw, M, p))
            acks == Acks(sw, M, p)
            S == {sw[i] : i \in DOMAIN sw}
<1>1. /\ on \in Seq(Group) /\ acks \in Seq(Event)
      /\ \A k \in DOMAIN on : \E i \in DOMAIN sw :
           /\ on[k].target = sw[i].target /\ on[k].all = sw[i].all
           /\ on[k].switching = Left(sw[i], M, p)
           /\ on[k].switching # {}
      /\ \A i \in DOMAIN sw : Left(sw[i], M, p) # {} =>
           \E k \in DOMAIN on :
             /\ on[k].target = sw[i].target /\ on[k].all = sw[i].all
             /\ on[k].switching = Left(sw[i], M, p)
      /\ \A k, l \in DOMAIN on : k # l => on[k].all \cap on[l].all = {}
      /\ \A k \in DOMAIN acks :
           /\ acks[k].type = "RESOURCE_STATE_CHANGED"
           /\ acks[k].pstate = p
           /\ \E i \in DOMAIN sw : /\ acks[k].machines = sw[i].all
                                   /\ Left(sw[i], M, p) = {}
      /\ \A k \in DOMAIN acks : \A l \in DOMAIN on :
           acks[k].machines \cap on[l].all = {}
  <2>1. MarkingSound(sw, M, p)
      BY SwitchesMarked
  <2>. QED
      BY <2>1 DEF MarkingSound
<1>. HIDE DEF on, acks
<1>2. switches' = on
    BY DEF on
<1>3. /\ proto_writer' \in Seq(Event)
      /\ Written' = Written \cup {acks[k] : k \in DOMAIN acks}
  <2>1. proto_writer' = proto_writer \o acks
      BY DEF acks
  <2>. QED
      BY <1>1, <2>1, Wrote
<1>4. Groups' = {on[k] : k \in DOMAIN on}
    BY <1>2 DEF Groups
<1>5. \A g \in Groups' : \E h \in S :
        /\ g.target = h.target /\ g.all = h.all
        /\ g.switching = Left(h, M, p) /\ g.switching # {}
  <2>. SUFFICES ASSUME NEW k \in DOMAIN on
                PROVE  \E h \in S :
                         /\ on[k].target = h.target /\ on[k].all = h.all
                         /\ on[k].switching = Left(h, M, p)
                         /\ on[k].switching # {}
      BY <1>4
  <2>. QED
      BY <1>1
<1>6. \A h \in S : Left(h, M, p) # {} => \E g \in Groups' :
        g.target = h.target /\ g.switching = Left(h, M, p)
  <2>. SUFFICES ASSUME NEW i \in DOMAIN sw, Left(sw[i], M, p) # {}
                PROVE  \E g \in Groups' : /\ g.target = sw[i].target
                                          /\ g.switching = Left(sw[i], M, p)
      OBVIOUS
  <2>1. PICK k \in DOMAIN on : /\ on[k].target = sw[i].target
                               /\ on[k].switching = Left(sw[i], M, p)
      BY <1>1
  <2>. QED
      BY <1>4, <2>1
<1>7. \A i, k \in DOMAIN switches' :
        i # k => switches'[i].all \cap switches'[k].all = {}
    BY <1>1, <1>2
<1>8. \A e \in Written' : e \in Written \/
        /\ e.type = "RESOURCE_STATE_CHANGED" /\ e.pstate = p
        /\ \E h \in S : e.machines = h.all /\ Left(h, M, p) = {}
        /\ \A g \in Groups' : e.machines \cap g.all = {}
  <2>. SUFFICES ASSUME NEW k \in DOMAIN acks
                PROVE  /\ acks[k].type = "RESOURCE_STATE_CHANGED"
                       /\ acks[k].pstate = p
                       /\ \E h \in S : acks[k].machines = h.all /\ Left(h, M, p) = {}
                       /\ \A g \in Groups' : acks[k].machines \cap g.all = {}
      BY <1>3
  <2>1. \E h \in S : acks[k].machines = h.all /\ Left(h, M, p) = {}
      BY <1>1
  <2>2. \A g \in Groups' : acks[k].machines \cap g.all = {}
      BY <1>1, <1>4
  <2>. QED
      BY <1>1, <2>1, <2>2
<1>. QED
    BY <1>1, <1>2, <1>3, <1>5, <1>6, <1>7, <1>8 DEF SwitchesFrom

\* A machine has been switched: it leaves its switch, which ends with its last
\* machine.
LEMMA SwitchedKeeps ==
    ASSUME MachineFacts, aborted = "no", server_on_switched
    PROVE  aborted' = "no" /\ MachineFacts'
<1>. DEFINE h0 == Head(mailbox)
            p == MsgPState
<1>1. /\ mailbox' \in Seq(Message) /\ MailApart'
      /\ h0 \in Mail /\ h0 \in Message /\ h0.type = "SWITCHED"
      /\ p \in PStates \cup {NoPState}
      /\ Mail' \subseteq Mail
      /\ \A x \in Mail : x = h0 \/ x \in Mail'
      /\ \A x \in Mail' : ~Conflict(x, h0)
    BY Received DEF server_on_switched, MachineFacts, MachineTypes, MachineMail
<1>2. PICK n \in Machines : /\ MsgMachines = {n} /\ h0.machines = {n}
                            /\ pstate[n] = p
                            /\ \E g \in Groups : g.target = p /\ n \in g.switching
    BY <1>1 DEF MsgMachines, MsgPState, MachineFacts, SwitchedSound
<1>. HIDE DEF h0, p
<1>3. aborted' = "no"
  <2>1. \E i \in DOMAIN switches : Holds(switches, i, n, p)
      BY <1>2 DEF Groups, Holds
  <2>2. ~NotSwitching(switches, {n}, p)
      BY <2>1 DEF NotSwitching
  <2>. QED
      BY <1>2, <2>2 DEF server_on_switched, p
<1>4. switches \in Seq(Group) /\ Apart(switches)
    BY DEF Apart, MachineFacts, GroupsSound, MachineTypes, Groups
<1>5. /\ switches' \in Seq(Group) /\ proto_writer' \in Seq(Event)
      /\ Written \subseteq Written'
      /\ \A g \in Groups' : \E h \in Groups :
           /\ g.target = h.target /\ g.all = h.all
           /\ g.switching = Left(h, {n}, p) /\ g.switching # {}
      /\ \A h \in Groups : Left(h, {n}, p) # {} => \E g \in Groups' :
           g.target = h.target /\ g.switching = Left(h, {n}, p)
      /\ \A i, k \in DOMAIN switches' :
           i # k => switches'[i].all \cap switches'[k].all = {}
      /\ \A e \in Written' : e \in Written \/
           /\ e.type = "RESOURCE_STATE_CHANGED" /\ e.pstate = p
           /\ \E h \in Groups : e.machines = h.all /\ Left(h, {n}, p) = {}
           /\ \A g \in Groups' : e.machines \cap g.all = {}
  <2>1. /\ switches' = Pending(Marked(switches, {n}, p))
        /\ proto_writer' = proto_writer \o Acks(switches, {n}, p)
      BY <1>2 DEF server_on_switched, p
  <2>2. proto_writer \in Seq(Event)
      BY DEF MachineFacts, MachineTypes
  <2>. QED
      BY <1>1, <1>4, <2>1, <2>2, MarkedSets DEF Groups, SwitchesFrom
<1>6. UNCHANGED <<machineVars, switchers, eventVars, sched_ready, schedVars>>
    BY DEF server_on_switched
<1>7. \A h \in Groups : \A m \in h.switching : m # n => m \in Left(h, {n}, p)
    BY DEF Left
<1>8. NoSwitcher(n)
    BY <1>1, <1>2 DEF NoSwitcher, NotSwitched, MachineFacts, SwitchersSound
<1>9. \A x \in Mail' : x.type = "SWITCHED" => n \notin x.machines
    BY <1>1, <1>2 DEF Conflict
<1>10. /\ \A m : NotSwitched(m) => NotSwitched(m)'
       /\ NotSwitched(n)'
       /\ \A m : NoSwitcher(m)' = NoSwitcher(m)
    BY <1>1, <1>6, <1>9 DEF NotSwitched, NoSwitcher
<1>11. \A m : Ungrouped(m) => Ungrouped(m)' /\ (NotAcked(m) => NotAcked(m)')
    BY <1>5 DEF Ungrouped, NotAcked
<1>12. MachineTypes'
    BY <1>1, <1>5, <1>6 DEF MachineFacts, MachineTypes
<1>13. MachineMail'
    BY <1>1, <1>6 DEF MachineFacts, MachineMail
<1>14. RequestsFresh'
    BY <1>1, <1>6, <1>11 DEF RequestsFresh, MachineFacts
<1>15. GroupsSound'
  <2>1. \A g \in Groups' :
          /\ g.switching # {} /\ g.switching \subseteq g.all
          /\ g.all \subseteq Switchable
          /\ \A m \in g.all : wanted'[m] = g.target /\ NotAcked(m)'
          /\ \A m \in g.all \ g.switching :
               pstate'[m] = g.target /\ NoSwitcher(m)' /\ NotSwitched(m)'
    <3>. TAKE g \in Groups'
    <3>1. PICK h \in Groups : /\ g.target = h.target /\ g.all = h.all
                              /\ g.switching = Left(h, {n}, p)
                              /\ g.switching # {}
        BY <1>5
    <3>2. /\ h.switching \subseteq h.all /\ h.all \subseteq Switchable
          /\ \A m \in h.all : wanted[m] = h.target /\ NotAcked(m)
          /\ \A m \in h.all \ h.switching :
               pstate[m] = h.target /\ NoSwitcher(m) /\ NotSwitched(m)
        BY DEF MachineFacts, GroupsSound
    <3>3. g.switching \subseteq g.all /\ g.all \subseteq Switchable
        BY <3>1, <3>2 DEF Left
    <3>4. \A m \in g.all : NotAcked(m)'
        BY <1>5, <3>1, <3>2 DEF NotAcked
    <3>5. \A m \in g.all \ g.switching :
            pstate[m] = g.target /\ NoSwitcher(m) /\ NotSwitched(m)'
      <4>. TAKE m \in g.all \ g.switching
      <4>1. CASE m \in h.switching
        <5>1. m = n /\ h.target = p
            BY <3>1, <4>1 DEF Left
        <5>. QED
            BY <1>2, <1>8, <1>10, <3>1, <5>1
      <4>2. CASE m \notin h.switching
          BY <1>10, <3>1, <3>2, <4>2
      <4>. QED
          BY <4>1, <4>2
    <3>. QED
        BY <1>6, <1>10, <3>1, <3>2, <3>3, <3>4, <3>5
  <2>. QED
      BY <1>5, <2>1 DEF GroupsSound
<1>16. SwitchersSound'
  <2>1. \A a \in switchers : \E g \in Groups' : g.target = a.target
                                               /\ a.machine \in g.switching
    <3>. TAKE a \in switchers
    <3>1. PICK h \in Groups : h.target = a.target /\ a.machine \in h.switching
        BY DEF MachineFacts, SwitchersSound
    <3>2. a.machine # n
        BY <1>8 DEF NoSwitcher
    <3>3. a.machine \in Left(h, {n}, p)
        BY <1>7, <3>1, <3>2
    <3>. QED
        BY <1>5, <3>1, <3>3
  <2>. QED
      BY <1>6, <1>10, <2>1 DEF SwitchersSound, MachineFacts
<1>17. SwitchedSound'
  <2>. SUFFICES ASSUME NEW x \in Mail', x.type = "SWITCHED"
                PROVE  \E m \in Machines :
                         /\ x.machines = {m} /\ pstate'[m] = x.pstate
                         /\ \E g \in Groups' : g.target = x.pstate /\ m \in g.switching
      BY DEF SwitchedSound
  <2>1. PICK m \in Machines :
          /\ x.machines = {m} /\ pstate[m] = x.pstate
          /\ \E g \in Groups : g.target = x.pstate /\ m \in g.switching
      BY <1>1 DEF MachineFacts, SwitchedSound
  <2>2. PICK h \in Groups : h.target = x.pstate /\ m \in h.switching
      BY <2>1
  <2>3. m \in Left(h, {n}, p)
      BY <1>7, <1>9, <2>1, <2>2
  <2>4. PICK g \in Groups' : g.target = h.target /\ g.switching = Left(h, {n}, p)
      BY <1>5, <2>3
  <2>5. g.target = x.pstate /\ m \in g.switching
      BY <2>2, <2>3, <2>4
  <2>. QED
      BY <1>6, <2>1, <2>5
<1>18. AcksSound'
  <2>. SUFFICES ASSUME NEW e \in Written', e.type = "RESOURCE_STATE_CHANGED",
                       e \notin Written
                PROVE  /\ e.pstate \in PStates
                       /\ \A m \in e.machines : /\ wanted[m] = e.pstate
                                                /\ pstate[m] = e.pstate
      BY <1>6 DEF AcksSound, MachineFacts
  <2>1. PICK h \in Groups : e.machines = h.all /\ Left(h, {n}, p) = {}
      BY <1>5
  <2>2. e.pstate = p
      BY <1>5
  <2>3. /\ h.switching # {}
        /\ \A m \in h.all : wanted[m] = h.target
        /\ \A m \in h.all \ h.switching : pstate[m] = h.target
      BY DEF MachineFacts, GroupsSound
  <2>4. h.target = p /\ h.switching \subseteq {n}
      BY <2>1, <2>3 DEF Left
  <2>5. h.target \in PStates
      BY MemberTypes DEF MachineFacts
  <2>. QED
      BY <1>2, <2>1, <2>2, <2>3, <2>4, <2>5
<1>19. KnownRight' /\ StateMatchesPState'
    BY <1>6 DEF KnownRight, StateMatchesPState, Busy, MachineFacts
<1>20. JobsSound'
  <2>1. \A e \in Written' : e.type = "JOB_COMPLETED" => e \in Written
      BY <1>5
  <2>2. \A J : NotCompleted(J) => NotCompleted(J)'
      BY <1>1, <2>1 DEF NotCompleted
  <2>. QED
      BY <1>1, <1>6, <2>1, <2>2 DEF JobsSound, MachineFacts
<1>21. EventsSound'
    BY <1>1, <1>6 DEF EventsSound, MachineFacts
<1>22. Available'
    BY <1>1, <1>6, FactsNow DEF Available
<1>. QED
    BY <1>3, <1>12, <1>13, <1>14, <1>15, <1>16, <1>17, <1>18, <1>19, <1>20, <1>21,
       <1>22, AvailableNext DEF MachineFacts

\* The assertion on an allocation fails only for an unavailable machine.
LEMMA ExecuteHandlerKeeps ==
    ASSUME MachineFacts, aborted = "no", server_on_execute_job
    PROVE  /\ aborted' \in {"no", "allocation"}
           /\ Failing = {} => aborted' = "no"
           /\ aborted' = "no" => MachineFacts'
<1>. DEFINE h0 == Head(mailbox)
            M == MsgMachines
<1>1. /\ mailbox' \in Seq(Message) /\ MailApart'
      /\ h0 \in Mail /\ h0 \in Message /\ h0.type = "SCHED_EXECUTE_JOB"
      /\ M \in SUBSET Machines
      /\ Mail' \subseteq Mail
      /\ \A x \in Mail : x = h0 \/ x \in Mail'
      /\ \A x \in Mail' : ~Conflict(x, h0)
    BY Received DEF server_on_execute_job, MachineFacts, MachineTypes, MachineMail
<1>2. M = h0.machines
    BY DEF MsgMachines
<1>3. /\ UNCHANGED <<pstate, switchVars, proto_writer, eventVars, sched_ready,
                     schedVars>>
      /\ computing' = computing \cup {M}
      /\ aborted' = IF \E m \in M : \/ m \in Busy
                                    \/ machine_state[m] \notin {"COMPUTING", "IDLE"}
                                    \/ pstate[m] \notin Computation
                    THEN "allocation" ELSE "no"
      /\ machine_state' = [m \in Machines |-> IF m \in M THEN "COMPUTING"
                                              ELSE machine_state[m]]
    BY DEF server_on_execute_job, UpdateState
<1>. HIDE DEF h0, M
<1>4. M \in using \ computing /\ NotCompleted(M)
    BY <1>1, <1>2 DEF MachineFacts, JobsSound
<1>5. \A m \in M : /\ m \in Machines /\ m \in UNION using /\ m \notin Busy
                   /\ pstate[m] \in Computation /\ NoSwitcher(m)
  <2>. TAKE m \in M
  <2>1. m \in Machines /\ m \in UNION using /\ pstate[m] \in Computation
      BY <1>1, <1>4 DEF MachineFacts, JobsSound
  <2>2. m \notin Busy
      BY <1>4 DEF MachineFacts, JobsSound, Busy
  <2>3. NoSwitcher(m)
      BY <2>1 DEF MachineFacts, SwitchersSound, NoSwitcher
  <2>. QED
      BY <2>1, <2>2, <2>3
<1>6. ASSUME NEW m \in M, machine_state[m] \notin {"COMPUTING", "IDLE"}
      PROVE  m \in Failing
  <2>1. /\ machine_state[m] \in States
        /\ machine_state[m] = "SLEEPING" => pstate[m] \in Sleep
        /\ machine_state[m] \in {"SWITCHING_ON", "SWITCHING_OFF"} => ~NoSwitcher(m)
      BY <1>5 DEF MachineFacts, MachineTypes, StateMatchesPState, NoSwitcher
  <2>2. machine_state[m] = "UNAVAILABLE"
      BY <1>5, <1>6, <2>1, MachinesAssumption DEF States
  <2>3. m \in down \/ \E x \in Mail : x.type = "EVENT_AVAILABLE" /\ m \in x.machines
      BY <1>5, <2>2, FactsNow DEF Available
  <2>. QED
      BY <2>3 DEF MachineFacts, MachineTypes, EventsSound
<1>7. Failing = {} => aborted' = "no"
    BY <1>3, <1>5, <1>6
<1>8. ASSUME aborted' = "no" PROVE MachineFacts'
  <2>1. /\ Written' = Written /\ Groups' = Groups
        /\ \A m : Ungrouped(m)' = Ungrouped(m) /\ NotAcked(m)' = NotAcked(m)
        /\ \A m : NotSwitched(m) => NotSwitched(m)'
        /\ \A m : NoSwitcher(m)' = NoSwitcher(m)
        /\ \A J : NotCompleted(J) => NotCompleted(J)'
      BY <1>1, <1>3 DEF Written, Groups, Ungrouped, NotAcked, NotSwitched,
                        NoSwitcher, NotCompleted
  <2>2. \A m \in M : machine_state[m] \in {"COMPUTING", "IDLE"}
      BY <1>3, <1>8
  <2>3. MachineTypes'
    <3>1. machine_state' \in [Machines -> States]
        BY <1>3 DEF MachineFacts, MachineTypes, States
    <3>. QED
        BY <1>1, <1>3, <3>1 DEF MachineFacts, MachineTypes
  <2>4. MachineMail'
      BY <1>1, <1>3 DEF MachineFacts, MachineMail
  <2>5. RequestsFresh'
      BY <1>1, <1>3, <2>1 DEF RequestsFresh, MachineFacts
  <2>6. GroupsSound'
      BY <1>3, <2>1 DEF GroupsSound, MachineFacts
  <2>7. SwitchersSound'
    <3>1. \A a \in switchers : a.machine \notin M /\ a.machine \in Machines
        BY <1>5, MemberTypes DEF NoSwitcher, MachineFacts
    <3>. QED
        BY <1>3, <2>1, <3>1 DEF SwitchersSound, MachineFacts
  <2>8. SwitchedSound'
      BY <1>1, <1>3, <2>1 DEF SwitchedSound, MachineFacts
  <2>9. AcksSound' /\ KnownRight'
      BY <1>3, <2>1 DEF AcksSound, KnownRight, MachineFacts
  <2>10. JobsSound'
    <3>1. \A x \in Mail' : x.type # "SCHED_EXECUTE_JOB"
        BY <1>1 DEF Conflict, Decisions
    <3>2. \A x \in Mail' \cup Written' : x.type = "JOB_COMPLETED" =>
            x.machines \in using' \ computing'
      <4>1. \A x \in Mail \cup Written : x.type = "JOB_COMPLETED" => x.machines # M
          BY <1>4 DEF NotCompleted
      <4>. QED
          BY <1>1, <1>3, <2>1, <4>1 DEF JobsSound, MachineFacts
    <3>. QED
        BY <1>3, <1>4, <3>1, <3>2 DEF JobsSound, MachineFacts
  <2>11. EventsSound'
      BY <1>1, <1>3 DEF EventsSound, MachineFacts
  <2>12. StateMatchesPState'
    <3>1. \A m : m \in Busy' <=> m \in Busy \/ m \in M
        BY <1>3 DEF Busy
    <3>. SUFFICES ASSUME NEW m \in Machines
                  PROVE  /\ machine_state'[m] \in {"IDLE", "COMPUTING"}
                              => pstate[m] \in Computation
                         /\ machine_state'[m] = "SLEEPING" => pstate[m] \in Sleep
                         /\ machine_state'[m] \in {"SWITCHING_ON", "SWITCHING_OFF"}
                              <=> \E c \in switchers : c.machine = m
                         /\ machine_state'[m] = "COMPUTING" => m \in Busy'
                         /\ m \in Busy'
                              => machine_state'[m] \in {"COMPUTING", "UNAVAILABLE"}
        BY <1>3 DEF StateMatchesPState
    <3>2. CASE m \in M
        BY <1>3, <1>5, <3>1, <3>2 DEF NoSwitcher
    <3>3. CASE m \notin M
        BY <1>3, <3>1, <3>3 DEF StateMatchesPState, MachineFacts
    <3>. QED
        BY <3>2, <3>3
  <2>13. Available'
    <3>1. \A m \in Machines : machine_state'[m] = "UNAVAILABLE"
                                <=> machine_state[m] = "UNAVAILABLE"
        BY <1>3, <2>2
    <3>. QED
        BY <1>1, <1>3, <3>1, FactsNow DEF Available
  <2>. QED
      BY <2>3, <2>4, <2>5, <2>6, <2>7, <2>8, <2>9, <2>10, <2>11, <2>12, <2>13,
         AvailableNext DEF MachineFacts
<1>. QED
    BY <1>3, <1>7, <1>8

\* The completion of a job passes from the mailbox to the buffered events.
LEMMA CompletedHandlerKeeps ==
    ASSUME MachineFacts, aborted = "no", server_on_job_completed
    PROVE  aborted' = "no" /\ MachineFacts'
<1>. DEFINE h0 == Head(mailbox)
<1>1. /\ mailbox' \in Seq(Message) /\ MailApart'
      /\ h0 \in Mail /\ h0 \in Message /\ h0.type = "JOB_COMPLETED"
      /\ Mail' \subseteq Mail
      /\ \A x \in Mail : x = h0 \/ x \in Mail'
    BY Received DEF server_on_job_completed, MachineFacts, MachineTypes, MachineMail
<1>2. /\ UNCHANGED <<machineVars, switchVars, aborted, eventVars, sched_ready,
                     schedVars>>
      /\ proto_writer' = Append(proto_writer, h0)
    BY DEF server_on_job_completed
<1>. HIDE DEF h0
<1>3. h0 \in Event
    BY <1>1 DEF Message, Event, EventTypes
<1>4. proto_writer' \in Seq(Event) /\ Written' = Written \cup {h0}
    BY <1>2, <1>3, WroteOne DEF MachineFacts, MachineTypes
<1>5. /\ Groups' = Groups
      /\ \A m : Ungrouped(m)' = Ungrouped(m) /\ NoSwitcher(m)' = NoSwitcher(m)
      /\ \A m : NotAcked(m)' = NotAcked(m)
      /\ \A m : NotSwitched(m) => NotSwitched(m)'
      /\ \A J : NotCompleted(J) => NotCompleted(J)'
  <2>1. \A m : NotAcked(m)' = NotAcked(m)
      BY <1>1, <1>4 DEF NotAcked
  <2>2. \A J : NotCompleted(J) => NotCompleted(J)'
      BY <1>1, <1>4 DEF NotCompleted
  <2>. QED
      BY <1>1, <1>2, <2>1, <2>2 DEF Groups, Ungrouped, NoSwitcher, NotSwitched
<1>6. MachineTypes'
    BY <1>1, <1>2, <1>4 DEF MachineFacts, MachineTypes
<1>7. MachineMail'
    BY <1>1, <1>2 DEF MachineFacts, MachineMail
<1>8. RequestsFresh'
    BY <1>1, <1>2, <1>5 DEF RequestsFresh, MachineFacts
<1>9. GroupsSound' /\ SwitchersSound' /\ KnownRight'
    BY <1>2, <1>5 DEF GroupsSound, SwitchersSound, KnownRight, MachineFacts
<1>10. SwitchedSound'
    BY <1>1, <1>2, <1>5 DEF SwitchedSound, MachineFacts
<1>11. AcksSound'
    BY <1>1, <1>2, <1>4 DEF AcksSound, MachineFacts
<1>12. JobsSound'
    BY <1>1, <1>2, <1>4, <1>5 DEF JobsSound, MachineFacts
<1>13. EventsSound' /\ StateMatchesPState'
    BY <1>1, <1>2 DEF EventsSound, StateMatchesPState, Busy, MachineFacts
<1>14. Available'
    BY <1>1, <1>2, FactsNow DEF Available
<1>. QED
    BY <1>2, <1>6, <1>7, <1>8, <1>9, <1>10, <1>11, <1>12, <1>13, <1>14,
       AvailableNext DEF MachineFacts

\* The server hears that the scheduler is ready: no other decision is waiting.
LEMMA ReadyHandlerKeeps ==
    ASSUME MachineFacts, aborted = "no", server_on_sched_ready
    PROVE  aborted' = "no" /\ MachineFacts'
<1>. DEFINE h0 == Head(mailbox)
<1>1. /\ mailbox' \in Seq(Message) /\ MailApart'
      /\ h0 \in Mail /\ h0.type = "SCHED_READY"
      /\ Mail' \subseteq Mail
      /\ \A x \in Mail : x = h0 \/ x \in Mail'
      /\ \A x \in Mail' : ~Conflict(x, h0)
    BY Received DEF server_on_sched_ready, MachineFacts, MachineTypes, MachineMail
<1>2. /\ UNCHANGED <<machineVars, switchVars, proto_writer, aborted, eventVars,
                     schedVars>>
      /\ sched_ready' = TRUE
    BY DEF server_on_sched_ready
<1>. HIDE DEF h0
<1>3. /\ Groups' = Groups /\ Written' = Written
      /\ \A m : Ungrouped(m)' = Ungrouped(m) /\ NoSwitcher(m)' = NoSwitcher(m)
      /\ \A m : NotAcked(m)' = NotAcked(m)
      /\ \A m : NotSwitched(m) => NotSwitched(m)'
      /\ \A J : NotCompleted(J) => NotCompleted(J)'
    BY <1>1, <1>2 DEF Groups, Written, Ungrouped, NoSwitcher, NotAcked, NotSwitched,
                      NotCompleted
<1>4. MachineTypes'
    BY <1>1, <1>2 DEF MachineFacts, MachineTypes
<1>5. MachineMail'
    BY <1>1 DEF MachineMail, Conflict, Decisions
<1>6. RequestsFresh'
    BY <1>1, <1>2, <1>3 DEF RequestsFresh, MachineFacts
<1>7. GroupsSound' /\ SwitchersSound' /\ AcksSound' /\ KnownRight'
    BY <1>2, <1>3 DEF GroupsSound, SwitchersSound, AcksSound, KnownRight,
                      MachineFacts
<1>8. SwitchedSound'
    BY <1>1, <1>2, <1>3 DEF SwitchedSound, MachineFacts
<1>9. JobsSound'
    BY <1>1, <1>2, <1>3 DEF JobsSound, MachineFacts
<1>10. EventsSound' /\ StateMatchesPState'
    BY <1>1, <1>2 DEF EventsSound, StateMatchesPState, Busy, MachineFacts
<1>11. Available'
    BY <1>1, <1>2, FactsNow DEF Available
<1>. QED
    BY <1>2, <1>4, <1>5, <1>6, <1>7, <1>8, <1>9, <1>10, <1>11, AvailableNext
       DEF MachineFacts

\* What an availability handler leaves alone: it changes the states of the
\* machines of the event, which no switch works on, and tells the scheduler.
LEMMA AvailabilityFrame ==
    ASSUME MachineFacts, aborted = "no", Separate,
           NEW type \in EventMessages, Receive(type),
           NEW told \in {"UNAVAILABLE", "AVAILABLE"}, Notify(told),
           UNCHANGED <<pstate, computing, switchVars, eventVars, sched_ready,
                       schedVars>>,
           machine_state' \in [Machines -> States],
           \A m \in Machines \ MsgMachines : machine_state'[m] = machine_state[m]
    PROVE  /\ MachineTypes' /\ MachineMail' /\ RequestsFresh' /\ GroupsSound'
           /\ SwitchersSound' /\ SwitchedSound' /\ AcksSound' /\ KnownRight'
           /\ JobsSound' /\ EventsSound'
           /\ MsgMachines \subseteq Failing
           /\ \A m \in MsgMachines : NoSwitcher(m) /\ pstate[m] \in Computation
<1>. DEFINE h0 == Head(mailbox)
            M == MsgMachines
            e == Msg(told, M, NoPState)
<1>1. /\ mailbox' \in Seq(Message) /\ MailApart'
      /\ h0 \in Mail /\ h0.type = type /\ M \in SUBSET Machines
      /\ Mail' \subseteq Mail
      /\ \A x \in Mail : x = h0 \/ x \in Mail'
    BY Received DEF MachineFacts, MachineTypes, MachineMail
<1>2. M = h0.machines
    BY DEF MsgMachines
<1>3. e \in Event /\ e.type \in {"UNAVAILABLE", "AVAILABLE"}
    BY <1>1 DEF Msg, Event, EventTypes
<1>4. proto_writer' = Append(proto_writer, e)
    BY DEF Notify
<1>. HIDE DEF h0, M, e
<1>5. proto_writer' \in Seq(Event) /\ Written' = Written \cup {e}
    BY <1>3, <1>4, WroteOne DEF MachineFacts, MachineTypes
<1>6. M \subseteq Failing
    BY <1>1, <1>2 DEF EventMessages, MachineFacts, EventsSound, MachineTypes
<1>7. \A m \in M : NoSwitcher(m) /\ pstate[m] \in Computation
  <2>. TAKE m \in M
  <2>1. m \notin Switchable /\ m \in Machines
      BY <1>1, <1>6 DEF Separate
  <2>2. NoSwitcher(m)
      BY <2>1, SwitcherFacts DEF NoSwitcher
  <2>3. pstate[m] = InitialPState
      BY <2>1 DEF MachineFacts, EventsSound
  <2>. QED
      BY <2>2, <2>3, MachinesAssumption
<1>8. /\ Groups' = Groups
      /\ \A m : Ungrouped(m)' = Ungrouped(m) /\ NoSwitcher(m)' = NoSwitcher(m)
      /\ \A m : NotAcked(m)' = NotAcked(m)
      /\ \A m : NotSwitched(m) => NotSwitched(m)'
      /\ \A J : NotCompleted(J) => NotCompleted(J)'
  <2>1. \A m : NotAcked(m)' = NotAcked(m)
      BY <1>3, <1>5 DEF NotAcked
  <2>2. \A J : NotCompleted(J) => NotCompleted(J)'
      BY <1>1, <1>3, <1>5 DEF NotCompleted
  <2>. QED
      BY <1>1, <2>1, <2>2 DEF Groups, Ungrouped, NoSwitcher, NotSwitched
<1>9. MachineTypes'
    BY <1>1, <1>5 DEF MachineFacts, MachineTypes
<1>10. MachineMail'
    BY <1>1 DEF MachineFacts, MachineMail
<1>11. RequestsFresh'
    BY <1>1, <1>8 DEF RequestsFresh, MachineFacts
<1>12. GroupsSound' /\ KnownRight'
    BY <1>8 DEF GroupsSound, KnownRight, MachineFacts
<1>13. SwitchersSound'
  <2>1. \A a \in switchers : a.machine \in Machines \ M
      BY <1>7, MemberTypes DEF NoSwitcher, MachineFacts
  <2>2. \A a \in switchers : machine_state'[a.machine] = machine_state[a.machine]
      BY <2>1 DEF M
  <2>. QED
      BY <1>8, <2>2 DEF SwitchersSound, MachineFacts
<1>14. SwitchedSound'
    BY <1>1, <1>8 DEF SwitchedSound, MachineFacts
<1>15. AcksSound'
    BY <1>3, <1>5 DEF AcksSound, MachineFacts
<1>16. JobsSound'
    BY <1>1, <1>3, <1>5, <1>8 DEF JobsSound, MachineFacts
<1>17. EventsSound'
    BY <1>1 DEF EventsSound, MachineFacts
<1>. QED
    BY <1>6, <1>7, <1>9, <1>10, <1>11, <1>12, <1>13, <1>14, <1>15, <1>16, <1>17 DEF M

\* Machines become unavailable: none of them was, and no process switches them.
LEMMA UnavailableHandlerKeeps ==
    ASSUME MachineFacts, aborted = "no", Separate,
           server_on_event_machine_unavailable
    PROVE  aborted' = "no" /\ MachineFacts'
<1>. DEFINE h0 == Head(mailbox)
            M == MsgMachines
<1>1. /\ h0 \in Mail /\ h0.type = "EVENT_UNAVAILABLE" /\ M \in SUBSET Machines
      /\ Mail' \subseteq Mail
      /\ \A x \in Mail : x = h0 \/ x \in Mail'
      /\ \A x \in Mail' : ~Conflict(x, h0)
    BY Received DEF server_on_event_machine_unavailable, MachineFacts, MachineTypes,
                    MachineMail
<1>2. M = h0.machines
    BY DEF MsgMachines
<1>3. /\ UNCHANGED <<pstate, computing, switchVars, eventVars, sched_ready,
                     schedVars>>
      /\ Receive("EVENT_UNAVAILABLE") /\ Notify("UNAVAILABLE")
      /\ aborted' = IF \E m \in M : machine_state[m] = "UNAVAILABLE"
                    THEN "unavailable" ELSE "no"
      /\ machine_state' = [m \in Machines |-> IF m \in M THEN "UNAVAILABLE"
                                              ELSE machine_state[m]]
    BY DEF server_on_event_machine_unavailable, UpdateState
<1>4. machine_state' \in [Machines -> States]
    BY <1>3 DEF MachineFacts, MachineTypes, States
<1>5. /\ MachineTypes' /\ MachineMail' /\ RequestsFresh' /\ GroupsSound'
      /\ SwitchersSound' /\ SwitchedSound' /\ AcksSound' /\ KnownRight'
      /\ JobsSound' /\ EventsSound'
      /\ \A m \in M : NoSwitcher(m) /\ pstate[m] \in Computation
    BY <1>3, <1>4, AvailabilityFrame DEF EventMessages
<1>. HIDE DEF h0, M
<1>6. \A x \in Mail' : x.type \notin EventMessages
    BY <1>1 DEF Conflict, EventMessages
<1>7. M \subseteq down
    BY <1>1, <1>2 DEF MachineFacts, EventsSound
<1>8. aborted' = "no"
  <2>1. \A x \in Mail : x.type # "EVENT_AVAILABLE"
      BY <1>1, <1>6 DEF EventMessages
  <2>2. \A m \in M : machine_state[m] # "UNAVAILABLE"
      BY <1>1, <1>2, <2>1, FactsNow DEF Available
  <2>. QED
      BY <1>3, <2>2
<1>9. Available'
  <2>. SUFFICES ASSUME NEW m \in Machines
                PROVE  machine_state'[m] = "UNAVAILABLE" <=> m \in down
      BY <1>3, <1>6 DEF Available, EventMessages
  <2>1. CASE m \in M
      BY <1>3, <1>7, <2>1
  <2>2. CASE m \notin M
      BY <1>1, <1>2, <1>3, <1>6, <2>2, FactsNow DEF Available, EventMessages
  <2>. QED
      BY <2>1, <2>2
<1>10. StateMatchesPState'
  <2>1. Busy' = Busy
      BY <1>3 DEF Busy
  <2>. SUFFICES ASSUME NEW m \in Machines
                PROVE  /\ machine_state'[m] \in {"IDLE", "COMPUTING"}
                            => pstate[m] \in Computation
                       /\ machine_state'[m] = "SLEEPING" => pstate[m] \in Sleep
                       /\ machine_state'[m] \in {"SWITCHING_ON", "SWITCHING_OFF"}
                            <=> \E c \in switchers : c.machine = m
                       /\ machine_state'[m] = "COMPUTING" => m \in Busy
                       /\ m \in Busy
                            => machine_state'[m] \in {"COMPUTING", "UNAVAILABLE"}
      BY <1>3, <2>1 DEF StateMatchesPState
  <2>2. CASE m \in M
      BY <1>3, <1>5, <2>2 DEF NoSwitcher
  <2>3. CASE m \notin M
      BY <1>3, <2>3 DEF StateMatchesPState, MachineFacts
  <2>. QED
      BY <2>2, <2>3
<1>. QED
    BY <1>5, <1>8, <1>9, <1>10, AvailableNext DEF MachineFacts

\* Machines come back, idle or computing the job that is still on them: all of
\* them were unavailable.
LEMMA AvailableHandlerKeeps ==
    ASSUME MachineFacts, aborted = "no", Separate,
           server_on_event_machine_available
    PROVE  aborted' = "no" /\ MachineFacts'
<1>. DEFINE h0 == Head(mailbox)
            M == MsgMachines
<1>1. /\ h0 \in Mail /\ h0.type = "EVENT_AVAILABLE" /\ M \in SUBSET Machines
      /\ Mail' \subseteq Mail
      /\ \A x \in Mail : x = h0 \/ x \in Mail'
      /\ \A x \in Mail' : ~Conflict(x, h0)
    BY Received DEF server_on_event_machine_available, MachineFacts, MachineTypes,
                    MachineMail
<1>2. M = h0.machines
    BY DEF MsgMachines
<1>3. /\ UNCHANGED <<pstate, computing, switchVars, eventVars, sched_ready,
                     schedVars>>
      /\ Receive("EVENT_AVAILABLE") /\ Notify("AVAILABLE")
      /\ aborted' = IF \E m \in M : machine_state[m] # "UNAVAILABLE"
                    THEN "available" ELSE "no"
      /\ machine_state' = [m \in Machines |-> IF m \in M THEN StateWhenBack(m)
                                              ELSE machine_state[m]]
    BY DEF server_on_event_machine_available
<1>4. \A m : StateWhenBack(m) = IF m \in Busy THEN "COMPUTING" ELSE "IDLE"
    BY DEF StateWhenBack
<1>5. machine_state' \in [Machines -> States]
    BY <1>3, <1>4 DEF MachineFacts, MachineTypes, States
<1>6. /\ MachineTypes' /\ MachineMail' /\ RequestsFresh' /\ GroupsSound'
      /\ SwitchersSound' /\ SwitchedSound' /\ AcksSound' /\ KnownRight'
      /\ JobsSound' /\ EventsSound'
      /\ \A m \in M : NoSwitcher(m) /\ pstate[m] \in Computation
    BY <1>3, <1>5, AvailabilityFrame DEF EventMessages
<1>. HIDE DEF h0, M
<1>7. \A x \in Mail' : x.type \notin EventMessages
    BY <1>1 DEF Conflict, EventMessages
<1>8. M \cap down = {}
    BY <1>1, <1>2 DEF MachineFacts, EventsSound
<1>9. aborted' = "no"
  <2>1. \A m \in M : machine_state[m] = "UNAVAILABLE"
      BY <1>1, <1>2, FactsNow DEF Available
  <2>. QED
      BY <1>3, <2>1
<1>10. Available'
  <2>. SUFFICES ASSUME NEW m \in Machines
                PROVE  machine_state'[m] = "UNAVAILABLE" <=> m \in down
      BY <1>3, <1>7 DEF Available, EventMessages
  <2>1. CASE m \in M
      BY <1>3, <1>4, <1>8, <2>1
  <2>2. CASE m \notin M
    <3>1. \A x \in Mail : x.type # "EVENT_UNAVAILABLE"
        BY <1>1, <1>7 DEF EventMessages
    <3>2. ~ \E x \in Mail : x.type = "EVENT_AVAILABLE" /\ m \in x.machines
        BY <1>1, <1>2, <1>7, <2>2 DEF EventMessages
    <3>. QED
        BY <1>3, <2>2, <3>1, <3>2, FactsNow DEF Available
  <2>. QED
      BY <2>1, <2>2
<1>11. StateMatchesPState'
  <2>1. Busy' = Busy
      BY <1>3 DEF Busy
  <2>. SUFFICES ASSUME NEW m \in Machines
                PROVE  /\ machine_state'[m] \in {"IDLE", "COMPUTING"}
                            => pstate[m] \in Computation
                       /\ machine_state'[m] = "SLEEPING" => pstate[m] \in Sleep
                       /\ machine_state'[m] \in {"SWITCHING_ON", "SWITCHING_OFF"}
                            <=> \E c \in switchers : c.machine = m
                       /\ machine_state'[m] = "COMPUTING" => m \in Busy
                       /\ m \in Busy
                            => machine_state'[m] \in {"COMPUTING", "UNAVAILABLE"}
      BY <1>3, <2>1 DEF StateMatchesPState
  <2>2. CASE m \in M
      BY <1>3, <1>4, <1>6, <2>2 DEF NoSwitcher
  <2>3. CASE m \notin M
      BY <1>3, <2>3 DEF StateMatchesPState, MachineFacts
  <2>. QED
      BY <2>2, <2>3
<1>. QED
    BY <1>6, <1>9, <1>10, <1>11, AvailableNext DEF MachineFacts
-----------------------------------------------------------------------------
(* The call of the scheduler.                                              *)

\* A set of natural numbers has a least element.
LEMMA LeastNat ==
    ASSUME NEW T \in SUBSET Nat, T # {}
    PROVE  \E x \in T : \A y \in T : x <= y
<1>1. PICK x \in T : \A y \in T : ~ (<<y, x>> \in OpToRel(<, Nat))
    BY WFMin, NatLessThanWellFounded, Zenon
<1>2. \A y \in T : x <= y
  <2>. TAKE y \in T
  <2>1. ~ (<<y, x>> \in {ss \in Nat \X Nat : ss[1] < ss[2]})
      BY <1>1, Zenon DEF OpToRel
  <2>. QED
      BY <2>1
<1>. QED
    BY <1>2

\* The last event of some types that names m is one of them.
LEMMA LastEventNamed ==
    ASSUME proto_writer \in Seq(Event), NEW m, NEW types,
           \E e \in Written : e.type \in types /\ m \in e.machines
    PROVE  /\ LastEvent(m, types) \in Written
           /\ LastEvent(m, types).type \in types
           /\ m \in LastEvent(m, types).machines
<1>. DEFINE I == {i \in DOMAIN proto_writer : /\ proto_writer[i].type \in types
                                              /\ m \in proto_writer[i].machines}
            n == Len(proto_writer)
            T == {k \in Nat : \E i \in I : k = n - i}
<1>1. n \in Nat /\ DOMAIN proto_writer = 1..n
    OBVIOUS
<1>2. I # {} /\ I \subseteq 1..n
    BY <1>1 DEF Written
<1>. HIDE DEF I, n
<1>3. T \in SUBSET Nat /\ \A i \in I : n - i \in T
    BY <1>1, <1>2
<1>4. PICK k \in T : \A y \in T : k <= y
  <2>1. T # {}
      BY <1>2, <1>3
  <2>. HIDE DEF T
  <2>. QED
      BY <1>3, <2>1, LeastNat
<1>5. PICK i \in I : k = n - i
    OBVIOUS
<1>6. \A y \in I : y <= i
  <2>. TAKE y \in I
  <2>1. n - i <= n - y
      BY <1>3, <1>4, <1>5
  <2>. QED
      BY <1>1, <1>2, <2>1
<1>7. LastEvent(m, types) = proto_writer[CHOOSE y \in I : \A z \in I : z <= y]
    BY DEF LastEvent, I
<1>8. (CHOOSE y \in I : \A z \in I : z <= y) \in I
    BY <1>6
<1>. QED
    BY <1>7, <1>8 DEF I, Written

\* The scheduler reads the buffered events: what it knows afterwards is true.
LEMMA TailKeeps ==
    ASSUME MachineFacts, aborted = "no", ServerTail
    PROVE  aborted' = "no" /\ MachineFacts'
<1>. DEFINE A == Told("RESOURCE_STATE_CHANGED")
            told(m) == LastEvent(m, {"RESOURCE_STATE_CHANGED"}).pstate
<1>1. /\ UNCHANGED <<machineVars, switchVars, mailbox, aborted, eventVars>>
      /\ mailbox = <<>> /\ sched_ready' = FALSE /\ proto_writer' = <<>>
      /\ wanted' = [m \in Machines |-> IF m \in A THEN NoPState ELSE wanted[m]]
      /\ known' = [m \in Machines |-> IF m \in A THEN told(m) ELSE known[m]]
      /\ using' = {J \in using : \A i \in DOMAIN proto_writer :
                     ~(/\ proto_writer[i].type = "JOB_COMPLETED"
                       /\ proto_writer[i].machines = J)}
    BY DEF ServerTail
<1>2. /\ Mail = {} /\ Mail' = {} /\ Written' = {} /\ Groups' = Groups
      /\ MailApart'
    BY <1>1 DEF Mail, Written, Groups, MailApart
<1>3. \A m : m \in A <=> \E e \in Written : /\ e.type = "RESOURCE_STATE_CHANGED"
                                            /\ m \in e.machines
    BY DEF Told, Written
<1>4. \A m \in A : /\ told(m) \in PStates /\ told(m) = pstate[m]
                   /\ wanted[m] \in PStates
  <2>. TAKE m \in A
  <2>1. /\ LastEvent(m, {"RESOURCE_STATE_CHANGED"}) \in Written
        /\ LastEvent(m, {"RESOURCE_STATE_CHANGED"}).type
             \in {"RESOURCE_STATE_CHANGED"}
        /\ m \in LastEvent(m, {"RESOURCE_STATE_CHANGED"}).machines
      BY <1>3, LastEventNamed DEF MachineFacts, MachineTypes
  <2>. QED
      BY <2>1 DEF MachineFacts, AcksSound
<1>. HIDE DEF A, told
<1>5. /\ \A m : Ungrouped(m)' = Ungrouped(m) /\ NoSwitcher(m)' = NoSwitcher(m)
      /\ \A m : NotAcked(m)' /\ NotSwitched(m)'
    BY <1>1, <1>2 DEF Ungrouped, NoSwitcher, NotAcked, NotSwitched
<1>6. /\ using' \subseteq using
      /\ \A m : m \in UNION using' => m \in UNION using
    BY <1>1
<1>7. MachineTypes'
  <2>1. wanted' \in [Machines -> PStates \cup {NoPState}]
      BY <1>1 DEF MachineFacts, MachineTypes
  <2>2. known' \in [Machines -> PStates]
      BY <1>1, <1>4 DEF MachineFacts, MachineTypes
  <2>3. proto_writer' \in Seq(Event)
      BY <1>1
  <2>4. using' \subseteq SUBSET Machines
      BY <1>6 DEF MachineFacts, MachineTypes
  <2>. QED
      BY <1>1, <2>1, <2>2, <2>3, <2>4 DEF MachineFacts, MachineTypes
<1>8. MachineMail' /\ RequestsFresh' /\ SwitchedSound' /\ AcksSound'
    BY <1>2 DEF MachineMail, RequestsFresh, SwitchedSound, AcksSound
<1>9. GroupsSound'
  <2>1. \A g \in Groups : \A m \in g.all : wanted'[m] = g.target
    <3>1. \A g \in Groups : \A m \in g.all :
            m \notin A /\ m \in Machines /\ wanted[m] = g.target
        BY <1>3, MemberTypes DEF NotAcked, GroupsSound, MachineFacts
    <3>. QED
        BY <1>1, <3>1
  <2>. QED
      BY <1>1, <1>2, <1>5, <2>1 DEF GroupsSound, MachineFacts
<1>10. SwitchersSound'
    BY <1>1, <1>2, <1>5, <1>6 DEF SwitchersSound, MachineFacts
<1>11. KnownRight'
    BY <1>1, <1>4 DEF KnownRight, MachineFacts
<1>12. JobsSound'
  <2>1. computing \subseteq using'
    <3>1. \A J \in computing : \A i \in DOMAIN proto_writer :
            ~(proto_writer[i].type = "JOB_COMPLETED" /\ proto_writer[i].machines = J)
        BY DEF JobsSound, MachineFacts, Written
    <3>. QED
        BY <1>1, <3>1 DEF JobsSound, MachineFacts
  <2>. QED
      BY <1>1, <1>2, <1>6, <2>1 DEF JobsSound, MachineFacts
<1>13. EventsSound' /\ StateMatchesPState'
    BY <1>1, <1>2 DEF EventsSound, StateMatchesPState, Busy, MachineFacts
<1>14. Available'
    BY <1>1, <1>2, FactsNow DEF Available
<1>. QED
    BY <1>1, <1>7, <1>8, <1>9, <1>10, <1>11, <1>12, <1>13, <1>14, AvailableNext
       DEF MachineFacts
-----------------------------------------------------------------------------
(* The request for a switch.                                               *)

\* No switch process, SWITCHED message or availability event has to do with a
\* machine that no switch in progress names.
LEMMA UngroupedIsQuiet ==
    ASSUME MachineFacts, NEW m, Ungrouped(m)
    PROVE  NoSwitcher(m) /\ NotSwitched(m)
<1>1. NoSwitcher(m)
    BY SwitcherFacts DEF NoSwitcher, Ungrouped
<1>2. NotSwitched(m)
  <2>. SUFFICES ASSUME NEW x \in Mail, x.type = "SWITCHED", m \in x.machines
                PROVE  FALSE
      BY DEF NotSwitched
  <2>1. \E g \in Groups : m \in g.switching
      BY DEF MachineFacts, SwitchedSound
  <2>. QED
      BY <2>1 DEF MachineFacts, GroupsSound, Ungrouped
<1>. QED
    BY <1>1, <1>2

\* A list that has no positions is empty.
LEMMA NothingAppended ==
    ASSUME NEW S, NEW s \in Seq(S), NEW t \in Seq(S), DOMAIN t = {}
    PROVE  s \o t = s
<1>1. Len(t) = 0
    OBVIOUS
<1>2. t = <<>>
    BY <1>1
<1>. QED
    BY <1>2

\* The machines that can change their pstate at once.
AtOnce(M, p) == {m \in M : pstate[m] \in Computation /\ p \in Computation}

\* What the handler does: the machines of M that change at once leave the new
\* switch, and the others get a process.
Modified(M, p, atonce) ==
    /\ aborted' = "no"
    /\ M # {} /\ M \subseteq Switchable /\ M \in SUBSET Machines
    /\ p \in PStates
    /\ \A m \in M : /\ wanted[m] = p /\ Ungrouped(m) /\ NotAcked(m)
                    /\ m \in UNION using => m \in atonce
    /\ mailbox' \in Seq(Message) /\ MailApart' /\ Mail' \subseteq Mail
    /\ \A x \in Mail : x.type # "PSTATE_MODIFICATION" => x \in Mail'
    /\ \A x \in Mail' : x.type \notin Decisions
    /\ pstate' = [m \in Machines |-> IF m \in atonce THEN p ELSE pstate[m]]
    /\ machine_state' = [m \in Machines |->
         IF m \in M \ atonce THEN Transition(p) ELSE machine_state[m]]
    /\ switchers' = switchers \cup
         {[machine |-> m, target |-> p, pc |-> "spawned"] : m \in M \ atonce}
    /\ switches' \in Seq(Group) /\ proto_writer' \in Seq(Event)
    /\ \A i, k \in DOMAIN switches' :
         i # k => switches'[i].all \cap switches'[k].all = {}
    /\ \A g \in Groups' :
         \/ \E h \in Groups : /\ g.target = h.target /\ g.all = h.all
                              /\ g.switching = h.switching
         \/ /\ g.target = p /\ g.all = M /\ g.switching = M \ atonce
            /\ g.switching # {}
    /\ \A h \in Groups : \E g \in Groups' :
         g.target = h.target /\ g.switching = h.switching
    /\ M \ atonce # {} => \E g \in Groups' :
         g.target = p /\ g.switching = M \ atonce
    /\ \A e \in Written' : e \in Written \/
         /\ e.type = "RESOURCE_STATE_CHANGED" /\ e.pstate = p
         /\ e.machines = M /\ M \ atonce = {}
         /\ \A g \in Groups' : e.machines \cap g.all = {}

\* The handler of PSTATE_MODIFICATION does what Modified says, and none of its
\* assertions fails.
LEMMA ModificationSets ==
    ASSUME MachineFacts, aborted = "no", server_on_pstate_modification
    PROVE  Modified(MsgMachines, MsgPState, AtOnce(MsgMachines, MsgPState))
<1>. DEFINE h0 == Head(mailbox)
            M == MsgMachines
            p == MsgPState
            new == [target |-> p, all |-> M, switching |-> M]
            sw == Append(switches, new)
            atonce == AtOnce(M, p)
            on == {m \in M : pstate[m] \in Sleep}
            off == {m \in M : pstate[m] \in Computation} \ atonce
<1>1. /\ mailbox' \in Seq(Message) /\ MailApart'
      /\ h0 \in Mail /\ h0.type = "PSTATE_MODIFICATION" /\ M \in SUBSET Machines
      /\ p \in PStates \cup {NoPState}
      /\ Mail' \subseteq Mail
      /\ \A x \in Mail : x = h0 \/ x \in Mail'
      /\ \A x \in Mail' : ~Conflict(x, h0)
    BY Received DEF server_on_pstate_modification, MachineFacts, MachineTypes,
                    MachineMail
<1>2. M = h0.machines /\ p = h0.pstate
    BY DEF MsgMachines, MsgPState
<1>3. /\ aborted' = IF \/ on # {} /\ p \notin Computation
                       \/ NotSwitching(sw, atonce, p)
                    THEN "pstate" ELSE "no"
      /\ pstate' = [m \in Machines |-> IF m \in atonce THEN p ELSE pstate[m]]
      /\ switches' = Pending(Marked(sw, atonce, p))
      /\ proto_writer' = IF atonce = {} THEN proto_writer
                         ELSE proto_writer \o Acks(sw, atonce, p)
      /\ machine_state' = [m \in Machines |->
                             IF m \in on THEN "SWITCHING_ON"
                             ELSE IF m \in off THEN "SWITCHING_OFF"
                             ELSE machine_state[m]]
      /\ switchers' = switchers \cup
           {[machine |-> m, target |-> p, pc |-> "spawned"] : m \in on \cup off}
    BY DEF server_on_pstate_modification, AtOnce
<1>. HIDE DEF h0, M, p, sw, new
<1>4. /\ M # {} /\ M \subseteq Switchable /\ p \in PStates
      /\ \A m \in M : /\ wanted[m] = p /\ pstate[m] = known[m]
                      /\ known[m] \in Sleep => p \in Computation
                      /\ p \in Sleep => m \notin UNION using
                      /\ Ungrouped(m) /\ NotAcked(m)
    BY <1>1, <1>2 DEF MachineFacts, RequestsFresh
<1>5. \A m \in M : pstate[m] \in Computation \cup Sleep
    BY <1>1, <1>4 DEF MachineFacts, MachineTypes, PStates
<1>6. Computation \cap Sleep = {}
    BY MachinesAssumption
<1>. USE DEF AtOnce
<1>7. /\ on \cup off = M \ atonce /\ on \cap off = {}
      /\ on # {} => p \in Computation
      /\ off # {} => p \in Sleep
      /\ atonce \subseteq M
      /\ \A m \in M : m \in UNION using => m \in atonce
  <2>1. on # {} => p \in Computation
      BY <1>4
  <2>2. off # {} => p \in Sleep
      BY <1>4 DEF PStates
  <2>3. on \cup off = M \ atonce /\ on \cap off = {}
      BY <1>5, <1>6
  <2>4. \A m \in M : m \in UNION using => m \in atonce
    <3>1. \A m \in UNION using : pstate[m] \in Computation
        BY DEF MachineFacts, JobsSound
    <3>. QED
        BY <1>4, <3>1 DEF PStates
  <2>. QED
      BY <2>1, <2>2, <2>3, <2>4
<1>. HIDE DEF on, off, atonce
<1>8. /\ switches \in Seq(Group)
      /\ \A g \in Groups : /\ g.switching # {} /\ g.switching \subseteq g.all
                           /\ g.all \cap M = {}
      /\ \A i, k \in DOMAIN switches :
           i # k => switches[i].all \cap switches[k].all = {}
    BY <1>4 DEF MachineFacts, MachineTypes, GroupsSound, Ungrouped
<1>9. /\ new \in Group /\ new.target = p /\ new.all = M /\ new.switching = M
    BY <1>1, <1>4 DEF new, Group
<1>10. /\ sw \in Seq(Group) /\ Len(switches) \in Nat
       /\ DOMAIN switches = 1..Len(switches)
       /\ DOMAIN sw = 1..(Len(switches) + 1)
       /\ \A i \in DOMAIN switches : sw[i] = switches[i]
       /\ sw[Len(switches) + 1] = new
    BY <1>8, <1>9 DEF sw
<1>11. /\ Apart(sw)
       /\ {sw[i] : i \in DOMAIN sw} = Groups \cup {new}
  <2>1. \A i \in DOMAIN sw : i \in DOMAIN switches \/ i = Len(switches) + 1
      BY <1>10
  <2>2. \A i \in DOMAIN sw : sw[i].switching \subseteq sw[i].all
      BY <1>8, <1>9, <1>10, <2>1 DEF Groups
  <2>3. \A i, k \in DOMAIN sw : i # k => sw[i].all \cap sw[k].all = {}
      BY <1>8, <1>9, <1>10, <2>1 DEF Groups
  <2>4. \A i \in DOMAIN sw : sw[i] \in Groups \cup {new}
      BY <1>10, <2>1 DEF Groups
  <2>5. \A g \in Groups \cup {new} : \E i \in DOMAIN sw : g = sw[i]
    <3>1. \A i \in DOMAIN switches : i \in DOMAIN sw
        BY <1>10
    <3>2. Len(switches) + 1 \in DOMAIN sw
        BY <1>10
    <3>. QED
        BY <1>10, <3>1, <3>2 DEF Groups
  <2>. QED
      BY <2>2, <2>3, <2>4, <2>5 DEF Apart
<1>12. /\ \A h \in Groups : Left(h, atonce, p) = h.switching
       /\ Left(new, atonce, p) = M \ atonce
    BY <1>7, <1>8, <1>9 DEF Left
<1>13. proto_writer \in Seq(Event)
    BY DEF MachineFacts, MachineTypes
<1>14. proto_writer' = proto_writer \o Acks(sw, atonce, p)
  <2>1. CASE atonce = {}
    <3>1. \A i \in DOMAIN sw : Left(sw[i], atonce, p) # {}
      <4>1. \A i \in DOMAIN sw : sw[i] \in Groups \cup {new}
          BY <1>11
      <4>. QED
          BY <1>4, <1>8, <1>12, <2>1, <4>1
    <3>2. /\ Acks(sw, atonce, p) \in Seq(Event)
          /\ \A k \in DOMAIN Acks(sw, atonce, p) :
               \E i \in DOMAIN sw : Left(sw[i], atonce, p) = {}
      <4>1. MarkingSound(sw, atonce, p)
          BY <1>1, <1>10, <1>11, SwitchesMarked
      <4>. QED
          BY <4>1 DEF MarkingSound
    <3>3. DOMAIN Acks(sw, atonce, p) = {}
        BY <3>1, <3>2
    <3>4. ASSUME NEW t \in Seq(Event), DOMAIN t = {}
          PROVE  proto_writer \o t = proto_writer
        BY <1>13, <3>4, NothingAppended
    <3>. QED
        BY <1>3, <1>13, <2>1, <3>2, <3>3, <3>4
  <2>2. CASE atonce # {}
      BY <1>3, <2>2
  <2>. QED
      BY <2>1, <2>2
<1>15. LET S == {sw[i] : i \in DOMAIN sw}
       IN  /\ switches' \in Seq(Group) /\ proto_writer' \in Seq(Event)
           /\ \A g \in Groups' : \E h \in S :
                /\ g.target = h.target /\ g.all = h.all
                /\ g.switching = Left(h, atonce, p) /\ g.switching # {}
           /\ \A h \in S : Left(h, atonce, p) # {} => \E g \in Groups' :
                /\ g.target = h.target /\ g.switching = Left(h, atonce, p)
           /\ \A i, k \in DOMAIN switches' :
                i # k => switches'[i].all \cap switches'[k].all = {}
           /\ \A e \in Written' : e \in Written \/
                /\ e.type = "RESOURCE_STATE_CHANGED" /\ e.pstate = p
                /\ \E h \in S : e.machines = h.all /\ Left(h, atonce, p) = {}
                /\ \A g \in Groups' : e.machines \cap g.all = {}
  <2>1. switches' = Pending(Marked(sw, atonce, p))
      BY <1>3
  <2>2. sw \in Seq(Group) /\ Apart(sw) /\ p \in PStates \cup {NoPState}
      BY <1>1, <1>10, <1>11
  <2>3. SwitchesFrom(sw, atonce, p)
      BY <1>13, <1>14, <2>1, <2>2, MarkedSets
  <2>. QED
      BY <2>3 DEF SwitchesFrom
<1>16. /\ switches' \in Seq(Group) /\ proto_writer' \in Seq(Event)
       /\ \A i, k \in DOMAIN switches' :
            i # k => switches'[i].all \cap switches'[k].all = {}
       /\ \A g \in Groups' : \E h \in Groups \cup {new} :
            /\ g.target = h.target /\ g.all = h.all
            /\ g.switching = Left(h, atonce, p) /\ g.switching # {}
       /\ \A h \in Groups \cup {new} : Left(h, atonce, p) # {} =>
            \E g \in Groups' : /\ g.target = h.target
                               /\ g.switching = Left(h, atonce, p)
       /\ \A e \in Written' : e \in Written \/
            /\ e.type = "RESOURCE_STATE_CHANGED" /\ e.pstate = p
            /\ \E h \in Groups \cup {new} : /\ e.machines = h.all
                                            /\ Left(h, atonce, p) = {}
            /\ \A g \in Groups' : e.machines \cap g.all = {}
    BY <1>11, <1>15
<1>17. \A g \in Groups' :
         \/ \E h \in Groups : /\ g.target = h.target /\ g.all = h.all
                              /\ g.switching = h.switching
         \/ /\ g.target = p /\ g.all = M /\ g.switching = M \ atonce
            /\ g.switching # {}
  <2>. TAKE g \in Groups'
  <2>1. PICK h \in Groups \cup {new} :
               /\ g.target = h.target /\ g.all = h.all
               /\ g.switching = Left(h, atonce, p) /\ g.switching # {}
      BY <1>16
  <2>2. CASE h \in Groups
      BY <1>12, <2>1, <2>2
  <2>3. CASE h = new
      BY <1>9, <1>12, <2>1, <2>3
  <2>. QED
      BY <2>2, <2>3
<1>18. \A h \in Groups : \E g \in Groups' :
         g.target = h.target /\ g.switching = h.switching
  <2>. TAKE h \in Groups
  <2>1. Left(h, atonce, p) # {}
      BY <1>8, <1>12
  <2>2. PICK g \in Groups' : /\ g.target = h.target
                             /\ g.switching = Left(h, atonce, p)
      BY <1>16, <2>1
  <2>. QED
      BY <1>12, <2>2
<1>19. M \ atonce # {} => \E g \in Groups' :
         g.target = p /\ g.switching = M \ atonce
  <2>. SUFFICES ASSUME M \ atonce # {}
                PROVE  \E g \in Groups' : g.target = p /\ g.switching = M \ atonce
      OBVIOUS
  <2>1. PICK g \in Groups' : /\ g.target = new.target
                             /\ g.switching = Left(new, atonce, p)
      BY <1>12, <1>16
  <2>. QED
      BY <1>9, <1>12, <2>1
<1>20. \A e \in Written' : e \in Written \/
         /\ e.type = "RESOURCE_STATE_CHANGED" /\ e.pstate = p
         /\ e.machines = M /\ M \ atonce = {}
         /\ \A g \in Groups' : e.machines \cap g.all = {}
  <2>. SUFFICES ASSUME NEW e \in Written', e \notin Written
                PROVE  e.machines = M /\ M \ atonce = {}
      BY <1>16
  <2>1. PICK h \in Groups \cup {new} : e.machines = h.all
                                       /\ Left(h, atonce, p) = {}
      BY <1>16
  <2>2. h = new
      BY <1>8, <1>12, <2>1
  <2>. QED
      BY <1>9, <1>12, <2>1, <2>2
<1>21. aborted' = "no"
  <2>1. ~NotSwitching(sw, atonce, p)
    <3>1. Len(switches) + 1 \in DOMAIN sw
        BY <1>10
    <3>2. \A m \in atonce : Holds(sw, Len(switches) + 1, m, p)
        BY <1>7, <1>9, <1>10 DEF Holds
    <3>. QED
        BY <3>1, <3>2 DEF NotSwitching
  <2>. QED
      BY <1>3, <1>7, <2>1
<1>22. machine_state' = [m \in Machines |-> IF m \in M \ atonce THEN Transition(p)
                                           ELSE machine_state[m]]
  <2>1. \A m \in Machines : (IF m \in on THEN "SWITCHING_ON"
                             ELSE IF m \in off THEN "SWITCHING_OFF"
                             ELSE machine_state[m])
                          = IF m \in M \ atonce THEN Transition(p)
                            ELSE machine_state[m]
    <3>. TAKE m \in Machines
    <3>1. CASE m \in on
        BY <1>7, <3>1 DEF Transition
    <3>2. CASE m \in off
        BY <1>6, <1>7, <3>2 DEF Transition
    <3>3. CASE m \notin on \cup off
        BY <1>7, <3>3
    <3>. QED
        BY <3>1, <3>2, <3>3
  <2>. QED
      BY <1>3, <2>1
<1>23. /\ \A x \in Mail : x.type # "PSTATE_MODIFICATION" => x \in Mail'
       /\ \A x \in Mail' : x.type \notin Decisions
    BY <1>1 DEF Conflict, Decisions
<1>24. switchers' = switchers \cup
         {[machine |-> m, target |-> p, pc |-> "spawned"] : m \in M \ atonce}
    BY <1>3, <1>7
<1>25. \A m \in M : /\ wanted[m] = p /\ Ungrouped(m) /\ NotAcked(m)
                    /\ m \in UNION using => m \in atonce
    BY <1>4, <1>7
<1>. QED
    BY <1>1, <1>3, <1>4, <1>16, <1>17, <1>18, <1>19, <1>20, <1>21, <1>22, <1>23,
       <1>24, <1>25 DEF M, p, atonce, Modified

\* A request joins the switches in progress: what was going on elsewhere goes on.
LEMMA ModificationKeeps ==
    ASSUME MachineFacts, aborted = "no", Separate, server_on_pstate_modification
    PROVE  aborted' = "no" /\ MachineFacts'
<1>. DEFINE M == MsgMachines
            p == MsgPState
            atonce == AtOnce(M, p)
            New(m) == [machine |-> m, target |-> p, pc |-> "spawned"]
<1>1. Modified(M, p, atonce)
    BY ModificationSets
<1>2. UNCHANGED <<computing, eventVars, sched_ready, schedVars>>
    BY DEF server_on_pstate_modification
<1>3. /\ atonce \subseteq M
      /\ \A m \in atonce : pstate[m] \in Computation /\ p \in Computation
      /\ \A m \in M \ atonce : ~(pstate[m] \in Computation /\ p \in Computation)
    BY DEF AtOnce
<1>. HIDE DEF M, p, atonce
<1>4. /\ aborted' = "no"
      /\ M # {} /\ M \subseteq Switchable /\ M \in SUBSET Machines
      /\ p \in PStates
      /\ \A m \in M : /\ wanted[m] = p /\ Ungrouped(m) /\ NotAcked(m)
                      /\ m \in UNION using => m \in atonce
    BY <1>1 DEF Modified
<1>5. /\ mailbox' \in Seq(Message) /\ MailApart' /\ Mail' \subseteq Mail
      /\ \A x \in Mail : x.type # "PSTATE_MODIFICATION" => x \in Mail'
      /\ \A x \in Mail' : x.type \notin Decisions
    BY <1>1 DEF Modified
<1>6. /\ pstate' = [m \in Machines |-> IF m \in atonce THEN p ELSE pstate[m]]
      /\ machine_state' = [m \in Machines |->
           IF m \in M \ atonce THEN Transition(p) ELSE machine_state[m]]
      /\ switchers' = switchers \cup {New(m) : m \in M \ atonce}
    BY <1>1 DEF Modified
<1>7. /\ switches' \in Seq(Group) /\ proto_writer' \in Seq(Event)
      /\ \A i, k \in DOMAIN switches' :
           i # k => switches'[i].all \cap switches'[k].all = {}
      /\ \A g \in Groups' :
           \/ \E h \in Groups : /\ g.target = h.target /\ g.all = h.all
                                /\ g.switching = h.switching
           \/ /\ g.target = p /\ g.all = M /\ g.switching = M \ atonce
              /\ g.switching # {}
      /\ \A h \in Groups : \E g \in Groups' :
           g.target = h.target /\ g.switching = h.switching
      /\ M \ atonce # {} => \E g \in Groups' :
           g.target = p /\ g.switching = M \ atonce
      /\ \A e \in Written' : e \in Written \/
           /\ e.type = "RESOURCE_STATE_CHANGED" /\ e.pstate = p
           /\ e.machines = M /\ M \ atonce = {}
           /\ \A g \in Groups' : e.machines \cap g.all = {}
    BY <1>1 DEF Modified
<1>8. /\ \A m : (New(m)).machine = m /\ (New(m)).target = p
                /\ (New(m)).pc = "spawned"
      /\ Transition(p) \in {"SWITCHING_ON", "SWITCHING_OFF"}
    BY DEF Transition
<1>. HIDE DEF New
<1>9. \A m \in M : NoSwitcher(m) /\ NotSwitched(m)
    BY <1>4, UngroupedIsQuiet
<1>10. /\ \A a \in switchers : a.machine \in Machines /\ a.machine \notin M
       /\ \A a \in switchers' : \/ a \in switchers
                                \/ \E m \in M \ atonce : a = New(m)
       /\ \A m : m \notin M \ atonce => (NoSwitcher(m) => NoSwitcher(m)')
       /\ \A m : NotSwitched(m) => NotSwitched(m)'
  <2>1. \A a \in switchers : a.machine \in Machines /\ a.machine \notin M
      BY <1>9, MemberTypes DEF NoSwitcher, MachineFacts
  <2>2. \A a \in switchers' : \/ a \in switchers
                              \/ \E m \in M \ atonce : a = New(m)
      BY <1>6
  <2>3. \A m : m \notin M \ atonce => (NoSwitcher(m) => NoSwitcher(m)')
      BY <1>8, <2>2 DEF NoSwitcher
  <2>4. \A m : NotSwitched(m) => NotSwitched(m)'
      BY <1>5 DEF NotSwitched
  <2>. QED
      BY <2>1, <2>2, <2>3, <2>4
<1>11. /\ \A m \in Machines \ M : pstate'[m] = pstate[m]
                                  /\ machine_state'[m] = machine_state[m]
       /\ \A m \in atonce : pstate'[m] = p /\ machine_state'[m] = machine_state[m]
       /\ \A m \in M \ atonce : pstate'[m] = pstate[m]
                                /\ machine_state'[m] = Transition(p)
    BY <1>3, <1>4, <1>6
<1>12. MachineTypes'
  <2>1. \A m \in Machines : New(m) \in Switcher
      BY <1>4 DEF New, Switcher
  <2>2. switchers' \subseteq Switcher
      BY <1>4, <1>10, <2>1 DEF MachineFacts, MachineTypes
  <2>3. pstate' \in [Machines -> PStates \cup {Virtual}]
      BY <1>4, <1>6 DEF MachineFacts, MachineTypes
  <2>4. machine_state' \in [Machines -> States]
      BY <1>6, <1>8 DEF MachineFacts, MachineTypes, States
  <2>. QED
      BY <1>2, <1>5, <1>7, <2>2, <2>3, <2>4 DEF MachineFacts, MachineTypes
<1>13. MachineMail'
    BY <1>5 DEF MachineMail
<1>14. RequestsFresh'
    BY <1>5 DEF RequestsFresh, Decisions
<1>15. GroupsSound'
  <2>1. \A g \in Groups' :
          /\ g.switching # {} /\ g.switching \subseteq g.all
          /\ g.all \subseteq Switchable
          /\ \A m \in g.all : wanted'[m] = g.target /\ NotAcked(m)'
          /\ \A m \in g.all \ g.switching :
               pstate'[m] = g.target /\ NoSwitcher(m)' /\ NotSwitched(m)'
    <3>. TAKE g \in Groups'
    <3>0. ASSUME NEW m \in g.all, NotAcked(m)
          PROVE  NotAcked(m)'
        BY <1>7, <3>0 DEF NotAcked
    <3>1. ASSUME NEW h \in Groups, g.target = h.target, g.all = h.all,
                 g.switching = h.switching
          PROVE  /\ g.switching # {} /\ g.switching \subseteq g.all
                 /\ g.all \subseteq Switchable
                 /\ \A m \in g.all : wanted[m] = g.target /\ NotAcked(m)'
                 /\ \A m \in g.all \ g.switching :
                      pstate'[m] = g.target /\ NoSwitcher(m)' /\ NotSwitched(m)'
      <4>1. /\ h.switching # {} /\ h.switching \subseteq h.all
            /\ h.all \subseteq Switchable /\ h.all \in SUBSET Machines
            /\ \A m \in h.all : wanted[m] = h.target /\ NotAcked(m)
            /\ \A m \in h.all \ h.switching :
                 pstate[m] = h.target /\ NoSwitcher(m) /\ NotSwitched(m)
          BY MemberTypes DEF MachineFacts, GroupsSound
      <4>2. h.all \cap M = {}
          BY <1>4 DEF Ungrouped
      <4>. QED
          BY <1>10, <1>11, <3>0, <3>1, <4>1, <4>2
    <3>2. ASSUME g.target = p, g.all = M, g.switching = M \ atonce,
                 g.switching # {}
          PROVE  /\ g.switching # {} /\ g.switching \subseteq g.all
                 /\ g.all \subseteq Switchable
                 /\ \A m \in g.all : wanted[m] = g.target /\ NotAcked(m)'
                 /\ \A m \in g.all \ g.switching :
                      pstate'[m] = g.target /\ NoSwitcher(m)' /\ NotSwitched(m)'
        BY <1>3, <1>4, <1>9, <1>10, <1>11, <3>0, <3>2
    <3>. QED
        BY <1>2, <1>7, <3>1, <3>2
  <2>. QED
      BY <1>7, <2>1 DEF GroupsSound
<1>16. SwitchersSound'
  <2>. SUFFICES ASSUME NEW a \in switchers'
                PROVE  /\ \E g \in Groups' : /\ g.target = a.target
                                             /\ a.machine \in g.switching
                       /\ NotSwitched(a.machine)'
                       /\ a.machine \notin UNION using
                       /\ machine_state'[a.machine] = Transition(a.target)
                       /\ \A b \in switchers' : b.machine = a.machine => b = a
      BY <1>2 DEF SwitchersSound
  <2>1. CASE a \in switchers
    <3>1. /\ \E g \in Groups : g.target = a.target /\ a.machine \in g.switching
          /\ NotSwitched(a.machine) /\ a.machine \notin UNION using
          /\ machine_state[a.machine] = Transition(a.target)
          /\ \A b \in switchers : b.machine = a.machine => b = a
        BY <2>1 DEF MachineFacts, SwitchersSound
    <3>2. PICK h \in Groups : h.target = a.target /\ a.machine \in h.switching
        BY <3>1
    <3>3. \E g \in Groups' : g.target = a.target /\ a.machine \in g.switching
        BY <1>7, <3>2
    <3>4. a.machine \in Machines \ M
        BY <1>10, <2>1
    <3>5. \A b \in switchers' : b.machine = a.machine => b = a
        BY <1>8, <1>10, <3>1, <3>4
    <3>. QED
        BY <1>10, <1>11, <3>1, <3>3, <3>4, <3>5
  <2>2. CASE a \notin switchers
    <3>1. PICK m \in M \ atonce : a = New(m)
        BY <1>10, <2>2
    <3>2. a.machine = m /\ a.target = p
        BY <1>8, <3>1
    <3>3. \E g \in Groups' : g.target = p /\ m \in g.switching
        BY <1>7, <3>1
    <3>4. \A b \in switchers' : b.machine = a.machine => b = a
        BY <1>8, <1>10, <3>1, <3>2
    <3>. QED
        BY <1>4, <1>9, <1>10, <1>11, <3>2, <3>3, <3>4
  <2>. QED
      BY <2>1, <2>2
<1>17. SwitchedSound'
  <2>. SUFFICES ASSUME NEW x \in Mail', x.type = "SWITCHED"
                PROVE  \E m \in Machines :
                         /\ x.machines = {m} /\ pstate'[m] = x.pstate
                         /\ \E g \in Groups' : g.target = x.pstate /\ m \in g.switching
      BY DEF SwitchedSound
  <2>1. PICK m \in Machines :
          /\ x.machines = {m} /\ pstate[m] = x.pstate
          /\ \E g \in Groups : g.target = x.pstate /\ m \in g.switching
      BY <1>5 DEF MachineFacts, SwitchedSound
  <2>2. m \notin M
      BY <1>5, <1>9, <2>1 DEF NotSwitched
  <2>3. \E g \in Groups' : g.target = x.pstate /\ m \in g.switching
      BY <1>7, <2>1
  <2>. QED
      BY <1>11, <2>1, <2>2, <2>3
<1>18. AcksSound'
  <2>. SUFFICES ASSUME NEW e \in Written', e.type = "RESOURCE_STATE_CHANGED"
                PROVE  /\ e.pstate \in PStates
                       /\ \A m \in e.machines : /\ wanted[m] = e.pstate
                                                /\ pstate'[m] = e.pstate
      BY <1>2 DEF AcksSound
  <2>1. CASE e \in Written
    <3>1. \A m \in e.machines : m \in Machines /\ m \notin M
        BY <1>4, <2>1, MemberTypes DEF NotAcked, MachineFacts
    <3>. QED
        BY <1>11, <2>1, <3>1 DEF MachineFacts, AcksSound
  <2>2. CASE e \notin Written
      BY <1>4, <1>7, <1>11, <2>2
  <2>. QED
      BY <2>1, <2>2
<1>19. KnownRight'
  <2>1. \A m \in Machines : wanted[m] = NoPState => m \notin M
      BY <1>4, MachinesAssumption
  <2>. QED
      BY <1>2, <1>11, <2>1 DEF KnownRight, MachineFacts
<1>20. JobsSound'
  <2>1. /\ \A J, K \in using : J # K => J \cap K = {}
        /\ {} \notin using /\ computing \subseteq using
        /\ \A m \in UNION using : pstate[m] \in Computation /\ m \in Machines
        /\ \A x \in Mail \cup Written : x.type = "JOB_COMPLETED" =>
             x.machines \in using \ computing
      BY MemberTypes DEF MachineFacts, JobsSound
  <2>2. \A m \in UNION using : pstate'[m] \in Computation
      BY <1>3, <1>4, <1>11, <2>1
  <2>3. \A x \in Mail' \cup Written' : x.type = "JOB_COMPLETED" =>
          x \in Mail \cup Written
      BY <1>5, <1>7
  <2>4. \A x \in Mail' : x.type # "SCHED_EXECUTE_JOB"
      BY <1>5 DEF Decisions
  <2>. QED
      BY <1>2, <2>1, <2>2, <2>3, <2>4 DEF JobsSound
<1>21. EventsSound'
  <2>1. \A m \in Machines \ Switchable : m \notin M
      BY <1>4
  <2>. QED
      BY <1>2, <1>5, <1>11, <2>1 DEF MachineFacts, EventsSound
<1>22. Available'
  <2>1. /\ \A x \in Mail : x.type \in EventMessages => x \in Mail'
        /\ Mail' \subseteq Mail
      BY <1>5 DEF EventMessages
  <2>2. \A m \in Machines :
          machine_state'[m] = "UNAVAILABLE" <=> machine_state[m] = "UNAVAILABLE"
    <3>. TAKE m \in Machines
    <3>1. CASE m \in M
      <4>1. m \notin Failing
          BY <1>4, <3>1 DEF Separate
      <4>2. machine_state[m] # "UNAVAILABLE"
        <5>1. \A x \in Mail : x.type = "EVENT_AVAILABLE" => m \notin x.machines
            BY <4>1 DEF MachineFacts, EventsSound
        <5>2. m \notin down
            BY <4>1 DEF MachineFacts, MachineTypes
        <5>. QED
            BY <5>1, <5>2, FactsNow DEF Available
      <4>3. machine_state'[m] # "UNAVAILABLE"
          BY <1>8, <1>11, <3>1, <4>2
      <4>. QED
          BY <4>2, <4>3
    <3>2. CASE m \notin M
        BY <1>11, <3>2
    <3>. QED
        BY <3>1, <3>2
  <2>. QED
      BY <1>2, <2>1, <2>2, FactsNow DEF Available, EventMessages
<1>23. StateMatchesPState'
  <2>1. Busy' = Busy /\ Busy \subseteq UNION using
      BY <1>2 DEF Busy, MachineFacts, JobsSound
  <2>2. ASSUME NEW m \in Machines
        PROVE  /\ machine_state'[m] \in {"IDLE", "COMPUTING"}
                    => pstate'[m] \in Computation
               /\ machine_state'[m] = "SLEEPING" => pstate'[m] \in Sleep
               /\ machine_state'[m] \in {"SWITCHING_ON", "SWITCHING_OFF"}
                    <=> \E c \in switchers' : c.machine = m
               /\ machine_state'[m] = "COMPUTING" => m \in Busy
               /\ m \in Busy
                    => machine_state'[m] \in {"COMPUTING", "UNAVAILABLE"}
    <3>1. /\ machine_state[m] \in {"IDLE", "COMPUTING"} => pstate[m] \in Computation
          /\ machine_state[m] = "SLEEPING" => pstate[m] \in Sleep
          /\ machine_state[m] \in {"SWITCHING_ON", "SWITCHING_OFF"}
               <=> \E c \in switchers : c.machine = m
          /\ machine_state[m] = "COMPUTING" => m \in Busy
          /\ m \in Busy => machine_state[m] \in {"COMPUTING", "UNAVAILABLE"}
        BY DEF StateMatchesPState, MachineFacts
    <3>2. CASE m \in M \ atonce
      <4>1. m \notin Busy
          BY <1>4, <2>1, <3>2
      <4>2. \E c \in switchers' : c.machine = m
          BY <1>6, <1>8, <3>2
      <4>. QED
          BY <1>8, <1>11, <3>2, <4>1, <4>2
    <3>3. CASE m \notin M \ atonce
      <4>1. (\E c \in switchers' : c.machine = m) <=> \E c \in switchers : c.machine = m
          BY <1>6, <1>8, <1>10, <3>3
      <4>2. CASE m \in atonce
        <5>1. machine_state[m] # "SLEEPING"
            BY <1>3, <3>1, <4>2, MachinesAssumption
        <5>. QED
            BY <1>3, <1>11, <3>1, <4>1, <4>2, <5>1
      <4>3. CASE m \notin atonce
          BY <1>11, <3>1, <3>3, <4>1, <4>3
      <4>. QED
          BY <4>2, <4>3
    <3>. QED
        BY <3>2, <3>3
  <2>. QED
      BY <2>1, <2>2 DEF StateMatchesPState
<1>. QED
    BY <1>4, <1>12, <1>13, <1>14, <1>15, <1>16, <1>17, <1>18, <1>19, <1>20, <1>21,
       <1>22, <1>23, AvailableNext DEF MachineFacts
-----------------------------------------------------------------------------
(* The theorems.                                                           *)

\* At the start everything is idle in the initial pstate, and nothing is
\* going on.
LEMMA InitMachines == Init => MachineInv
<1>. SUFFICES ASSUME Init PROVE MachineInv
    OBVIOUS
<1>. USE DEF Init
<1>1. /\ Mail = {} /\ Written = {} /\ Groups = {} /\ Busy = {}
      /\ DOMAIN mailbox = {} /\ DOMAIN switches = {}
    BY DEF Mail, Written, Groups, Busy
<1>2. InitialPState \in Computation /\ InitialPState \in PStates
    BY MachinesAssumption DEF PStates
<1>3. MachineTypes
  <2>1. /\ machine_state \in [Machines -> States]
        /\ pstate \in [Machines -> PStates \cup {Virtual}]
        /\ wanted \in [Machines -> PStates \cup {NoPState}]
        /\ known \in [Machines -> PStates]
      BY <1>2 DEF States
  <2>2. /\ switches \in Seq(Group) /\ mailbox \in Seq(Message)
        /\ proto_writer \in Seq(Event)
      OBVIOUS
  <2>3. /\ computing \subseteq SUBSET Machines /\ switchers \subseteq Switcher
        /\ using \subseteq SUBSET Machines /\ sched_ready \in BOOLEAN
        /\ down \subseteq Failing
      OBVIOUS
  <2>. QED
      BY <2>1, <2>2, <2>3 DEF MachineTypes
<1>4. MachineMail /\ RequestsFresh /\ GroupsSound
    BY <1>1 DEF MachineMail, MailApart, RequestsFresh, GroupsSound
<1>5. SwitchersSound /\ SwitchedSound /\ AcksSound
    BY <1>1 DEF SwitchersSound, SwitchedSound, AcksSound
<1>6. KnownRight /\ JobsSound /\ EventsSound
    BY <1>1, <1>2 DEF KnownRight, JobsSound, EventsSound
<1>7. StateMatchesPState
    BY <1>1, <1>2 DEF StateMatchesPState
<1>8. AvailabilityFollowsEvents
  <2>1. Available
      BY <1>1 DEF Available
  <2>. QED
      BY <2>1, AvailabilityInMail
<1>. QED
    BY <1>3, <1>4, <1>5, <1>6, <1>7, <1>8 DEF MachineInv, MachineFacts, AssertionsHold

\* Nothing is disturbed while nothing happens.
LEMMA StutterKeeps ==
    ASSUME MachineFacts, UNCHANGED vars
    PROVE  MachineFacts'
<1>. USE DEF vars, Mail, Written, Groups
<1>1. MachineTypes' /\ MachineMail'
    BY DEF MachineFacts, MachineTypes, MachineMail, MailApart
<1>2. RequestsFresh' /\ GroupsSound'
    BY DEF MachineFacts, RequestsFresh, GroupsSound, Ungrouped, NotAcked,
           NoSwitcher, NotSwitched
<1>3. SwitchersSound' /\ SwitchedSound' /\ AcksSound'
    BY DEF MachineFacts, SwitchersSound, NotSwitched, SwitchedSound, AcksSound
<1>4. KnownRight' /\ JobsSound' /\ EventsSound'
    BY DEF MachineFacts, KnownRight, JobsSound, NotCompleted, EventsSound
<1>5. StateMatchesPState' /\ AvailabilityFollowsEvents'
    BY DEF MachineFacts, StateMatchesPState, Busy, AvailabilityFollowsEvents, InMail
<1>. QED
    BY <1>1, <1>2, <1>3, <1>4, <1>5 DEF MachineFacts

\* No step but a stutter follows a failed assertion.
LEMMA AbortedStops == Next => aborted = "no"
<1>1. ServerStep => aborted = "no"
    BY DEF ServerStep, Receive, server_on_pstate_modification, server_on_switched,
           server_on_execute_job, server_on_job_completed,
           server_on_event_machine_unavailable,
           server_on_event_machine_available, server_on_sched_ready, ServerTail
<1>2. SchedulerStep => aborted = "no"
    BY DEF SchedulerStep, SchedSetResourceState, SchedExecuteJob, SchedReady,
           Deciding
<1>3. ActorStep => aborted = "no"
    BY DEF ActorStep, EventSubmitter, SwitchBegin, SwitchEnd, JobEnd
<1>. QED
    BY <1>1, <1>2, <1>3 DEF Next

\* Every step keeps the invariant.
LEMMA NextMachines ==
    ASSUME Separate, MachineInv, [Next]_vars
    PROVE  MachineInv'
<1>1. CASE UNCHANGED vars
  <2>1. aborted' = aborted
      BY <1>1 DEF vars
  <2>2. aborted = "no" => MachineFacts'
      BY <1>1, StutterKeeps DEF MachineInv
  <2>. QED
      BY <2>1, <2>2 DEF MachineInv, AssertionsHold
<1>2. CASE Next
  <2>1. aborted = "no" /\ MachineFacts
      BY <1>2, AbortedStops DEF MachineInv
  <2>2. CASE ServerStep
    <3>1. CASE server_on_pstate_modification
      <4>1. aborted' = "no" /\ MachineFacts'
          BY <2>1, <3>1, ModificationKeeps
      <4>. QED
          BY <4>1 DEF MachineInv, AssertionsHold
    <3>2. CASE server_on_switched
      <4>1. aborted' = "no" /\ MachineFacts'
          BY <2>1, <3>2, SwitchedKeeps
      <4>. QED
          BY <4>1 DEF MachineInv, AssertionsHold
    <3>3. CASE server_on_execute_job
      <4>1. /\ aborted' \in {"no", "allocation"}
            /\ Failing = {} => aborted' = "no"
            /\ aborted' = "no" => MachineFacts'
          BY <2>1, <3>3, ExecuteHandlerKeeps
      <4>. QED
          BY <4>1 DEF MachineInv, AssertionsHold
    <3>4. CASE server_on_job_completed
      <4>1. aborted' = "no" /\ MachineFacts'
          BY <2>1, <3>4, CompletedHandlerKeeps
      <4>. QED
          BY <4>1 DEF MachineInv, AssertionsHold
    <3>5. CASE server_on_event_machine_unavailable
      <4>1. aborted' = "no" /\ MachineFacts'
          BY <2>1, <3>5, UnavailableHandlerKeeps
      <4>. QED
          BY <4>1 DEF MachineInv, AssertionsHold
    <3>6. CASE server_on_event_machine_available
      <4>1. aborted' = "no" /\ MachineFacts'
          BY <2>1, <3>6, AvailableHandlerKeeps
      <4>. QED
          BY <4>1 DEF MachineInv, AssertionsHold
    <3>7. CASE server_on_sched_ready
      <4>1. aborted' = "no" /\ MachineFacts'
          BY <2>1, <3>7, ReadyHandlerKeeps
      <4>. QED
          BY <4>1 DEF MachineInv, AssertionsHold
    <3>8. CASE ServerTail
      <4>1. aborted' = "no" /\ MachineFacts'
          BY <2>1, <3>8, TailKeeps
      <4>. QED
          BY <4>1 DEF MachineInv, AssertionsHold
    <3>. QED
        BY <2>2, <3>1, <3>2, <3>3, <3>4, <3>5, <3>6, <3>7, <3>8 DEF ServerStep
  <2>3. CASE SchedulerStep
    <3>1. aborted' = aborted
        BY <2>3 DEF SchedulerStep, SchedSetResourceState, SchedExecuteJob, SchedReady
    <3>2. MachineFacts'
      <4>1. ASSUME NEW M \in SUBSET Machines, NEW p \in PStates,
                   SchedSetResourceState(M, p)
            PROVE  MachineFacts'
          BY <2>1, <4>1, SetResourceStateKeeps
      <4>2. ASSUME NEW M \in SUBSET Machines, SchedExecuteJob(M)
            PROVE  MachineFacts'
          BY <2>1, <4>2, ExecuteJobKeeps
      <4>3. CASE SchedReady
          BY <2>1, <4>3, SchedReadyKeeps
      <4>. QED
          BY <2>3, <4>1, <4>2, <4>3 DEF SchedulerStep
    <3>. QED
        BY <2>1, <3>1, <3>2 DEF MachineInv, AssertionsHold
  <2>4. CASE ActorStep
    <3>1. ASSUME NEW M \in SUBSET Failing, EventSubmitter(M)
          PROVE  aborted' = "no" /\ MachineFacts'
      <4>1. MachineFacts'
          BY <2>1, <3>1, EventSubmitterKeeps
      <4>. QED
          BY <2>1, <3>1, <4>1 DEF EventSubmitter
    <3>2. ASSUME NEW a \in switchers, SwitchBegin(a)
          PROVE  aborted' = "no" /\ MachineFacts'
        BY <2>1, <3>2, SwitchBeginKeeps
    <3>3. ASSUME NEW a \in switchers, SwitchEnd(a)
          PROVE  aborted' = "no" /\ MachineFacts'
        BY <2>1, <3>3, SwitchEndKeeps
    <3>4. ASSUME NEW J \in computing, JobEnd(J)
          PROVE  aborted' = "no" /\ MachineFacts'
        BY <2>1, <3>4, JobEndKeeps
    <3>5. aborted' = "no" /\ MachineFacts'
        BY <2>4, <3>1, <3>2, <3>3, <3>4 DEF ActorStep
    <3>. QED
        BY <3>5 DEF MachineInv, AssertionsHold
  <2>. QED
      BY <1>2, <2>2, <2>3, <2>4 DEF Next
<1>. QED
    BY <1>1, <1>2

\* The facts about the machines hold until an allocation fails.
THEOREM MachineInvariant ==
    ASSUME Separate
    PROVE  Spec => []MachineInv
<1>1. MachineInv /\ [Next]_vars => MachineInv'
    BY NextMachines
<1>. QED
    BY <1>1, InitMachines, PTL DEF Spec

\* The xbt_asserts on machines, in server.cpp, pstate.cpp, machines.cpp and
\* event_submitter.cpp hold, but the one on an allocation of a machine that
\* became unavailable; that one too when no machine ever does.
THEOREM MachineAssertionsHold ==
    ASSUME Separate
    PROVE  Spec => []AssertionsHold
<1>1. MachineInv => AssertionsHold
    BY DEF MachineInv
<1>. QED
    BY <1>1, MachineInvariant, PTL

\* The MachineState of a machine agrees with the pstate of its host, with the
\* switch processes and with the jobs computed on it.
THEOREM StatesMatch ==
    ASSUME Separate
    PROVE  Spec => []StateMatchesPState
<1>1. MachineInv => StateMatchesPState
    BY DEF MachineInv, MachineFacts, StateMatchesPState
<1>. QED
    BY <1>1, MachineInvariant, PTL

\* A machine is UNAVAILABLE exactly between its two events, whatever jobs end
\* or start on it and however far the event submitter is ahead of the server.
THEOREM UnavailableBetweenEvents ==
    ASSUME Separate
    PROVE  Spec => []AvailabilityFollowsEvents
<1>1. MachineInv => AvailabilityFollowsEvents
    BY DEF MachineInv, MachineFacts, AvailabilityFollowsEvents
<1>. QED
    BY <1>1, MachineInvariant, PTL
=============================================================================
