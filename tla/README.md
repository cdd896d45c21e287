# Verification of Batsim and batsched

The repository holds two programs that run as a pair. **Batsim** (`src/batsim4`) simulates a cluster
on top of SimGrid: it replays workloads, executes and kills jobs, switches power states and keeps all
the books. **batsched** (`src/batsched4`) is the scheduler: it receives Batsim's events in a message,
answers with decisions in a reply, and contains the scheduling algorithms. This directory holds TLA+
models of the parts where their own logic lives, the TLC runs that check them and the theorems TLAPS
proves about them. `PROJECT.json` links every definition to the lines it models.

## 1. Inventory

| Component | State | Operations | Interacts with | What makes it correct |
|---|---|---|---|---|
| Server (`server.cpp`) | counters of submitted, running, completed and killed jobs, killers and waiters; submitters; `origin_of_jobs`; `jobs_to_be_deleted`; `sched_ready` and the end flags | one handler per `IPMessageType`; the tail of the loop that calls the scheduler; end detection | every actor, through the FIFO mailbox `server` | counters agree with reality, one request at a time, the end is declared once and when nothing is left, no assertion fires |
| Submitters (`job_submitter.cpp`, `workflow.cpp`) | jobs to send, tasks awaiting a callback | hello, submit, wait for a callback, bye | server | each task is submitted when its parents are done; each submitter terminates |
| Job actors, killers, waiters (`jobs_execution.cpp`) | job state, the tree of tasks, what is left of the walltime, child actors | start, execute a task, end, cancel, kill, sleep | server, profiles | tasks run in the order and number the profile says; a job ends once, by itself, its walltime or a kill |
| Profiles and tasks (`profiles.cpp`, `task_execution.cpp`) | the profiles of the workload and the links between them | matrices of each type, merge with an IO job, garbage collection | job actors, SimGrid | work is done on the machines allocated; no profile disappears while a job needs it |
| REQ-REP process and protocol (`network.cpp`, `protocol.cpp`) | the request being answered | one handler per decision, then `SCHED_READY` | server, batsched | alternation of requests and replies |
| Machines and power states (`machines.cpp`, `pstate.cpp`) | `MachineState`, host pstate, running jobs, the grouped switches in progress | switch actors, allocation, release | server | state agrees with the host; each request is acknowledged |
| Event submitter (`event_submitter.cpp`, `events.cpp`) | the list of events | send the events of a date | server | availability follows the list |
| batsched main loop, base class (`main.cpp`, `isalgorithm.cpp`, `decision.cpp`) | recent lists, timers, checkpoint dates | dispatch of events, `make_decisions`, clear, resubmission | algorithm | each event reaches the algorithm once; a killed job comes back once |
| Schedule (`schedule.cpp`) | consecutive time slices with allocations and free machines, counters, machines under repair | first fit, removal and merge, reservations, repairs | easy_bf, easy_bf2, conservative_bf | a job holds its machines without a hole; no machine is promised twice |
| easy_bf, easy_bf2 | schedule with the running jobs and the head, queue, failures | `make_decisions`, failures and repairs | Schedule, base class | the head is never delayed by backfilling |
| conservative_bf | schedule with every queued job, reservations, kills in progress | `make_decisions`, reservations, kills, compression, failures | Schedule, base class | no queued job is delayed; reservations start on time; the end is announced |
| easy_bf3 and its heap sort (`algo/easy_bf3.cpp`) | queue, vector of running jobs, available machines and their number, priority job | `make_decisions` and its helpers; `sort_max_heap` | queue, base class | no machine shared or lost; the head's reservation; a sorted permutation |
| fcfs_fast, fcfs_fast2, easy_bf_fast2, holdback | available, held-back, shared and repaired machines, horizons, priority job | `make_decisions`, share packing, failures | base class | sets and counters agree; the priority job starts on time |
| Queue (`queue.cpp`) | list of jobs and its order | append, remove, sort | algorithms | FCFS order (`main.cpp:259` always installs `OriginalFCFSOrder`, whatever `--queue_order` says) |
| Checkpoint and restart (`protocol.cpp`, `workload.cpp`, `isalgorithm.cpp`, `conservative_bf.cpp`) | rotated folders, each with a part of Batsim and a part of batsched | notify, write, rotate, ingest | both programs | both parts of one folder are of one date; no saved job is lost |
| Start-up, export, storage, scripts | files, platform | I/O | | out of scope, section 6 |

The hard behaviours are about order: a job that ends while its kill is on the way, decisions taken from a
view that lags the server, two actors that write the state of one machine, an end that is detected from six
counters, a reservation that waits for kills while jobs arrive, a failure during a reservation, a crash
between the two halves of a checkpoint, a walltime that strikes inside a nested sequence. `PROJECT.json`
lists them as hazards, each with the line where it bites and the properties that would catch it, or the reason
why none does.

## 2. Modules

| Module | Models |
|---|---|
| `BatsimServer`, `MCBatsimServer`, `BatsimServerProofs` | the server, the submitters, the job actors, killers, waiters and the REQ-REP process, composed through the mailbox |
| `BatsimMachines`, `MCBatsimMachines`, `BatsimMachinesProofs` | machine states, pstate switches and availability events, with the handlers of the server that touch them |
| `TaskMatrices`, `Execution`, `MCExecution`, `ExecutionProofs` | what happens inside a running job: matrices, the tree of tasks, walltime, messages, traces, kills, profiles |
| `Platform`, `BatsimSide` | jobs and machines; Batsim as a scheduler sees it: clock, submissions, ends, kills, timers, resubmission |
| `ScheduleOps` | the operations of class `Schedule` as operators on a record |
| `Schedule`, `Calendar`, `MCSchedule`, `ScheduleProofs` | the schedule under the calls the algorithms make, and the abstract calendar it implements; the proofs are also about `EasyBF2` |
| `EasyBF`, `EasyBF2`, `MCEasyBF2` | easy_bf, and easy_bf2 with failures |
| `ConservativeBF`, `MCConservativeBF` | conservative backfilling: `ScheduleOps` composed with `BatsimSide` |
| `FastBF`, `MCFastBF`, `FastBFProofs` | the variants that keep their own sets of machines |
| `EasyBF3`, `MCEasyBF3`, `EasyBF3Proofs` | easy_bf3 with its queue, driven by an abstract Batsim |
| `HeapSort` | the heap sort of easy_bf3, proved about in `EasyBF3Proofs` |
| `Folding` | no part of the program: what a loop over a list yields, as lemmas the proofs instantiate |
| `Restart`, `MCRestart`, `RestartProofs` | checkpoints of a simulation, crash and restart: `ConservativeBF` composed with Batsim's part |

**BatsimServer.** Variables keep the names of the fields of `ServerData` and `BatsimContext`. `mailbox` is
the FIFO mailbox; a blocking `put` is a message whose sender does nothing until it is taken (`Blocked`).
Each handler is one action: `Receive(type)` takes the message, the action does everything the handler
does, and every `xbt_assert` of the handler becomes a disjunct of `aborted'`, so that "no assertion
fires" is the invariant `NoAssertionFails`. `ServerTail` is the rest of the loop body: call the
scheduler, delete the jobs, or declare the end. `Init` is the state after `server_process` has created
the REQ-REP actor of `SIMULATION_BEGINS`. `SUCCESSFULLY`, `FAILED` and `WALLTIME_REACHED` are one state,
since the server treats them alike. `is_simulation_finished` has the conditions of the code but those on event
submitters and on machines that switch their pstate, which this module does not have.

**BatsimMachines.** A job is the set of machines it runs on. A switch request adds a `Switch` record; the
machines between two computation pstates change at once, the others get an actor. `Marked`, `Pending` and
`Acks` are the loop of `mark_switch_as_done`. `aborted` names the assertion that failed, because one of
them (`"allocation"`) is a legitimate consequence of late knowledge.

**Execution.** A job's current task is the path from the root of its tree of tasks to the leaf being
executed; `GoUp` is the return from `execute_task`, `initialize_sequential_tasks` the descent. Time is
discrete and passes when no actor can run. `remaining` is `remaining_time`, with -1 for none, and every
blocking call is cut at it. A `recv` polls, matches, fails or times out, and goes on with another profile.
A trace has one child actor per rank. `killer_process` cancels a running parallel task or kills the actors.
`TaskMatrices` gives the computation vector and the communication matrix of each profile type and the merge
with an IO job; the leaf's matrices are in the history that `WorkWhereAllocated` reads. Profiles are linked
when they are loaded, dropped when unused, and collected with the last job that names them.

**ScheduleOps, Schedule, Calendar.** A schedule is a record with the sequence of slices. A slice has its
dates, its jobs with their machines, the machines it offers and its counters, as in `TimeSlice`. `ok`
becomes false when an assertion of `schedule.cpp` fails. `Schedule` makes each uninterrupted sequence of
calls that an algorithm makes one action. `Calendar` knows no slices: a job has a period and machines,
placed at the earliest possible start. `CalendarOf` is the refinement mapping, and `ImplementsCalendar` states
that every step of the slice list is a step of the calendar.

**EasyBF, ConservativeBF, FastBF, Restart.** One call of `make_decisions` is one action; the state of an algorithm is
a record that its handlers, operators, transform in the order of the code. `BatsimSide` gives it messages: a job ends
at any date up to its walltime, a kill takes effect some time after it is asked for and may find the job ended, timers
ring at their dates. A killed job is resubmitted as a new version. `JOB_KILLED` reads a progress through a pointer
that some paths leave uninitialised (`main.cpp:645-687`); the model lets the scheduler stop there (`Readable`). Timers
ring at their dates, so what conservative_bf does about a call that comes late (`incorrect_call_me_later`) is left
out. `FastBF` has the five variants in one module, told apart by `config.variant`. A failure strikes any machine, and
`REPAIR_DONE` gives back the machine with the number of the call, as the code does (section 4): another one, which may
be busy, or one that does not exist. Batsim then stops at the first allocation that it does not accept (`Refused`:
fewer machines than asked for, a machine that does not exist or that executes another job). `mistaken` is a history
field that tells that this has begun. In `Restart` the scheduler's notification, Batsim's write, the answering call
and the scheduler's write are four steps; `Restart(n)` loses the simulation at any moment and starts it from folder
`n`. The names of restarted jobs and the dates shifted to zero are left out.

**EasyBF3, HeapSort.** In `EasyBF3` the loops of `make_decisions` are steps (`pc`); nothing else happens until
it returns. The vector of running jobs is sorted by `sort_max_heap`, which is not stable; the model allows
every order of equal dates (`SortedVersions`), and `HeapSort` shows separately that the heap sort yields
one of them.

**External parts**, modelled from how the code uses them:

* *SimGrid*: tasks end, sleepers wake and submission dates come at any moment; actors that are ready
  (freshly created, or cancelled) run before the server receives its next message (`NoActorReady`),
  and before a killer created at the same date (`Quiet`), which is how SimGrid's scheduling rounds work.
* *The scheduler* in the Batsim models: it takes any decision that follows from the messages it was sent
  (`view`, `FreeInView`), so it is wrong only where its knowledge is late. It takes none after
  `SIMULATION_ENDS`.
* *Batsim* in the scheduler models: `BatsimSide`, or the reduced one in `EasyBF` and `EasyBF3`.
* *Random generators*: a failure strikes at any date and any machine. A repair takes `repair_time`; where the code
  draws the length of a repair (MTTR), the models have this fixed one.

## 3. Runs

| Run | Instance | Checks | States |
|---|---|---|---|
| `server_safety` | 2 static jobs, 2 machines, 2 kill requests, 1 timer, a rejection | assertions, counters, alternation, end, view | 168 041 |
| `server_mixed` | a chain of 2 workflow tasks with limit 1, a static job, a job registered and driven by `CHANGE_JOB_STATE`, `-k`, a scheduler that does not idle | `SimulationEnds`, deadlock | 142 670 |
| `machines` | 2 machines with 2 computation pstates and a sleep pstate, a third that fails, 2 requests, 2 events, a job | assertions, states, availability, `SwitchesAcknowledged` | 263 428 |
| `execution` | 4 jobs: nested sequence, send and recv, trace then transfers, a registered one with an IO job that moves data or computes on a part of its machines; walltimes and kills | assertions, order of tasks, kills, where flops and bytes go, deadlock | 941 790 |
| `schedule` | 4 jobs, reservations, one repair, dates up to 3 | assertions, unbroken jobs, no machine twice, refinement of `Calendar` | 45 941 |
| `easybf` | easy_bf and easy_bf2, 4 jobs, one too large, 2 failures with and without repair | agreement with Batsim, the head's promise, `EveryJobEnds` | 103 459 |
| `conservative` | 4 jobs; 2 jobs with 2 reservations under both policies; failures with and without repair | assertions, agreement, promises, `SimulationFinishes` | 117 524 |
| `fast` | 5 variants, 6 jobs, one too large, share packing, held-back machine, failures, overlapping repairs of any machine | books, priority job, FCFS order, `SimulationFinishes` | 653 191 |
| `easybf3` | 4 machines, 4 jobs, one to reject | accounting, the head's reservation, `EveryJobEnds` | 112 274 |
| `heapsort` | every vector of up to 6 entries over 4 dates | permutation, order | 132 903 |
| `restart` | 4 jobs with one folder; 2 with two folders and a signal; 2 with a reservation and three folders; 2 crashes | consistency, rotation, saved jobs, `RestartedRunEnds` | 434 845 |
| `restart_lost` | all jobs ended at the checkpoint, one comes later | `NoJobForgotten` | violated |

**Bounds.** Every counter that could grow is bounded by a named constant: `MaxKills`, `MaxCalls`,
`MaxSwitches`, `MaxJobs`, `MaxEvents`, `MaxTimers`, `MaxFailures`, `MaxRestarts`, `MaxBuffered`, `MaxDate` and
the `last` date of a simulation; registration is reopened at most once; `Horizon` stands for the infinite end
of a schedule. Two jobs and two kill requests are the least with which a kill can race a completion, overlap
another kill and name a job already erased. Two machines suffice for a group that finishes in two orders. Four
jobs are the least with which a backfilled job passes a waiting head while another job runs and a fourth
competes; three machines leave room for one on which to fail. Two reservations, one immediate and one later on
a given machine, make the first kill and the second wait. Two failures hit a job and its resubmission, or
strike during a repair. Two crashes allow a restart from a restarted run's folder. Six entries give a heap
with three levels, with a last parent that has one child and one that has two. No symmetry is used.

**Deadlock.** It is checked in `server_mixed`, whose scheduler always acts and whose regular end is `Finished`,
and in `execution`. The other runs disable it: a scheduler that leaves a job in its queue for ever stops the
server, a finished workload stops a scheduler, the bounds stop the machines, and a sorted vector stops the sort.

**Fairness.** `WF_vars(Next)` for the server, the machines and easy_bf3: something happens as long as something
can. SimGrid runs until no actor can progress, tasks and sleeps end, and the server waits for the reply of the
scheduler. It is enough because every behaviour of these instances has finitely many steps. `Eager` restricts
the abstract scheduler in `server_mixed` to one that does not leave executable jobs idle, without which nothing
can be promised. The scheduler models assume that time passes, jobs are submitted and end by their walltime,
timers ring, and a message is answered: `[]<>(Delivered \/ Stopped)` is weak fairness of `make_decisions`, which
is enabled until the message is delivered or an assertion has stopped the scheduler. Nothing is assumed about
failures, signals, crashes and kills. `EveryJobEnds` of `easybf` is claimed for easy_bf only: under easy_bf2 a
repair may never end (section 4). In `execution` termination is stated as safety: walltimes bound the elapsed
time and no state is stuck.

**Conditions.** Where the code breaks a promise in a known case, the property names the case and holds outside it:
`AssertionsHold` of `Schedule` and `ConservativeBF` excludes repairs that take time, liveness of the schedulers
accepts a scheduler that an assertion has stopped, `BooksBalance` and `SimulationFinishes` of `fast` say nothing more
once a `REPAIR_DONE` has been taken for another machine than the one repaired (`mistaken`), `RunningAgrees` of
`easybf` nothing more once an assertion has failed, which under easy_bf2 the first kill reported makes fail,
`LatestIsConsistent` waits for the scheduler's answer and compares dates only, `LastOnesKept` bounds dates from below
only where no signal asks for a checkpoint, `RestartedRunEnds` excludes forgotten jobs and reservations that were
waiting. Instances avoid a case only where it must be avoided: `machines` switches some machines and fails another,
`server_mixed` does not kill workflow tasks, `execution` kills only jobs without a `recv` and gives the receiver
profiles of its own, `fast` has repairs only for fcfs_fast2, `schedule` has no walltime that equals the date of an
empty first slice, `conservative` has an unlimited `queue_depth` and failures under the policy AFFECTED.

Each property of a passing run has a mutant of the model, a plausible slip in the code (a dropped guard, a
missed decrement, a wrong bound), under which TLC finds it violated.

## 4. Findings and known divergences

The run `restart_lost` shows a restart that forgets a job: `on_first_jobs_submitted` clears the queue the first
jobs are in (`algo/conservative_bf.cpp:252`), which is harmless only if those jobs are the ones that ran at the
checkpoint, as its comment at line 169 expects.

The following were met while modelling. The models do what the code does; the conditions and instances of
section 3 keep the passing runs clear of them. Paths are under `src/batsched4/src` for the scheduler and
`src/batsim4/src` for Batsim.

*Server and machines.* A second `KILL_JOB` for the same jobs is dropped without the acknowledgement that
`docs/protocol.rst:813` promises (`server.cpp:976`). A killed workflow task never calls its submitter back
(`server.cpp:685`, `ipp.hpp:86`). A pstate switch overwrites `UNAVAILABLE`, and the assertion at `server.cpp:424`
stops a valid simulation. A scheduler that answers `SIMULATION_ENDS` with `CALL_ME_LATER` meets an assertion
(`server.cpp:156`).

*Execution.* The kill of a job inside a profile that a `recv` started fails the assertion at `jobs.cpp:158`.
`remove_profile` drops the parts of a sequence that another profile still uses (`profiles.cpp:105-127`), and profiles
named only by a `recv` are dropped at load. Composed profiles that are registered dynamically, and composed IO
profiles, are never linked. With `data_staging` on more than two machines the check of permissions reads past the
vector (`task_execution.cpp:441-463`). A delay equal to the walltime counts as the walltime reached.
`profiles.cpp:711` tests `type == "smpi" || "usage_trace"`, which is always true. There is no check for circular
sequences (`workload.cpp:576`).

*Schedule.* While the first slice is empty, the walltime of a reservation that runs, a duration, is compared with the
date at which that slice ends (`schedule.cpp:976`). After a repair two slices with the same jobs may offer different
machines, and the merge asserts that they do not (`schedule.cpp:2598`). `nb_reservations` is decremented twice for a
reservation that started (`schedule.cpp:1306`, `2572`). A new reservation may take machines of an earlier one
(`schedule.cpp:796`). A rejected reservation leaves slices split (`schedule.cpp:897-932`).

*easy_bf2 and the fast2 variants.* `add_call_me_later` sends a running number instead of the id it is given
(`decision.cpp:494`), and `REPAIR_DONE` takes that number for the machine that was repaired (`algo/easy_bf2.cpp:320`,
`algo/fcfs_fast2.cpp:267-278`). Another machine becomes available, which may be busy, under repair itself, or not
exist; the one that failed stays away, and a job that needs it never starts. easy_bf2 removes a killed job from
the schedule twice and meets an assertion (`algo/easy_bf2.cpp:353`, `schedule.cpp:733`). In easy_bf_fast2 a finished
job returns machines that are under repair, an allocation is used after it was erased (`423`, `433`), and a started
priority job is not in `_running_jobs` (`572-591`).

*conservative_bf.* Compression stops after `queue_depth` jobs (`1036`, comment at 1027). Jobs that arrive while a
reservation waits for kills are added twice (`956`, `1494`). A rejected reservation stays in its queue and the end
is never announced (`1377`). The policy ALL adds jobs twice after a failure (`451`).

*easy_bf3.* `extra_resources` is not decreased by a backfilled job that outlives `shadow_time`
(`algo/easy_bf3.cpp:266`), so the head may be delayed.

*Checkpoints.* A requested checkpoint is counted as a scheduled one (`isalgorithm.cpp:247`). `_nb_batsim_checkpoints`
is not restored. A crash between the two halves leaves a latest folder with one of them. The calls that had been asked
for are written and not read, so waiting reservations never start. A job that ends between the two halves is in the
schedule of one and not in the workload of the other. `future_allocation` is written and `alloc` is read;
`jobs_needed_to_be_killed` and `jobs_to_be_killed` are two names of one key. A workload without unfinished jobs is
written as invalid JSON. `value->id` is written through an uninitialised pointer when killed jobs are ingested
(`isalgorithm.cpp:385`).

## 5. Proofs

The theorems hold for all values of the constants that satisfy the named assumptions (`PlatformAssumption`,
`ServerAssumption`, `MachinesAssumption`, `EasyAssumption`, `CallsAssumption`, `HeapAssumption`,
`SimulationAssumption`, `RestartAssumption`, `ExecutionAssumption` and their like: finite sets, positive sizes,
disjoint submitters, identifiers that are numbers, dates before the end of time). TLC evaluates the assumptions in
every run that extends their modules. Each inductive invariant was checked by TLC on the instance of its run before
it was proved.

| Theorem | States | Inductive invariant |
|---|---|---|
| `TypeCorrect`, `RequestsAlternate` | `TypeOK`, `OneRequestAtATime` of the server | themselves |
| `NoAssertionEverFails`, `CountersAlwaysAgree`, `TheEndIsFinal`, `FreeMachinesAreFree` | the other safety properties of `server_safety` | `SafeInv` |
| `MachineAssertionsHold`, `StatesMatch`, `UnavailableBetweenEvents` | the safety properties of `machines` | `MachineInv` |
| `KilledJobsAreStopped` | `KilledJobsStop` of `execution` | `ActorsInv` |
| `SchedulerTypes`, `NoMachineShared` | `TypeOK`, `MachinesSharedOut` of easy_bf3 | `Accounted` |
| `TheHeadIsReserved` | `HeadIsReserved` of easy_bf3 | `HeadInv` |
| `SortKeepsEntries`, `SortSorts` | the properties of `heapsort` | `TypeOK`, `HeapInv` |
| `TheLastOnesAreKept` | `LastOnesKept` of `restart` | `CheckpointInv` |
| `TheLatestIsConsistent` | `LatestIsConsistent` of `restart` | `CheckpointInv`, `ConsistentInv` |
| `NoAssertionFails`, `NoMachineTwice`, `JobsStayWhole` | `AssertionsHold`, `NothingOfferedTwice`, `JobsUnbroken` of `schedule` | `ScheduleInv` |
| `SlicesImplementCalendar` | `ImplementsCalendar` of `schedule` | `ScheduleInv` |
| `CalendarSound` | `NoOverlap` of `Calendar` | `Inv` |
| `NoJobOnRepair`, `ScheduleAgrees` | `RunsOnWorkingMachines`, `RunningAgrees` of `easybf` | `EasyInv` |
| `BooksAlwaysBalance` | `BooksBalance` of `fast` | `FastInv` |
| `ServedInTurnAlways` | `FirstComeFirstServed` of `fast` | `FastInv` |

**The server** (`BatsimServerProofs`). `TypeCorrect` is one lemma per group of actions; what it
uses of the messages is that each type has its senders. `RequestsAlternate` rests on one token: only the REQ-REP
process sends `SCHED_READY` or decisions, its put blocks until the server has taken the previous one, the server
raises `sched_ready` only on `SCHED_READY` and lowers it with every call.

None of the other four is inductive. A handler's assertion holds because of what the senders of its message did
long before, and a counter is right because every message in flight will be counted once. `SafeInv` therefore says
where everything is: `MailSound` (which messages exclude each other, and which jobs they name), `LifeCycle` (each
job is at exactly one point of its life, from its submitter through its decision, its actor and its kill to its
erasure, and the point determines its state, the scheduler's view of it, its mail and its buffered event),
`KillInv` (a killer works on jobs that were marked and not erased, alone, while the scheduler cannot be called),
`MachineInv` (a machine lists the jobs that execute on it, and the allocations the scheduler holds are
disjoint), `SubmitterInv`, `RegistrationInv`, `EndInv` (what is over when the end
flags are raised) and `CountersAgree`. The preservation proof has a lemma per action; `CountersAgree` is in it
because the end is detected from the counters, so `EndIsFinal` needs them, while the counters need to know that no
handler runs after the end. `NoAssertionFails` follows each assertion to the part that guarantees it.

**The machines** (`BatsimMachinesProofs`). `MachineInv` says that nothing but the assertion on an allocation fails, and
until it does `MachineFacts` holds: the groups of switches in progress are disjoint and their processes are those of
machines not yet switched (`GroupsSound`, `SwitchersSound`, `SwitchedSound`), an acknowledgement names machines that
are done (`AcksSound`), a request names machines that are settled (`RequestsFresh`), jobs hold machines that compute
(`JobsSound`), and the event submitter is ahead of the server by one event (`EventsSound`). The loop
of `mark_switch_as_done`, which erases groups while it walks them, is the part that needs lemmas on sequences.
The theorems suppose `Separate`, that no machine is both switched and subject to events. It cannot be dropped: in
the code a switch overwrites `UNAVAILABLE` (section 4), and the properties fail. The instance of `machines` has
the first two machines switched and the third one failing.

**Execution** (`ExecutionProofs`). `KilledJobsStop` says that no actor is left of a job that is over and that a job whose
killer has run ends before time passes. `ActorsInv` adds what the actor of a killed job can still do (its
cancelled task returns -2, and -2 goes up the path without starting another task), that only jobs that have been
started have a killer, and that a job is deleted only when it has ended, so that a killer never meets a later job.

**easy_bf3** (`EasyBF3Proofs`). `MachinesSharedOut` is not inductive: an end adds the size *recorded* in the entry to the
counter, so `Accounted` adds that an entry records the size of its job and as many machines. `StartSound`,
`FinishSound` and `SortSound` show that starting, ending and reordering keep it. For the head's reservation, `p_job`
is stale during a call: `HeadInv` says from which step to which, and why `BackfillAll` always meets the head before it
uses the reservation. That the head comes first rests on the queue being sorted, and on removals keeping the order.

**The heap sort** (`EasyBF3Proofs`). The sort stays inside the vector and permutes it, from `LatestInHeap` and
`SwapKeepsEntries`. `HeapInv` follows `max_heapify` down: the heap is ordered but at the entry that sinks, whose children
are not later than its parent (`SinkingFits`), and the tail is sorted and not earlier than the heap. That the root is
the latest is an induction over the heap, done as the least counterexample of a well-founded order.

**Checkpoints** (`RestartProofs`). `CheckpointInv` ties the scheduler's count, the one notification that may be on its way
and the folders: as many as were taken up to the limit, dated and in order, each not earlier than its multiple of
the interval while no signal asked for one. It holds for every restart from every folder.

That both parts of the latest checkpoint are of the same date rests on three facts. Batsim makes its call for the
scheduler's part at the present date and time does not pass until it is answered (`CallIsPresent`), the answer
writes the part of the folder that Batsim has just dated (`PartsAgree`), and nobody else makes such a call. The last is
about every step of a decision of conservative_bf, since its calls share the timers with Batsim's: `DecisionDecides`
goes through all its loops and finds that they ask for other calls only, and that its queues stay lists. `ConsistentInv`
adds the types of what is written and read back, because a restart goes on with the lists it finds in a folder.

**Loops** (`Folding`). The loops of the schedulers over queues, events and slices are `FoldLeft` in the models, which
the provers cannot expand for a list of any length. `Folding` has the body of a loop and a relation between what it
starts with, the number of passes and what they have yielded as constants: if the first pass starts from the relation
and every pass keeps it, the loop ends in it (`LoopInvariant`). A proof instantiates the module for each of its loops,
so that a lemma about a loop is one about a single pass. The lists that loops go through are often those of a set in
some order (`Ascending`, `Listed`); that they hold every member once is proved by induction on the set.

**The slices** (`ScheduleProofs`). `ScheduleInv` says of one slice that it gives no machine twice, offers none that is
given or under repair and counts no more than it offers (`Sound`); of the list that a job is in consecutive slices
with the same machines in each (`Steady`), that the dates of the slices join up to the horizon (`Timed`) and that a
job's slices last as long as it may run, or as long as what is left of it (`Lasting`); and that until a machine has
failed a slice offers *all* machines that it has not given (`Exact`). The last is what the assertions need: two slices
with the same jobs then offer the same machines, which the merge asserts. It is lost with the first repair, as section
4 tells. Each operation is proved on its own from what it does to the list (`SplitAt`, `Given`, `Freed`, `Merged`,
`Offered`), and says in the end which jobs keep their period.

These theorems and those about easy_bf2 suppose that there are no reservations, which only conservative_bf has. With
them the invariant does not hold for every workload: while the first slice is empty, the walltime of a running
reservation, a duration, is compared with the date at which that slice ends (`schedule.cpp:976`), and where they happen
to be equal another reservation is put on machines that it still holds. The instance of the run `schedule` has
reservations, and no such coincidence.

**The refinement.** The state of the calendar is computed from the slices: a planned job has the beginning of its first
slice, the end of its last one and its machines. That a split, a merge, a repair or an insertion elsewhere is a stutter
of the calendar is `SamePeriods`, which each operation on slices is shown to yield for the jobs it is not about. That
first fit finds the *earliest* start is in three lemmas: a machine offered by all slices from one date to another is
free between them (`AvailableIsSpare`); before the first failure the converse holds too (`SpareIsAvailable`, from
`Exact`); and a job that can start at some date can start at the beginning of a slice that is not later, or at the date
from which it was looked for (`AnchorThere`).

**easy_bf2** (`ScheduleProofs`). `EasyInv` says that the jobs Batsim runs are in the first slice on the machines they were
given, and that none of these is under repair. Inside a decision it is carried by `Decides` (each job started is in
the first slice, each job that ran still is) through the loops that plan the head and backfill behind it, and by
`Suffers` through the failures, which remove the jobs of a machine before they withdraw it.

**The fast variants** (`FastBFProofs`). `Books` says that the machines are the free ones, the held-back ones, those
under repair, those of whole jobs and those whose cores are shared, that the counter counts the free ones, and that a
shared machine has as many cores in use as its jobs ask for. The books hold until the end of a repair is taken for
that of another machine (`mistaken`), and not longer; the types and the queue do not rest on them (`Fields`, `InLine`)
and are right for ever. `FastInv` adds that a job on a failed machine has a kill on its way, which reaches the
scheduler before the repair is over, that an announced end of a repair is that of a machine under repair
(`RepairsEnd`), that a job in the queue waits in Batsim, and where the priority job may be. `FirstComeFirstServed`
needs no exception. `RepairsAreHandled` is supposed: only fcfs_fast2 without share packing keeps a machine under
repair out of the free ones; the other variants hand it out again (section 4). For `FirstComeFirstServed`, `Follows`
says that the queue after each loop is the queue before it without the jobs that were started or rejected, in the same
order, and fcfs stops at the first one that does not fit.

**The calendar** (`ScheduleProofs`). With the types of the allocations `NoOverlap` is inductive: a job is placed only
where its machines are free for its whole period, a removal takes away, and the passing of time only shortens periods.

**Only model-checked**, and why:

* all liveness (`SimulationEnds`, `SwitchesAcknowledged`, `EveryJobEnds`, `SimulationFinishes`, `RestartedRunEnds`), which
  is out of the prover's reach;
* `AssertionsHold`, `PresentIsRunning` and `ReservationsOnTime` of `ConservativeBF`: they are about reservations, for which
  the invariant of the slices does not hold in general, and `HeadNotDelayed`, `NoJobDelayed` and `PriorityOnTime`, which
  compare whole plans before and after a decision;
* of `Restart` `SavedJobsKept`: a job of the saved schedule must be known to Batsim, which needs the invariant of the
  slices where there are reservations;
* `ExecutedAsDescribed`, `WorkWhereAllocated` and `AssertionsHold` of `Execution`, which are about what the recursive
  functions on the tree of tasks and the folds of the matrices yield.

## 6. Not modelled

* **Start-up** (`batsim.cpp`, `main.cpp` before the loop): command lines, logging, permissions and the creation of
  the platform. It runs once, before anything concurrent.
* **Load-time options of a workload** (`workload.cpp:82-412`): copies and shifted submission dates. They rewrite the
  input once. (`--copy` numbers copies from the largest id of the jobs it copies, which leaves out reservations.)
* **Arithmetic of job-level checkpoints** (`decision.cpp:195-465`, `jobs.cpp:700-945`): floating-point work on JSON
  text. The models keep the version of a resubmitted job and leave its length as it is.
* **Rounding**: dates are integers; `remaining_time` may drift below zero in the code.
* **Energy, SVG output, export, tracing, statistics**: written and read by nobody in the system.
* **Data storage**: a thin client of Redis, disabled by default.
* **Algorithms that are not compiled** (`meson.build`): the energy algorithms, killer, filler, random, sequencer,
  submitter. What easy_bf_fast and fcfs share with the compiled variants is in `FastBF`.
* **Locality**: only `BasicResourceSelector`, which the compiled algorithms use.
* **JSON syntax, batexec, workflow files, scripts**: input handling and plotting.

## 7. Running

`tlc -config <run>.cfg <module>` checks a run (the module of each run is in `PROJECT.json`); `tlapm <module>.tla` checks
the proofs of a module of section 2 whose name ends in `Proofs`, or of `Folding`. The longest runs take about two
minutes, the longest proof (`ScheduleProofs`) about half an hour.
