------------------------------ MODULE Execution -------------------------------
(***************************************************************************)
(* What happens inside a running job of Batsim: the profiles of the        *)
(* workload, the actor that executes a job's tree of tasks                 *)
(* (jobs_execution.cpp), its walltime, the messages exchanged with the     *)
(* scheduler, the child actors of a replayed trace, and the killer.        *)
(*                                                                         *)
(* Time is discrete.  SimGrid runs one actor at a time, until it blocks;   *)
(* the clock advances once no actor can run.  A job's current task is the  *)
(* path from the root of its tree to the leaf being executed.              *)
(***************************************************************************)
EXTENDS TaskMatrices, Integers, FiniteSets

CONSTANTS
    Jobs,
    Registrable,       \* the profiles the scheduler may register
    FileJobs,          \* the jobs of the workload file, the others register
    FileProfiles,      \* the profiles of the workload file, likewise
    ProfileOf,         \* the profile of each job
    NbRes,             \* requested_nb_res of each job
    Walltime,          \* -1 for none
    Allocations,       \* the allocations the scheduler may give each job
    PtaskLengths,      \* the durations SimGrid may find for a parallel task
    MayKill,           \* the jobs the scheduler may kill
    MayTell,           \* the jobs it may send messages to
    Messages,          \* what it may send them
    MaxBuffered,       \* bound on a job's unread messages
    GarbageCollect     \* FALSE with --enable-profile-reuse

Profiles == DOMAIN Desc

ASSUME ExecutionAssumption ==
    /\ FileJobs \subseteq Jobs /\ FileProfiles \subseteq Profiles
    /\ ProfileOf \in [Jobs -> Profiles]
    /\ Walltime \in [Jobs -> Int] /\ NbRes \in [Jobs -> Int]
    /\ \A j \in Jobs : \A a \in Allocations[j] :
          a \in [machines : Seq(Nat), mapping : Seq(Nat),
                 storage : [DOMAIN a.storage -> Nat],
                 ioProfile : Profiles \cup {None}, io : Seq(Nat)]
    /\ PtaskLengths \subseteq Nat \ {0}
    /\ GarbageCollect \in BOOLEAN

VARIABLES
    live,              \* the profiles of the map that are not null
    known,             \* the names in the map
    job_state,
    task,              \* the current path of each job, frames from the root
    activity,          \* what the job's actor does
    remaining,         \* remaining_time of the job
    children,          \* ranks whose actor is alive
    incoming,          \* incoming_message_buffer
    allocation,
    killing,           \* the jobs whose killer has run
    to_delete,         \* jobs_to_be_deleted of the server
    aborted,           \* an xbt_assert or xbt_die stopped the simulator
    done, elapsed      \* history: leaves done, time since the start

profileVars == <<live, known>>
serverVars == <<killing, to_delete>>
actorVars == <<task, activity, remaining, children, allocation>>
history == <<done, elapsed>>
vars == <<profileVars, job_state, actorVars, incoming, serverVars, aborted,
          history>>

Ended == {"success", "failed", "walltime", "killed"}

(* An actor is idle (no actor), about to execute the leaf of its path,     *)
(* returning a code to the parent task, asleep, waiting for its parallel   *)
(* task, for its children, or woken up by the cancellation of its task.    *)
(* A sleep or a parallel task has the time it still takes and the time     *)
(* spent.                                                                  *)
Idle == [kind |-> "idle"]
Execute == [kind |-> "execute"]
Return(code) == [kind |-> "return", code |-> code]
Is(j, kind) == activity[j].kind = kind

Leaf(j) == task[j][Len(task[j])]
DescOf(j) == Desc[Leaf(j).profile]

\* No actor is between two simcalls.
Quiet == /\ ~aborted
         /\ \A j \in Jobs : activity[j].kind \notin {"execute", "return"}

-----------------------------------------------------------------------------
(* The profiles of the workload.                                           *)

(* What Profile::from_json asks of each type.                              *)

AcceptedDelay(d) == d.delay > 0
AcceptedParallel(d) == d.nb_res > 0 /\ d.com_size = d.nb_res * d.nb_res
AcceptedHomogeneous(d) == d.cpu >= 0 /\ d.com >= 0
AcceptedTotal(d) == d.cpu >= 0 /\ d.com >= 0
AcceptedComposed(d) == d.repeat > 0 /\ Len(d.seq) > 0
\* Nothing is asked of the bytes read and written.
AcceptedPfs(d) == {"bytes", "storage"} \subseteq DOMAIN d
AcceptedStaging(d) == d.bytes >= 0 /\ {"from", "to"} \subseteq DOMAIN d
AcceptedSend(d) == d.sleeptime > 0
AcceptedRecv(d) == d.polltime > 0
\* Traces are read from files: only the workload file can name them.
AcceptedTrace(p) == p \in FileProfiles

from_json(p) ==
    LET d == Desc[p] IN
    CASE d.type = "delay" -> AcceptedDelay(d)
      [] d.type = "parallel" -> AcceptedParallel(d)
      [] d.type = "homogeneous" -> AcceptedHomogeneous(d)
      [] d.type = "total" -> AcceptedTotal(d)
      [] d.type = "composed" -> AcceptedComposed(d)
      [] d.type = "pfs" -> AcceptedPfs(d)
      [] d.type = "staging" -> AcceptedStaging(d)
      [] d.type = "send" -> AcceptedSend(d)
      [] d.type = "recv" -> AcceptedRecv(d)
      [] d.type = "trace" -> AcceptedTrace(p)

\* The tasks of one round of a sequence.  check_validity links the profiles of
\* the file; a composed profile registered later is never linked.
Parts(p) == IF Desc[p].type = "composed"
            THEN {Desc[p].seq[i] : i \in 1..Len(Desc[p].seq)} ELSE {}
LinkedParts(p) == IF p \in FileProfiles THEN Parts(p) ELSE {}

\* remove_profile drops the link of the map to a profile and to its parts,
\* whoever else uses them.
Removed[p \in Profiles] ==
    {p} \cup UNION {Removed[q] : q \in LinkedParts(p)}

\* Job::from_json: a walltime of -1 or more than 0, and a profile that is found
\* among the given ones.
AcceptedJob(j, found) ==
    /\ Walltime[j] = -1 \/ Walltime[j] > 0
    /\ NbRes[j] >= 0
    /\ ProfileOf[j] \in found

check_single_job_validity(j) ==
    Desc[ProfileOf[j]].type = "parallel" => Desc[ProfileOf[j]].nb_res = NbRes[j]

check_validity ==
    /\ \A p \in FileProfiles : from_json(p) /\ Parts(p) \subseteq FileProfiles
    /\ \A j \in FileJobs : /\ AcceptedJob(j, FileProfiles)
                           /\ check_single_job_validity(j)

\* Only the references of the jobs count.
remove_unreferenced_profiles_jobsOnly == {{ProfileOf[j] : j \in FileJobs}}

\* Profiles with no other reference than the map's are dropped.  The map is in
\* no order: the parts of a dropped sequence go if they are met after it.
remove_unreferenced_profiles ==
    LET byJobs == {ProfileOf[j] : j \in FileJobs}
        used == byJobs \cup UNION {LinkedParts(p) : p \in FileProfiles}
        kept == UNION {Removed[p] : p \in byJobs}
    IN {kept \cup S : S \in SUBSET (used \ kept)}

Init ==
    /\ known = FileProfiles
    /\ live \in remove_unreferenced_profiles
    /\ job_state = [j \in Jobs |-> IF j \in FileJobs THEN "submitted"
                                   ELSE "unknown"]
    /\ task = [j \in Jobs |-> <<>>]
    /\ activity = [j \in Jobs |-> Idle]
    /\ remaining = Walltime
    /\ children = [j \in Jobs |-> {}]
    /\ incoming = [j \in Jobs |-> <<>>]
    /\ allocation = [j \in Jobs |-> <<>>]
    /\ killing = {} /\ to_delete = {}
    /\ aborted = ~check_validity
    /\ done = [j \in Jobs |-> <<>>]
    /\ elapsed = [j \in Jobs |-> 0]

\* handle_register_profile
RegisterProfile(p) ==
    /\ Quiet /\ p \in Registrable \ known
    /\ known' = known \cup {p} /\ live' = live \cup {p}
    /\ aborted' = ~from_json(p)
    /\ UNCHANGED <<job_state, actorVars, incoming, serverVars, history>>

\* handle_register_job: the profile must be accessible.
RegisterJob(j) ==
    /\ Quiet /\ job_state[j] = "unknown" /\ ProfileOf[j] \in known
    /\ job_state' = [job_state EXCEPT ![j] = "submitted"]
    /\ aborted' = ~(AcceptedJob(j, live) /\ check_single_job_validity(j))
    /\ UNCHANGED <<profileVars, actorVars, incoming, serverVars, history>>

\* The server sends its events and deletes the jobs it has reported, and with
\* them their part of the memory.
Forgotten(f, value) == [j \in Jobs |-> IF j \in to_delete THEN value ELSE f[j]]

delete_jobs ==
    /\ Quiet /\ to_delete # {}
    /\ to_delete' = {} /\ killing' = killing \ to_delete
    /\ job_state' = Forgotten(job_state, "deleted")
    /\ task' = Forgotten(task, <<>>)
    /\ remaining' = Forgotten(remaining, -1)
    /\ incoming' = Forgotten(incoming, <<>>)
    /\ allocation' = Forgotten(allocation, <<>>)
    /\ done' = Forgotten(done, <<>>) /\ elapsed' = Forgotten(elapsed, 0)
    /\ live' = IF GarbageCollect
               THEN live \ UNION {Removed[ProfileOf[j]] : j \in to_delete}
               ELSE live
    /\ UNCHANGED <<known, activity, children, aborted>>

-----------------------------------------------------------------------------
(* Starting a job.                                                         *)

Frame(p, io) == [profile |-> p, index |-> 0, io |-> io]

IoPart(io, i) == IF io = None THEN None ELSE Desc[io].seq[i]

\* The tree of tasks can be built: sequences are linked, and the IO profile
\* of a sequence is a linked sequence that is at least as long.
Buildable[p \in Profiles, io \in Profiles \cup {None}] ==
    Desc[p].type = "composed" =>
        /\ p \in FileProfiles
        /\ io # None => /\ io \in FileProfiles /\ Desc[io].type = "composed"
                        /\ Len(Desc[p].seq) <= Len(Desc[io].seq)
        /\ \A i \in 1..Len(Desc[p].seq) : Buildable[Desc[p].seq[i], IoPart(io, i)]

\* The path to the first leaf.
initialize_sequential_tasks[p \in Profiles, io \in Profiles \cup {None}] ==
    IF Desc[p].type = "composed"
    THEN <<Frame(p, io)>>
            \o initialize_sequential_tasks[Desc[p].seq[1], IoPart(io, 1)]
    ELSE <<Frame(p, io)>>

\* EXECUTE_JOB has machines, and at most one of a mapping of the executors to
\* them, a storage mapping and an additional IO job.
AcceptedAllocation(a) ==
    /\ a.machines # <<>>
    /\ \A i \in 1..Len(a.mapping) : a.mapping[i] \in 1..Len(a.machines)
    /\ Cardinality({option \in {"mapping", "storage", "io"} :
                        a[option] # <<>>}) <= 1

\* The additional IO job of EXECUTE_JOB: a profile that is accessible, or that
\* comes with the message; a sequence only for a sequence of the same length.
IoAccepted(j, a) ==
    a.ioProfile # None =>
        /\ IF a.ioProfile \in known THEN a.ioProfile \in live
           ELSE from_json(a.ioProfile)
        /\ Desc[a.ioProfile].type = "composed" =>
              /\ Desc[ProfileOf[j]].type = "composed"
              /\ Len(Desc[ProfileOf[j]].seq) = Len(Desc[a.ioProfile].seq)

Running == {j \in Jobs : job_state[j] = "running"}

\* Machines are not shared: the server stops if one is computing a job.
NotComputing(machines) ==
    \A k \in Running : \A i \in 1..Len(machines) :
        ~In(machines[i], allocation[k].machines)

\* EXECUTE_JOB, its handler and the first statements of execute_job_process.
ExecuteJob(j, a) ==
    /\ Quiet /\ job_state[j] = "submitted" /\ NotComputing(a.machines)
    /\ known' = known \cup ({a.ioProfile} \ {None})
    /\ live' = live \cup ({a.ioProfile} \ (known \cup {None}))
    /\ job_state' = [job_state EXCEPT ![j] = "running"]
    /\ allocation' = [allocation EXCEPT ![j] = a]
    /\ IF AcceptedAllocation(a) /\ IoAccepted(j, a)
          /\ Buildable[ProfileOf[j], a.ioProfile]
       THEN /\ task' = [task EXCEPT ![j] =
                            initialize_sequential_tasks[ProfileOf[j], a.ioProfile]]
            /\ activity' = [activity EXCEPT ![j] = Execute]
            /\ UNCHANGED aborted
       ELSE aborted' = TRUE /\ UNCHANGED <<task, activity>>
    /\ UNCHANGED <<remaining, children, incoming, serverVars,
                   history>>

-----------------------------------------------------------------------------
(* Executing the leaf of the path (execute_task).                          *)

\* The whole sleep if it ends before the walltime, otherwise the rest of the
\* walltime, and -1.
do_delay_task(sleeptime, left) ==
    IF left < 0 \/ sleeptime < left
    THEN [kind |-> "sleep", left |-> sleeptime, spent |-> 0, code |-> 0]
    ELSE [kind |-> "sleep", left |-> left, spent |-> 0, code |-> -1]

Becomes(j, act) == activity' = [activity EXCEPT ![j] = act]

ExecuteSleep(j, sleeptime) ==
    /\ Becomes(j, do_delay_task(sleeptime, remaining[j]))
    /\ UNCHANGED <<task, children, incoming, aborted>>

ExecuteDelay(j) ==
    /\ DescOf(j).type = "delay"
    /\ ExecuteSleep(j, DescOf(j).delay)

\* The message to the scheduler is left out: the server only forwards it.
ExecuteSend(j) ==
    /\ DescOf(j).type = "send"
    /\ ExecuteSleep(j, DescOf(j).sleeptime)

execute_parallel_task(j) ==
    /\ is_parallel_task(Leaf(j).profile)
    /\ LET made == MakePtask(Leaf(j).profile, Leaf(j).io, allocation[j])
       IN IF ~made.ok
          THEN aborted' = TRUE /\ UNCHANGED activity
          ELSE /\ \E n \in PtaskLengths :
                     Becomes(j, [kind |-> "ptask", left |-> n, spent |-> 0,
                                 made |-> made])
               /\ UNCHANGED aborted
    /\ UNCHANGED <<task, children, incoming>>

\* One child actor per line of the trace file.
ExecuteTrace(j) ==
    /\ DescOf(j).type = "trace"
    /\ children' = [children EXCEPT ![j] = 1..DescOf(j).ranks]
    /\ Becomes(j, [kind |-> "ranks"])
    /\ UNCHANGED <<task, incoming, aborted>>

\* The profile a recv goes on with: looked up by name among the accessible
\* ones.  Without one the task is over.
GoOnWith(j, p) ==
    IF p = None
    THEN Becomes(j, Return(DescOf(j).ret)) /\ UNCHANGED <<task, aborted>>
    ELSE /\ aborted' = (p \notin live)
         /\ task' = [task EXCEPT ![j] = @ \o <<Frame(p, None)>>]
         /\ Becomes(j, Execute)

Receive(j) ==
    /\ incoming' = [incoming EXCEPT ![j] = Tail(@)]
    /\ GoOnWith(j, IF Head(incoming[j]) = DescOf(j).regex
                   THEN DescOf(j).success ELSE DescOf(j).failure)
    /\ UNCHANGED <<children>>

\* recv reads a message, goes on with its timeout profile, or polls.
ExecuteRecv(j) ==
    /\ DescOf(j).type = "recv"
    /\ \/ incoming[j] # <<>> /\ Receive(j)
       \/ /\ incoming[j] = <<>> /\ DescOf(j).timeout # None
          /\ GoOnWith(j, DescOf(j).timeout)
          /\ UNCHANGED <<incoming, children>>
       \/ /\ incoming[j] = <<>> /\ DescOf(j).timeout = None
          /\ ExecuteSleep(j, DescOf(j).polltime)

execute_task(j) ==
    /\ ~aborted /\ Is(j, "execute")
    /\ \/ execute_parallel_task(j)
       \/ ExecuteDelay(j)
       \/ ExecuteSend(j)
       \/ ExecuteRecv(j)
       \/ ExecuteTrace(j)
    /\ UNCHANGED <<profileVars, job_state, remaining, allocation, serverVars,
                   history>>

-----------------------------------------------------------------------------
(* The leaf ends: its code goes up the path.                               *)

DoneLeaf(j, code) ==
    done' = IF code = DescOf(j).ret
            THEN [done EXCEPT ![j] = Append(@, Leaf(j).profile)] ELSE done

\* The sleep is over: a recv looks at its messages again, which it does not
\* if the walltime was reached.
WakeUp(j) ==
    /\ Quiet /\ Is(j, "sleep") /\ activity[j].left = 0
    /\ LET a == activity[j] IN
       /\ remaining' = [remaining EXCEPT ![j] =
              IF a.code = -1 THEN 0 ELSE IF @ > 0 THEN @ - a.spent ELSE @]
       /\ IF DescOf(j).type = "recv" /\ a.code = 0
          THEN Becomes(j, Execute) /\ UNCHANGED done
          ELSE LET code == IF a.code = 0 THEN DescOf(j).ret ELSE -1
               IN Becomes(j, Return(code)) /\ DoneLeaf(j, code)
    /\ UNCHANGED <<profileVars, job_state, task, children, allocation,
                   incoming, serverVars, aborted, elapsed>>

\* A parallel task ends: finished, timed out at the walltime, or cancelled.
\* SimGrid may give either answer when it finishes at the walltime.
PtaskOver(j) == activity[j].left = 0
TimedOut(j, spent) == remaining[j] >= 0 /\ spent = remaining[j]

EndLeaf(j, code) == Becomes(j, Return(code)) /\ DoneLeaf(j, code)

PtaskEnds(j) ==
    /\ Quiet
    /\ \/ Is(j, "ptask") /\ PtaskOver(j) /\ EndLeaf(j, DescOf(j).ret)
       \/ Is(j, "ptask") /\ TimedOut(j, activity[j].spent) /\ EndLeaf(j, -1)
       \/ Is(j, "cancelled") /\ EndLeaf(j, -2)
    /\ remaining' = [remaining EXCEPT ![j] =
           IF @ >= 0 /\ Is(j, "ptask") THEN @ - activity[j].spent ELSE @]
    /\ UNCHANGED <<profileVars, job_state, task, children, allocation,
                   incoming, serverVars, aborted, elapsed>>

\* The actor has something to do at this date.
Due(j) ==
    \/ Is(j, "sleep") /\ activity[j].left = 0
    \/ Is(j, "ptask") /\ (PtaskOver(j) \/ TimedOut(j, activity[j].spent))
    \/ Is(j, "ranks") /\ remaining[j] = 0
    \/ Is(j, "cancelled")

\* A rank of a trace is over: its actor has told the job's actor.
RankEnds(j, r) ==
    /\ Quiet /\ Is(j, "ranks") /\ r \in children[j]
    /\ children' = [children EXCEPT ![j] = @ \ {r}]
    /\ IF children[j] = {r}
       THEN Becomes(j, Return(DescOf(j).ret)) /\ DoneLeaf(j, DescOf(j).ret)
       ELSE UNCHANGED <<activity, done>>
    /\ UNCHANGED <<profileVars, job_state, task, remaining, allocation,
                   incoming, serverVars, aborted, elapsed>>

\* The walltime is reached while ranks are running: they are killed.
RanksTimeOut_left(j) ==
    /\ Quiet /\ Is(j, "ranks") /\ remaining[j] = 0
    /\ Becomes(j, Return(-1))
    /\ UNCHANGED <<profileVars, job_state, task, children, remaining,
                   allocation, incoming, serverVars, aborted, history>>

RanksTimeOut(j) ==
    /\ Quiet /\ Is(j, "ranks") /\ remaining[j] = 0
    /\ children' = [children EXCEPT ![j] = {}]
    /\ Becomes(j, Return(-1))
    /\ UNCHANGED <<profileVars, job_state, task, remaining, allocation,
                   incoming, serverVars, aborted, history>>

-----------------------------------------------------------------------------
(* The code goes up the path: the rest of the sequences, the end of the    *)
(* job.                                                                    *)

Code(j) == activity[j].code
Parent(j) == task[j][Len(task[j]) - 1]

\* The task after the one of a sequence that has just ended, its index going
\* on over the repetitions.
LastIndex_oneRound(f) == Len(Desc[f.profile].seq) - 1
LastIndex(f) == Desc[f.profile].repeat * Len(Desc[f.profile].seq) - 1

NextPath(path) ==
    LET parent == path[Len(path) - 1]
        next == [parent EXCEPT !.index = @ + 1]
        i == 1 + (next.index % Len(Desc[parent.profile].seq))
    IN SubSeq(path, 1, Len(path) - 2) \o <<next>>
         \o initialize_sequential_tasks[Desc[parent.profile].seq[i],
                                        IoPart(parent.io, i)]

\* A failed task fails the tasks above it.
ReturnFailure(j) ==
    /\ Code(j) # 0
    /\ task' = [task EXCEPT ![j] = SubSeq(@, 1, Len(@) - 1)]
    /\ UNCHANGED activity

NextTask(j) ==
    /\ Code(j) = 0 /\ Desc[Parent(j).profile].type = "composed"
    /\ Parent(j).index < LastIndex(Parent(j))
    /\ task' = [task EXCEPT ![j] = NextPath(@)]
    /\ Becomes(j, Execute)

\* The last task of a sequence, or the task a recv went on with, is over.
ReturnToParent(j) ==
    /\ Code(j) = 0
    /\ Desc[Parent(j).profile].type = "composed" =>
           Parent(j).index = LastIndex(Parent(j))
    /\ task' = [task EXCEPT ![j] = SubSeq(@, 1, Len(@) - 1)]
    /\ Becomes(j, Return(Desc[Parent(j).profile].ret))

GoUp(j) ==
    /\ ~aborted /\ Is(j, "return") /\ Len(task[j]) > 1
    /\ ReturnFailure(j) \/ NextTask(j) \/ ReturnToParent(j)
    /\ UNCHANGED <<profileVars, job_state, remaining, children, allocation,
                   incoming, serverVars, aborted, history>>

StateOf(code) ==
    CASE code = 0 -> "success"
      [] code > 0 -> "failed"
      [] code = -1 -> "walltime"
      [] OTHER -> "killed"

\* The end of execute_job_process.  The completion of a killed job is managed
\* when its killer is done; JOB_COMPLETED is handled at once.
JobEnds(j) ==
    /\ ~aborted /\ Is(j, "return") /\ Len(task[j]) = 1
    /\ job_state' = [job_state EXCEPT ![j] = StateOf(Code(j))]
    /\ aborted' = (Code(j) < -2)
    /\ to_delete' = IF Code(j) = -2 THEN to_delete ELSE to_delete \cup {j}
    /\ Becomes(j, Idle)
    /\ UNCHANGED <<profileVars, task, remaining, children, allocation,
                   incoming, killing, history>>

-----------------------------------------------------------------------------
(* The killer and the messages of the scheduler.                           *)

\* The leaf whose progress is computed must have no sub-task: a recv that has
\* gone on with another profile has one.
compute_tasks_progress(j) ==
    \A i \in 1..(Len(task[j]) - 1) : Desc[task[j][i].profile].type = "composed"

cancel_ptask(j) == Is(j, "ptask")

\* killer_process: a running parallel task is cancelled, otherwise the actors
\* of the job are killed.  A killer is created by an actor that runs at this
\* date: SimGrid runs it after the actors whose activity ends at this date.
killer_process(j) ==
    /\ Quiet /\ (\A k \in Jobs : ~Due(k)) /\ j \in MayKill \ killing
    /\ job_state[j] \in Ended \cup {"running"}
    /\ killing' = killing \cup {j}
    /\ IF job_state[j] # "running"
       THEN UNCHANGED <<job_state, activity, children, aborted>>
       ELSE /\ aborted' = ~compute_tasks_progress(j)
            /\ IF cancel_ptask(j)
               THEN /\ Becomes(j, [kind |-> "cancelled"])
                    /\ UNCHANGED <<job_state, children>>
               ELSE /\ Becomes(j, Idle)
                    /\ children' = [children EXCEPT ![j] = {}]
                    /\ job_state' = [job_state EXCEPT ![j] = "killed"]
    /\ UNCHANGED <<profileVars, task, remaining, allocation, incoming,
                   to_delete, history>>

\* server_on_killing_done: the jobs really killed are completed.
on_killing_done(j) ==
    /\ Quiet /\ j \in killing \ to_delete
    /\ job_state[j] = "killed"
    /\ to_delete' = to_delete \cup {j}
    /\ UNCHANGED <<profileVars, job_state, actorVars, incoming, killing,
                   aborted, history>>

\* server_on_to_job_msg
to_job_msg(j, m) ==
    /\ Quiet /\ j \in MayTell /\ job_state[j] \in {"submitted", "running"}
    /\ Len(incoming[j]) < MaxBuffered
    /\ incoming' = [incoming EXCEPT ![j] = Append(@, m)]
    /\ UNCHANGED <<profileVars, job_state, actorVars, serverVars, aborted, history>>

-----------------------------------------------------------------------------
(* Time passes when no actor can run.                                      *)

Passed(j) ==
    IF activity[j].kind \in {"sleep", "ptask"}
    THEN [activity[j] EXCEPT !.left = @ - 1, !.spent = @ + 1]
    ELSE activity[j]

\* The server handles its messages, and the scheduler answers, at the date the
\* events happen.
ServerDone == /\ to_delete = {}
              /\ \A j \in killing : job_state[j] # "killed"

Tick ==
    /\ Quiet /\ Running # {} /\ ServerDone
    /\ \A j \in Jobs : ~Due(j)
    /\ activity' = [j \in Jobs |-> Passed(j)]
    /\ remaining' = [j \in Jobs |-> IF Is(j, "ranks") /\ remaining[j] > 0
                                    THEN remaining[j] - 1 ELSE remaining[j]]
    /\ elapsed' = [j \in Jobs |-> IF j \in Running /\ elapsed[j] <= Walltime[j]
                                  THEN elapsed[j] + 1 ELSE elapsed[j]]
    /\ UNCHANGED <<profileVars, job_state, task, children, allocation,
                   incoming, serverVars, aborted, done>>

\* Every job has ended and is deleted.
Finished == /\ \A j \in Jobs : job_state[j] = "deleted"
            /\ UNCHANGED vars

ActorStep(j) ==
    \/ execute_task(j) \/ WakeUp(j) \/ PtaskEnds(j)
    \/ RanksTimeOut(j) \/ GoUp(j) \/ JobEnds(j)

Next ==
    \/ \E p \in Profiles : RegisterProfile(p)
    \/ \E j \in Jobs :
          \/ RegisterJob(j)
          \/ \E a \in Allocations[j] : ExecuteJob(j, a)
          \/ ActorStep(j)
          \/ \E r \in children[j] : RankEnds(j, r)
          \/ killer_process(j)
          \/ on_killing_done(j)
          \/ \E m \in Messages : to_job_msg(j, m)
    \/ delete_jobs
    \/ Tick
    \/ Finished

Spec == Init /\ [][Next]_vars

-----------------------------------------------------------------------------
\* No xbt_assert or xbt_die is reached and no container is read past its end
\* in a workload that check_validity accepts.
AssertionsHold == ~aborted

\* The leaves of a tree of tasks, in order, without recv.
Rounds(s, n) == FoldLeft(\o, <<>>, [i \in 1..n |-> s])
Leaves[p \in Profiles] ==
    IF Desc[p].type # "composed" THEN <<p>>
    ELSE Rounds(FoldLeft(\o, <<>>, [i \in 1..Len(Desc[p].seq) |->
                                        Leaves[Desc[p].seq[i]]]),
                Desc[p].repeat)

LeavesOf == [j \in Jobs |-> Leaves[ProfileOf[j]]]

\* The jobs whose tasks depend on the messages they get.
Receivers == {j \in Jobs : \E i \in 1..Len(LeavesOf[j]) :
                               Desc[LeavesOf[j][i]].type = "recv"}

\* A job does the tasks of its profile in order, as often as they are
\* repeated; it succeeds when it has done all of them within its walltime,
\* and the walltime ends it on its date exactly.
ExecutedAsDescribed ==
    \A j \in Jobs :
        /\ j \notin Receivers =>
              /\ IsPrefix(done[j], LeavesOf[j])
              /\ job_state[j] = "success" => done[j] = LeavesOf[j]
        /\ job_state[j] = "walltime" => elapsed[j] = Walltime[j]
        /\ Walltime[j] > 0 => elapsed[j] <= Walltime[j]

\* Time never passes for a job that has been killed, and a job that is over
\* leaves no actor behind, whether it was killed, timed out or completed.
KilledJobsStop ==
    /\ \A j \in Jobs : job_state[j] \in Ended => children[j] = {} /\ Is(j, "idle")
    /\ Quiet /\ (\A j \in Jobs : ~Due(j)) => killing \cap Running = {}

Position(machine, machines) ==
    CHOOSE i \in 1..Len(machines) : machines[i] = machine

\* What one of the two jobs, run on the given machines, asks of machine a, and
\* of the way from machine a to machine b.
FlopsFor(cpu, machines, a) ==
    IF In(a, machines) THEN cpu[Position(a, machines)] ELSE {}

BytesFor(com, machines, a, b) ==
    IF In(a, machines) /\ In(b, machines) /\ com # <<>>
    THEN com[(Position(a, machines) - 1) * Len(machines) + Position(b, machines)]
    ELSE {}

\* The flops of a job and of its IO job are done on the machines they were
\* allocated to, and the bytes go between these: the merge puts every entry of
\* the two computation vectors and of the two matrices in its place.
WorkWhereAllocated ==
    \A j \in Jobs : Is(j, "ptask") =>
        LET f == Leaf(j)
            alloc == allocation[j]
            made == activity[j].made
            job == generate_matrices_from_profile(f.profile, alloc.machines,
                                                  NoStorage)
            io == generate_matrices_from_profile(f.io, alloc.io, NoStorage)
            n == Len(made.hosts)
        IN f.io # None =>
              /\ Len(made.cpu) = n /\ Len(made.com) = n * n
              /\ \A k \in 1..n :
                    LET a == made.hosts[k]
                    IN made.cpu[k] = FlopsFor(job.cpu, alloc.machines, a)
                                       \cup FlopsFor(io.cpu, alloc.io, a)
              /\ \A k \in 1..(n * n) :
                    LET a == made.hosts[Row(k, n)]
                        b == made.hosts[Col(k, n)]
                    IN made.com[k] = BytesFor(job.com, alloc.machines, a, b)
                                       \cup BytesFor(io.com, alloc.io, a, b)
=============================================================================
