--------------------------- MODULE ExecutionProofs ---------------------------
(***************************************************************************)
(* For every workload, every allocation and every scheduler, a job that is *)
(* killed stops and a job that is over leaves no actor behind.  The        *)
(* inductive invariant is ActorsInv: it adds what the actor of a killed    *)
(* job can still be doing, that only killed jobs that were started have a  *)
(* killer, and that only ended jobs are deleted, so that a killer never    *)
(* meets a job that starts after it.                                       *)
(***************************************************************************)
EXTENDS Execution, TLAPS

ActorTypes ==
    /\ job_state = [j \in Jobs |-> job_state[j]]
    /\ activity = [j \in Jobs |-> activity[j]]
    /\ children = [j \in Jobs |-> children[j]]
    /\ \A j \in Jobs : "kind" \in DOMAIN activity[j]
    /\ killing \subseteq Jobs /\ to_delete \subseteq Jobs

\* Only running jobs have an actor, and only actors that wait have children.
ActorsRun ==
    \A j \in Jobs : /\ activity[j].kind # "idle" => job_state[j] = "running"
                    /\ children[j] # {} => activity[j].kind = "ranks"

\* The actor of a killed job has its task cancelled, or returns this.
KilledOnes ==
    \A j \in killing :
        /\ job_state[j] \in Ended \cup {"running"}
        /\ job_state[j] = "running" =>
              activity[j].kind = "cancelled" \/ activity[j] = Return(-2)

\* A job is deleted when it has ended.
DeletedOnes == \A j \in to_delete : job_state[j] \in Ended

ActorsInv == ActorTypes /\ ActorsRun /\ KilledOnes /\ DeletedOnes
-----------------------------------------------------------------------------
\* No job has an actor, a killer or an end yet.
LEMMA ActorsStart == Init => ActorsInv
BY DEF Init, ActorsInv, ActorTypes, ActorsRun, KilledOnes, DeletedOnes, Idle

\* The actor of a job that runs and is not killed goes on to something else.
LEMMA ActorGoesOn ==
    ASSUME ActorsInv, NEW j \in Jobs, NEW act, NEW c,
           job_state[j] = "running", j \notin killing,
           "kind" \in DOMAIN act, act.kind # "idle",
           c # {} => act.kind = "ranks",
           activity' = [activity EXCEPT ![j] = act],
           children' = [children EXCEPT ![j] = c],
           UNCHANGED <<job_state, killing, to_delete>>
    PROVE  ActorsInv'
<1>1. \A k \in Jobs : /\ activity'[k] = IF k = j THEN act ELSE activity[k]
                      /\ children'[k] = IF k = j THEN c ELSE children[k]
    BY DEF ActorsInv, ActorTypes
<1>2. ActorTypes'
    BY <1>1 DEF ActorsInv, ActorTypes
<1>3. ActorsRun'
    BY <1>1 DEF ActorsInv, ActorsRun
<1>4. KilledOnes'
    BY <1>1 DEF ActorsInv, ActorTypes, KilledOnes
<1>5. DeletedOnes'
    BY DEF ActorsInv, DeletedOnes
<1>. QED
    BY <1>2, <1>3, <1>4, <1>5 DEF ActorsInv

\* No actor changes.
LEMMA ActorsStay ==
    ASSUME ActorsInv,
           UNCHANGED <<activity, children, killing, to_delete, job_state>>
    PROVE  ActorsInv'
<1>1. ActorTypes'
    BY DEF ActorsInv, ActorTypes
<1>2. ActorsRun'
    BY DEF ActorsInv, ActorsRun
<1>3. KilledOnes'
    BY DEF ActorsInv, KilledOnes
<1>4. DeletedOnes'
    BY DEF ActorsInv, DeletedOnes
<1>. QED
    BY <1>1, <1>2, <1>3, <1>4 DEF ActorsInv

\* What an actor is doing tells whether its job runs and is killed.
LEMMA ActorIs ==
    ASSUME ActorsInv, NEW j \in Jobs,
           activity[j].kind \in {"execute", "sleep", "ptask", "ranks"}
    PROVE  job_state[j] = "running" /\ j \notin killing
BY DEF ActorsInv, ActorsRun, KilledOnes, Return

\* An actor without children keeps none.
LEMMA NoChildren ==
    ASSUME ActorsInv, NEW j \in Jobs, activity[j].kind # "ranks"
    PROVE  children[j] = {} /\ children = [children EXCEPT ![j] = {}]
<1>1. children[j] = {}
    BY DEF ActorsInv, ActorsRun
<1>2. children = [k \in Jobs |-> children[k]]
    BY DEF ActorsInv, ActorTypes
<1>. QED
    BY <1>1, <1>2

\* A job is submitted or started: it had no killer.
LEMMA JobBegins ==
    ASSUME ActorsInv, NEW j \in Jobs, NEW s \in {"submitted", "running"},
           job_state[j] \in {"unknown", "submitted"},
           \/ activity' = activity
           \/ s = "running" /\ activity' = [activity EXCEPT ![j] = Execute],
           job_state' = [job_state EXCEPT ![j] = s],
           UNCHANGED <<children, killing, to_delete>>
    PROVE  ActorsInv'
<1>1. activity[j].kind = "idle" /\ children[j] = {}
    BY DEF ActorsInv, ActorsRun
<1>2. j \notin killing /\ j \notin to_delete
    BY DEF ActorsInv, KilledOnes, DeletedOnes, Ended
<1>3. \A k \in Jobs \ {j} : activity'[k] = activity[k] /\ job_state'[k] = job_state[k]
    BY DEF ActorsInv, ActorTypes
<1>4. job_state'[j] = s
    BY DEF ActorsInv, ActorTypes
<1>5. \/ activity'[j] = activity[j]
      \/ "kind" \in DOMAIN activity'[j] /\ activity'[j].kind = "execute" /\ s = "running"
    BY DEF ActorsInv, ActorTypes, Execute
<1>6. ActorTypes'
  <2>1. activity' = [k \in Jobs |-> activity'[k]] /\ job_state' = [k \in Jobs |-> job_state'[k]]
      BY DEF ActorsInv, ActorTypes
  <2>. QED
      BY <1>3, <1>5, <2>1 DEF ActorsInv, ActorTypes
<1>7. ActorsRun'
    BY <1>1, <1>3, <1>4, <1>5 DEF ActorsInv, ActorsRun
<1>8. KilledOnes'
    BY <1>2, <1>3 DEF ActorsInv, ActorTypes, KilledOnes
<1>9. DeletedOnes'
    BY <1>2, <1>3 DEF ActorsInv, ActorTypes, DeletedOnes
<1>. QED
    BY <1>6, <1>7, <1>8, <1>9 DEF ActorsInv

\* Executing a leaf: the actor waits for something, or goes on with a profile.
LEMMA ExecuteTaskStep ==
    ASSUME ActorsInv, NEW j \in Jobs, execute_task(j)
    PROVE  ActorsInv'
<1>. USE DEF Is, Becomes
<1>1. /\ job_state[j] = "running" /\ j \notin killing
      /\ children[j] = {} /\ children = [children EXCEPT ![j] = {}]
      /\ UNCHANGED <<job_state, killing, to_delete>>
    BY ActorIs, NoChildren DEF execute_task, serverVars
<1>2. ASSUME NEW d, ExecuteSleep(j, d)
      PROVE  ActorsInv'
  <2>. DEFINE act == do_delay_task(d, remaining[j])
  <2>1. "kind" \in DOMAIN act /\ act.kind = "sleep"
      BY DEF do_delay_task
  <2>2. activity' = [activity EXCEPT ![j] = act] /\ children' = [children EXCEPT ![j] = {}]
      BY <1>1, <1>2 DEF ExecuteSleep
  <2>. HIDE DEF act
  <2>. QED
      BY <1>1, <2>1, <2>2, ActorGoesOn
<1>3. ASSUME NEW p, GoOnWith(j, p), UNCHANGED children
      PROVE  ActorsInv'
  <2>1. \/ activity' = [activity EXCEPT ![j] = Execute]
        \/ activity' = [activity EXCEPT ![j] = Return(DescOf(j).ret)]
      BY <1>3 DEF GoOnWith
  <2>2. /\ "kind" \in DOMAIN Execute /\ Execute.kind = "execute"
        /\ "kind" \in DOMAIN Return(DescOf(j).ret) /\ Return(DescOf(j).ret).kind = "return"
      BY DEF Execute, Return
  <2>3. children' = [children EXCEPT ![j] = {}]
      BY <1>1, <1>3
  <2>4. CASE activity' = [activity EXCEPT ![j] = Execute]
      BY <1>1, <2>2, <2>3, <2>4, ActorGoesOn
  <2>5. CASE activity' = [activity EXCEPT ![j] = Return(DescOf(j).ret)]
      BY <1>1, <2>2, <2>3, <2>5, ActorGoesOn
  <2>. QED
      BY <2>1, <2>4, <2>5
<1>4. CASE execute_parallel_task(j)
  <2>. DEFINE made == MakePtask(Leaf(j).profile, Leaf(j).io, allocation[j])
              act(n) == [kind |-> "ptask", left |-> n, spent |-> 0, made |-> made]
  <2>1. UNCHANGED children
      BY <1>4 DEF execute_parallel_task
  <2>2. CASE UNCHANGED activity
      BY <1>1, <2>1, <2>2, ActorsStay
  <2>3. ASSUME NEW n \in PtaskLengths, activity' = [activity EXCEPT ![j] = act(n)]
        PROVE  ActorsInv'
    <3>1. "kind" \in DOMAIN act(n) /\ act(n).kind = "ptask"
        OBVIOUS
    <3>2. children' = [children EXCEPT ![j] = {}]
        BY <1>1, <2>1
    <3>. HIDE DEF act
    <3>. QED
        BY <1>1, <2>3, <3>1, <3>2, ActorGoesOn
  <2>. QED
      BY <1>4, <2>2, <2>3 DEF execute_parallel_task
<1>5. CASE ExecuteTrace(j)
  <2>. DEFINE act == [kind |-> "ranks"]
  <2>1. /\ activity' = [activity EXCEPT ![j] = act]
        /\ children' = [children EXCEPT ![j] = 1..DescOf(j).ranks]
      BY <1>5 DEF ExecuteTrace
  <2>2. "kind" \in DOMAIN act /\ act.kind = "ranks"
      OBVIOUS
  <2>. HIDE DEF act
  <2>. QED
      BY <1>1, <2>1, <2>2, ActorGoesOn
<1>6. CASE ExecuteDelay(j) \/ ExecuteSend(j)
    BY <1>2, <1>6 DEF ExecuteDelay, ExecuteSend
<1>7. CASE ExecuteRecv(j)
    BY <1>2, <1>3, <1>7 DEF ExecuteRecv, Receive
<1>. QED
    BY <1>4, <1>5, <1>6, <1>7 DEF execute_task

\* The actor of a job returns a code, whatever it waited for, and has no child.
LEMMA ActorReturns ==
    ASSUME ActorsInv, NEW j \in Jobs,
           activity[j].kind \in {"sleep", "ptask", "ranks"},
           \E code : activity' = [activity EXCEPT ![j] = Return(code)],
           children' = [children EXCEPT ![j] = {}],
           UNCHANGED <<job_state, killing, to_delete>>
    PROVE  ActorsInv'
<1>1. PICK code : activity' = [activity EXCEPT ![j] = Return(code)]
    OBVIOUS
<1>2. "kind" \in DOMAIN Return(code) /\ Return(code).kind = "return"
    BY DEF Return
<1>3. job_state[j] = "running" /\ j \notin killing
    BY ActorIs
<1>. QED
    BY <1>1, <1>2, <1>3, ActorGoesOn

\* A cancelled task returns -2: the job may have a killer.
LEMMA CancelledReturns ==
    ASSUME ActorsInv, NEW j \in Jobs, activity[j].kind = "cancelled",
           activity' = [activity EXCEPT ![j] = Return(-2)],
           UNCHANGED <<children, job_state, killing, to_delete>>
    PROVE  ActorsInv'
<1>1. \A k \in Jobs : activity'[k] = IF k = j THEN Return(-2) ELSE activity[k]
    BY DEF ActorsInv, ActorTypes
<1>2. "kind" \in DOMAIN Return(-2) /\ Return(-2).kind = "return"
    BY DEF Return
<1>3. ActorTypes'
    BY <1>1, <1>2 DEF ActorsInv, ActorTypes
<1>4. ActorsRun'
    BY <1>1, <1>2 DEF ActorsInv, ActorsRun
<1>5. KilledOnes'
    BY <1>1 DEF ActorsInv, ActorTypes, KilledOnes
<1>6. DeletedOnes'
    BY DEF ActorsInv, DeletedOnes
<1>. QED
    BY <1>3, <1>4, <1>5, <1>6 DEF ActorsInv

\* A sleep is over.
LEMMA WakeUpStep ==
    ASSUME ActorsInv, NEW j \in Jobs, WakeUp(j)
    PROVE  ActorsInv'
<1>. USE DEF Is, Becomes
<1>1. /\ activity[j].kind = "sleep" /\ job_state[j] = "running" /\ j \notin killing
      /\ UNCHANGED <<children, job_state, killing, to_delete>>
      /\ children' = [children EXCEPT ![j] = {}]
    BY ActorIs, NoChildren DEF WakeUp, serverVars
<1>2. \/ activity' = [activity EXCEPT ![j] = Execute]
      \/ \E code : activity' = [activity EXCEPT ![j] = Return(code)]
    BY DEF WakeUp
<1>3. CASE activity' = [activity EXCEPT ![j] = Execute]
  <2>1. "kind" \in DOMAIN Execute /\ Execute.kind = "execute"
      BY DEF Execute
  <2>. QED
      BY <1>1, <1>3, <2>1, ActorGoesOn
<1>4. CASE \E code : activity' = [activity EXCEPT ![j] = Return(code)]
    BY <1>1, <1>4, ActorReturns
<1>. QED
    BY <1>2, <1>3, <1>4

\* A parallel task is over: done, out of time, or cancelled.
LEMMA PtaskEndsStep ==
    ASSUME ActorsInv, NEW j \in Jobs, PtaskEnds(j)
    PROVE  ActorsInv'
<1>. USE DEF Is, Becomes, EndLeaf
<1>1. UNCHANGED <<children, job_state, killing, to_delete>>
    BY DEF PtaskEnds, serverVars
<1>2. CASE /\ activity[j].kind = "ptask"
           /\ \E code : activity' = [activity EXCEPT ![j] = Return(code)]
  <2>1. children' = [children EXCEPT ![j] = {}]
      BY <1>1, <1>2, NoChildren
  <2>. QED
      BY <1>1, <1>2, <2>1, ActorReturns
<1>3. CASE /\ activity[j].kind = "cancelled"
           /\ activity' = [activity EXCEPT ![j] = Return(-2)]
    BY <1>1, <1>3, CancelledReturns
<1>. QED
    BY <1>2, <1>3 DEF PtaskEnds

\* A rank ends, or the walltime ends them all.
LEMMA RanksStep ==
    ASSUME ActorsInv, NEW j \in Jobs, RanksTimeOut(j) \/ \E r \in children[j] : RankEnds(j, r)
    PROVE  ActorsInv'
<1>. USE DEF Is, Becomes
<1>1. activity[j].kind = "ranks" /\ UNCHANGED <<job_state, killing, to_delete>>
    BY DEF RanksTimeOut, RankEnds, serverVars
<1>2. CASE RanksTimeOut(j)
    BY <1>1, <1>2, ActorReturns DEF RanksTimeOut
<1>3. ASSUME NEW r \in children[j], RankEnds(j, r), children[j] = {r}
      PROVE  ActorsInv'
  <2>1. children' = [children EXCEPT ![j] = {}]
      BY <1>3 DEF RankEnds
  <2>2. activity' = [activity EXCEPT ![j] = Return(DescOf(j).ret)]
      BY <1>3 DEF RankEnds
  <2>. QED
      BY <1>1, <2>1, <2>2, ActorReturns
<1>4. ASSUME NEW r \in children[j], RankEnds(j, r), children[j] # {r}
      PROVE  ActorsInv'
  <2>1. children' = [children EXCEPT ![j] = children[j] \ {r}] /\ UNCHANGED activity
      BY <1>4 DEF RankEnds
  <2>2. activity' = [activity EXCEPT ![j] = activity[j]]
      BY <2>1 DEF ActorsInv, ActorTypes
  <2>3. "kind" \in DOMAIN activity[j] /\ job_state[j] = "running" /\ j \notin killing
      BY <1>1, ActorIs DEF ActorsInv, ActorTypes
  <2>. QED
      BY <1>1, <2>1, <2>2, <2>3, ActorGoesOn
<1>. QED
    BY <1>2, <1>3, <1>4

\* The code goes up the path; one that a killed job returns is never taken for
\* the end of a task.
LEMMA GoUpStep ==
    ASSUME ActorsInv, NEW j \in Jobs, GoUp(j)
    PROVE  ActorsInv'
<1>. USE DEF Is, Becomes
<1>1. /\ activity[j].kind = "return"
      /\ UNCHANGED <<children, job_state, killing, to_delete>>
    BY DEF GoUp, serverVars
<1>2. CASE ReturnFailure(j)
    BY <1>1, <1>2, ActorsStay DEF ReturnFailure
<1>3. CASE ~ReturnFailure(j)
  <2>1. Code(j) = 0
      BY <1>3 DEF GoUp, NextTask, ReturnToParent
  <2>2. job_state[j] = "running"
      BY <1>1 DEF ActorsInv, ActorsRun
  <2>3. j \notin killing
      BY <1>1, <2>1, <2>2 DEF ActorsInv, KilledOnes, Code, Return
  <2>4. children' = [children EXCEPT ![j] = {}]
      BY <1>1, NoChildren
  <2>5. \/ activity' = [activity EXCEPT ![j] = Execute]
        \/ \E code : activity' = [activity EXCEPT ![j] = Return(code)]
      BY <1>3 DEF GoUp, NextTask, ReturnToParent
  <2>6. CASE activity' = [activity EXCEPT ![j] = Execute]
    <3>1. "kind" \in DOMAIN Execute /\ Execute.kind = "execute"
        BY DEF Execute
    <3>. QED
        BY <1>1, <2>2, <2>3, <2>4, <2>6, <3>1, ActorGoesOn
  <2>7. CASE \E code : activity' = [activity EXCEPT ![j] = Return(code)]
    <3>1. PICK code : activity' = [activity EXCEPT ![j] = Return(code)]
        BY <2>7
    <3>2. "kind" \in DOMAIN Return(code) /\ Return(code).kind = "return"
        BY DEF Return
    <3>. QED
        BY <1>1, <2>2, <2>3, <2>4, <3>1, <3>2, ActorGoesOn
  <2>. QED
      BY <2>5, <2>6, <2>7
<1>. QED
    BY <1>2, <1>3

\* A job's actor leaves with its job in a final state s; d is what is reported.
LEMMA ActorLeaves ==
    ASSUME ActorsInv, NEW j \in Jobs, NEW s \in Ended,
           job_state[j] = "running",
           job_state' = [job_state EXCEPT ![j] = s],
           activity' = [activity EXCEPT ![j] = Idle],
           children' = [children EXCEPT ![j] = {}],
           killing' \in {killing, killing \cup {j}},
           to_delete' \in {to_delete, to_delete \cup {j}}
    PROVE  ActorsInv'
<1>1. "kind" \in DOMAIN Idle /\ Idle.kind = "idle"
    BY DEF Idle
<1>2. s # "running"
    BY DEF Ended
<1>3. \A k \in Jobs : /\ job_state'[k] = IF k = j THEN s ELSE job_state[k]
                      /\ activity'[k] = IF k = j THEN Idle ELSE activity[k]
                      /\ children'[k] = IF k = j THEN {} ELSE children[k]
    BY DEF ActorsInv, ActorTypes
<1>4. ActorTypes'
    BY <1>1, <1>3 DEF ActorsInv, ActorTypes
<1>5. ActorsRun'
    BY <1>1, <1>3 DEF ActorsInv, ActorsRun
<1>6. KilledOnes'
  <2>. SUFFICES ASSUME NEW k \in killing'
                PROVE  /\ job_state'[k] \in Ended \cup {"running"}
                       /\ job_state'[k] = "running" =>
                            activity'[k].kind = "cancelled" \/ activity'[k] = Return(-2)
      BY DEF KilledOnes
  <2>1. CASE k = j
      BY <1>2, <1>3, <2>1
  <2>2. CASE k # j
      BY <1>3, <2>2 DEF ActorsInv, ActorTypes, KilledOnes
  <2>. QED
      BY <2>1, <2>2
<1>7. DeletedOnes'
    BY <1>3 DEF ActorsInv, ActorTypes, DeletedOnes
<1>. QED
    BY <1>4, <1>5, <1>6, <1>7 DEF ActorsInv

\* The end of execute_job_process.
LEMMA JobEndsStep ==
    ASSUME ActorsInv, NEW j \in Jobs, JobEnds(j)
    PROVE  ActorsInv'
<1>1. /\ activity[j].kind = "return" /\ UNCHANGED <<children, killing>>
      /\ activity' = [activity EXCEPT ![j] = Idle]
      /\ job_state' = [job_state EXCEPT ![j] = StateOf(Code(j))]
      /\ to_delete' \in {to_delete, to_delete \cup {j}}
    BY DEF JobEnds, Is, Becomes
<1>2. StateOf(Code(j)) \in Ended
    BY DEF StateOf, Ended
<1>3. job_state[j] = "running" /\ children' = [children EXCEPT ![j] = {}]
    BY <1>1, NoChildren DEF ActorsInv, ActorsRun
<1>. QED
    BY <1>1, <1>2, <1>3, ActorLeaves

\* The killer cancels a running parallel task, or stops the actor and its
\* children; of a job that is over it changes nothing.
LEMMA KillerStep ==
    ASSUME ActorsInv, NEW j \in Jobs, killer_process(j)
    PROVE  ActorsInv'
<1>1. /\ killing' = killing \cup {j} /\ UNCHANGED to_delete
      /\ job_state[j] \in Ended \cup {"running"}
    BY DEF killer_process
<1>2. CASE job_state[j] # "running"
  <2>1. UNCHANGED <<job_state, activity, children>>
      BY <1>2 DEF killer_process
  <2>. QED
      BY <1>1, <1>2, <2>1
         DEF ActorsInv, ActorTypes, ActorsRun, KilledOnes, DeletedOnes
<1>3. CASE job_state[j] = "running" /\ activity[j].kind = "ptask"
  <2>. DEFINE act == [kind |-> "cancelled"]
  <2>1. activity' = [activity EXCEPT ![j] = act] /\ UNCHANGED <<job_state, children>>
      BY <1>3 DEF killer_process, cancel_ptask, Is, Becomes
  <2>2. "kind" \in DOMAIN act /\ act.kind = "cancelled"
      OBVIOUS
  <2>. HIDE DEF act
  <2>3. children[j] = {}
      BY <1>3, NoChildren
  <2>4. \A k \in Jobs : activity'[k] = IF k = j THEN act ELSE activity[k]
      BY <2>1 DEF ActorsInv, ActorTypes
  <2>5. ActorTypes'
      BY <1>1, <2>1, <2>2, <2>4 DEF ActorsInv, ActorTypes
  <2>6. ActorsRun'
      BY <1>3, <2>1, <2>2, <2>3, <2>4 DEF ActorsInv, ActorsRun
  <2>7. KilledOnes'
      BY <1>1, <1>3, <2>1, <2>2, <2>4 DEF ActorsInv, ActorTypes, KilledOnes
  <2>8. DeletedOnes'
      BY <1>1, <2>1 DEF ActorsInv, DeletedOnes
  <2>. QED
      BY <2>5, <2>6, <2>7, <2>8 DEF ActorsInv
<1>4. CASE job_state[j] = "running" /\ activity[j].kind # "ptask"
  <2>1. /\ activity' = [activity EXCEPT ![j] = Idle]
        /\ children' = [children EXCEPT ![j] = {}]
        /\ job_state' = [job_state EXCEPT ![j] = "killed"]
      BY <1>4 DEF killer_process, cancel_ptask, Is, Becomes
  <2>2. "killed" \in Ended
      BY DEF Ended
  <2>. QED
      BY <1>1, <1>4, <2>1, <2>2, ActorLeaves
<1>. QED
    BY <1>2, <1>3, <1>4

\* A job whose completion is managed, or that is deleted, has ended.
LEMMA DeleteSteps ==
    ASSUME ActorsInv, delete_jobs \/ \E j \in Jobs : on_killing_done(j)
    PROVE  ActorsInv'
<1>1. ASSUME NEW j \in Jobs, on_killing_done(j)
      PROVE  ActorsInv'
    BY <1>1 DEF on_killing_done, actorVars, ActorsInv, ActorTypes, ActorsRun,
                KilledOnes, DeletedOnes, Ended
<1>2. CASE delete_jobs
  <2>1. /\ to_delete' = {} /\ killing' = killing \ to_delete
        /\ job_state' = [j \in Jobs |-> IF j \in to_delete THEN "deleted" ELSE job_state[j]]
        /\ UNCHANGED <<activity, children>>
      BY <1>2 DEF delete_jobs, Forgotten
  <2>2. \A j \in to_delete : job_state[j] # "running"
      BY DEF ActorsInv, DeletedOnes, Ended
  <2>3. ActorTypes' /\ DeletedOnes'
      BY <2>1 DEF ActorsInv, ActorTypes, DeletedOnes
  <2>4. ActorsRun'
      BY <2>1, <2>2 DEF ActorsInv, ActorsRun
  <2>5. KilledOnes'
      BY <2>1 DEF ActorsInv, ActorTypes, KilledOnes
  <2>. QED
      BY <2>3, <2>4, <2>5 DEF ActorsInv
<1>. QED
    BY <1>1, <1>2

\* Time passes for sleeps and parallel tasks, and changes no actor's kind.
LEMMA TickStep ==
    ASSUME ActorsInv, Tick
    PROVE  ActorsInv'
<1>1. /\ activity' = [j \in Jobs |-> Passed(j)]
      /\ UNCHANGED <<job_state, children, killing, to_delete>>
    BY DEF Tick, serverVars
<1>2. ASSUME NEW j \in Jobs
      PROVE  /\ "kind" \in DOMAIN activity'[j] /\ activity'[j].kind = activity[j].kind
             /\ activity[j].kind = "return" => activity'[j] = activity[j]
  <2>. DEFINE a == activity[j]
  <2>1. "kind" \in DOMAIN a /\ activity'[j] = Passed(j)
      BY <1>1 DEF ActorsInv, ActorTypes
  <2>2. CASE a.kind \in {"sleep", "ptask"}
    <3>1. activity'[j] = [a EXCEPT !.left = @ - 1, !.spent = @ + 1]
        BY <2>1, <2>2 DEF Passed
    <3>. HIDE DEF a
    <3>2. DOMAIN activity'[j] = DOMAIN a /\ activity'[j].kind = a.kind
        BY <2>1, <3>1
    <3>. QED
        BY <2>1, <2>2, <3>2 DEF a
  <2>3. CASE a.kind \notin {"sleep", "ptask"}
      BY <2>1, <2>3 DEF Passed
  <2>. QED
      BY <2>2, <2>3
<1>3. ActorTypes'
    BY <1>1, <1>2 DEF ActorsInv, ActorTypes
<1>4. ActorsRun'
    BY <1>1, <1>2 DEF ActorsInv, ActorsRun
<1>5. KilledOnes'
  <2>. SUFFICES ASSUME NEW j \in killing, job_state[j] = "running"
                PROVE  activity'[j].kind = "cancelled" \/ activity'[j] = Return(-2)
      BY <1>1 DEF ActorsInv, KilledOnes
  <2>1. j \in Jobs /\ (activity[j].kind = "cancelled" \/ activity[j] = Return(-2))
      BY DEF ActorsInv, ActorTypes, KilledOnes
  <2>2. Return(-2).kind = "return"
      BY DEF Return
  <2>. QED
      BY <1>2, <2>1, <2>2
<1>6. DeletedOnes'
    BY <1>1 DEF ActorsInv, DeletedOnes
<1>. QED
    BY <1>3, <1>4, <1>5, <1>6 DEF ActorsInv

\* No step of the workload, the actors, the killers, the server or the clock
\* disturbs the invariant.
LEMMA ActorsStep ==
    ASSUME ActorsInv, [Next]_vars
    PROVE  ActorsInv'
<1>1. ASSUME NEW p \in Profiles, RegisterProfile(p)
      PROVE  ActorsInv'
    BY <1>1, ActorsStay DEF RegisterProfile, actorVars, serverVars
<1>2. ASSUME NEW j \in Jobs, RegisterJob(j)
      PROVE  ActorsInv'
  <2>1. /\ job_state[j] = "unknown"
        /\ job_state' = [job_state EXCEPT ![j] = "submitted"]
        /\ UNCHANGED <<activity, children, killing, to_delete>>
      BY <1>2 DEF RegisterJob, actorVars, serverVars
  <2>. QED
      BY <2>1, JobBegins
<1>3. ASSUME NEW j \in Jobs, NEW a \in Allocations[j], ExecuteJob(j, a)
      PROVE  ActorsInv'
  <2>1. /\ job_state[j] = "submitted"
        /\ job_state' = [job_state EXCEPT ![j] = "running"]
        /\ UNCHANGED <<children, killing, to_delete>>
      BY <1>3 DEF ExecuteJob, serverVars
  <2>2. activity' = activity \/ activity' = [activity EXCEPT ![j] = Execute]
      BY <1>3, Zenon DEF ExecuteJob
  <2>3. CASE activity' = activity
      BY <2>1, <2>3, JobBegins
  <2>4. CASE activity' = [activity EXCEPT ![j] = Execute]
      BY <2>1, <2>4, JobBegins
  <2>. QED
      BY <2>2, <2>3, <2>4
<1>4. ASSUME NEW j \in Jobs, ActorStep(j)
      PROVE  ActorsInv'
    BY <1>4, ExecuteTaskStep, WakeUpStep, PtaskEndsStep, RanksStep, GoUpStep, JobEndsStep
       DEF ActorStep
<1>5. ASSUME NEW j \in Jobs, NEW r \in children[j], RankEnds(j, r)
      PROVE  ActorsInv'
    BY <1>5, RanksStep
<1>6. ASSUME NEW j \in Jobs, killer_process(j)
      PROVE  ActorsInv'
    BY <1>6, KillerStep
<1>7. ASSUME NEW j \in Jobs, on_killing_done(j)
      PROVE  ActorsInv'
    BY <1>7, DeleteSteps
<1>8. ASSUME NEW j \in Jobs, NEW m \in Messages, to_job_msg(j, m)
      PROVE  ActorsInv'
    BY <1>8, ActorsStay DEF to_job_msg, actorVars, serverVars
<1>9. CASE delete_jobs
    BY <1>9, DeleteSteps
<1>10. CASE Tick
    BY <1>10, TickStep
<1>11. CASE Finished \/ UNCHANGED vars
    BY <1>11, ActorsStay DEF Finished, vars, actorVars, serverVars
<1>. QED
    BY <1>1, <1>2, <1>3, <1>4, <1>5, <1>6, <1>7, <1>8, <1>9, <1>10, <1>11 DEF Next

\* What every actor is doing agrees with what its job is, in every workload.
THEOREM ActorsAgree == Spec => []ActorsInv
<1>1. ActorsInv /\ [Next]_vars => ActorsInv'
    BY ActorsStep
<1>. QED
    BY ActorsStart, <1>1, PTL DEF Spec

\* No actor of a job that is over is left, its ranks included, and a killed job
\* has ended once the actors that had something to do at that date are done: no
\* time passes between the work of its killer and its end.
THEOREM KilledJobsAreStopped == Spec => []KilledJobsStop
<1>1. ActorsInv => KilledJobsStop
  <2>. SUFFICES ASSUME ActorsInv PROVE KilledJobsStop
      OBVIOUS
  <2>1. ASSUME NEW j \in Jobs, job_state[j] \in Ended
        PROVE  children[j] = {} /\ Is(j, "idle")
    <3>1. job_state[j] # "running"
        BY <2>1 DEF Ended
    <3>. QED
        BY <3>1 DEF ActorsInv, ActorsRun, Is
  <2>2. ASSUME Quiet, \A j \in Jobs : ~Due(j), NEW j \in killing \cap Running
        PROVE  FALSE
    <3>1. activity[j].kind = "cancelled" \/ activity[j] = Return(-2)
        BY <2>2 DEF ActorsInv, KilledOnes, Running
    <3>2. activity[j].kind = "cancelled" \/ activity[j].kind = "return"
        BY <3>1 DEF Return
    <3>. QED
        BY <2>2, <3>2 DEF Quiet, Due, Is, Running
  <2>. QED
      BY <2>1, <2>2 DEF KilledJobsStop
<1>. QED
    BY <1>1, ActorsAgree, PTL
=============================================================================
