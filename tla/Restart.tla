------------------------------- MODULE Restart -------------------------------
(***************************************************************************)
(* Checkpoints of a whole simulation, and restarts from them, with         *)
(* conservative backfilling.                                               *)
(*                                                                         *)
(* A checkpoint is written by two programs.  The scheduler notifies Batsim *)
(* (isalgorithm.cpp); Batsim writes the unfinished jobs to a new folder    *)
(* and asks the scheduler, by a call at the same date, to write its        *)
(* schedule and its queues to that folder (protocol.cpp, workload.cpp);    *)
(* the scheduler does so at the beginning of its next decision.  The       *)
(* simulation may be lost at any time.  It is started again from a folder: *)
(* Batsim submits the unfinished jobs again, and the scheduler, with the   *)
(* first of them, goes back to the schedule that it had written.           *)
(*                                                                         *)
(* The names of the jobs get the next "$n" in both programs and stay the   *)
(* same otherwise: they are left out.  The work left of a running job is   *)
(* its walltime minus its progress, so it keeps the date at which it ends. *)
(***************************************************************************)
EXTENDS ConservativeBF

CONSTANT MaxRestarts  \* bound on the times the simulation is lost

ASSUME RestartAssumption ==
  /\ MaxRestarts \in Nat
  /\ \A s \in Simulations :
       /\ s.interval \in Nat  \* --checkpoint-batsim-interval, 0 for "False"
       /\ s.keep \in Nat      \* --checkpoint-batsim-keep
       /\ s.signals \in Nat   \* bound on the checkpoints asked for by a signal
       /\ s.generators = {}

VARIABLES
  folders,    \* checkpoint_1, checkpoint_2...: what both programs wrote
  notified,   \* the notification that Batsim handles, a set of at most one
  base,       \* the flags of the scheduler that are about checkpoints
  origin,     \* the folder the simulation was started from
  recover,    \* _recover_from_checkpoint
  restarts, signals   \* how often this happened

checkpointing == <<folders, notified, base, origin, recover, restarts, signals>>
allvars == <<vars, checkpointing>>

None == [absent |-> TRUE]
NoFolder == [work |-> None, sched |-> None]
NoFlags == [nb_batsim_checkpoints |-> 0, need_to_send_checkpoint |-> FALSE,
            need_to_checkpoint |-> FALSE]

RestartInit ==
  /\ Init
  /\ folders = << >> /\ notified = {} /\ base = NoFlags
  /\ origin = NoFolder /\ recover = FALSE /\ restarts = 0 /\ signals = 0

------------------------------------------------------------------------------
(* Batsim writes its part.                                                 *)

Complete == {"done", "killed", "rejected"}

\* The jobs that are not complete.  The notification is the first event of the
\* message: what the rest of it starts or rejects does not count yet, and what it
\* registers is not known yet.
Unfinished(n) ==
  {j \in Jobs : status[j] \notin Complete \cup {"none"} \/ j \in n.decided}
    \ n.registered

\* A running job is written with a profile and a walltime without its progress.
WorkDone == [j \in InStatus("running") |-> began[j]]

WorkloadFile(n) ==
  [date |-> clock, began |-> WorkDone, unfinished |-> Unfinished(n), status |-> status]

\* Mutant: the folders stay where they are, the last one is written again.
Rotated_inPlace(w) ==
  IF Len(folders) < 2 THEN <<[work |-> w, sched |-> None]>> \o folders
  ELSE [folders EXCEPT ![1] = [work |-> w, sched |-> None]]

\* Earlier checkpoints move one folder down, and the oldest is removed; if only
\* one is kept, Batsim's files are overwritten and those of the scheduler stay.
Rotated(w) ==
  LET new == [work |-> w, sched |-> None]
      all == <<new>> \o folders
  IN IF config.keep > 1 THEN SubSeq(all, 1, IF Len(all) < config.keep THEN Len(all)
                                           ELSE config.keep)
     ELSE IF folders = << >> THEN <<new>>
     ELSE <<[new EXCEPT !.sched = folders[1].sched]>>

\* The scheduler is called at once.
CallNow(forWhat) == [id |-> 1, forWhat |-> forWhat, about |-> 1, date |-> clock]

\* Mutant: the scheduler is not called.
CallBack_none == {}
CallBack == {CallNow("CHECKPOINT_BATSCHED")}

\* Other actors of Batsim may go on at the same date before it writes.
handle_notify ==
  /\ \E n \in notified : folders' = Rotated(WorkloadFile(n))
  /\ notified' = {}
  /\ timers' = timers \cup CallBack
  /\ UNCHANGED <<alg, config, inbox, clock, status, began, on, killing, no_more_static,
                 finished, base, origin, recover, restarts, signals>>

------------------------------------------------------------------------------
(* The scheduler writes its part.                                          *)

on_signal_checkpoint ==
  /\ signals < config.signals /\ signals' = signals + 1
  /\ base' = [base EXCEPT !.need_to_send_checkpoint = TRUE]
  /\ UNCHANGED <<vars, folders, notified, origin, recover, restarts>>

check_checkpoint_time == clock >= config.interval * (base.nb_batsim_checkpoints + 1)

Ready == (config.interval # 0 /\ check_checkpoint_time) \/ base.need_to_send_checkpoint

\* Mutant: the checkpoint is not counted.
send_batsim_checkpoint_if_ready_uncounted ==
  [base EXCEPT !.need_to_send_checkpoint = FALSE]

\* The flag is cleared before it is tested: every checkpoint counts.
send_batsim_checkpoint_if_ready ==
  IF Ready THEN [base EXCEPT !.nb_batsim_checkpoints = @ + 1,
                             !.need_to_send_checkpoint = FALSE]
  ELSE base

\* Of the variables, the ones that are read again.
BaseVariables == [nb_call_me_laters |-> alg.nb_call_me_laters]
DerivedVariables ==
  [killed_jobs |-> alg.killed_jobs, saved_reservations |-> alg.saved_reservations,
   need_to_send_finished |-> alg.need_to_send_finished,
   recently_under_repair |-> alg.recently_under_repair,
   start_a_reservation |-> alg.start_a_reservation]

\* The schedule and the queues are as the last decision left them.
SchedulerFiles ==
  [date |-> clock, sched |-> alg.sched, queue |-> alg.queue,
   reservation_queue |-> alg.reservation_queue,
   base |-> BaseVariables, derived |-> DerivedVariables]

\* checkpoint_latest leads to the first folder.
checkpoint_batsched ==
  IF base.need_to_checkpoint THEN [folders EXCEPT ![1].sched = SchedulerFiles] ELSE folders

------------------------------------------------------------------------------
(* A restart.                                                              *)

\* A file without jobs is not valid.
Loadable(w) == w # None /\ w.unfinished # {}

\* The jobs that had been submitted have the date of the checkpoint.
SubmittedFirst(w) == {j \in w.unfinished : subtime[j] <= w.date}
StatusFrom(w) ==
  [j \in Jobs |-> IF j \in SubmittedFirst(w) THEN "released"
                  ELSE IF j \in w.unfinished THEN "todo" ELSE w.status[j]]

\* Batsim reads the unfinished jobs; the first of them come with one message.
\* Nothing happens before, and no call is made again.
StartFrom(f) ==
  LET w == f.work
  IN /\ Loadable(w)
     /\ clock' = w.date
     /\ status' = StatusFrom(w)
     /\ inbox' = [NoEvents EXCEPT !.released = Ascending(SubmittedFirst(w))]
     /\ began' = [j \in Jobs |-> 0] /\ on' = [j \in Jobs |-> {}]
     /\ timers' = {} /\ killing' = {} /\ no_more_static' = FALSE /\ finished' = FALSE
     /\ UNCHANGED config

\* The scheduler waits for the first jobs.  The machines a reservation asked for
\* are written under a name that nobody reads.
on_start_from_checkpoint ==
  /\ alg' = [on_simulation_start EXCEPT !.future = [r \in Reservations |-> {}]]
  /\ base' = NoFlags /\ recover' = TRUE

Restart(n) ==
  /\ restarts < MaxRestarts /\ restarts' = restarts + 1
  /\ StartFrom(folders[n]) /\ on_start_from_checkpoint
  /\ origin' = folders[n]
  /\ folders' = << >> /\ notified' = {}
  /\ UNCHANGED signals

JobsOfSchedule(S) == UNION {DOMAIN S.profile[i].jobs : i \in DOMAIN S.profile}

\* Machines that are read must not be the empty text, except in the last slice.
ReadableSlices(S) == \A i \in 1..(Len(S.profile) - 1) : S.profile[i].allocated # {}

\* A saved reservation is written with a key that is not the one that is read.
ReadableReservations(f) == f.derived.saved_reservations = << >>

\* The jobs are looked up among the submitted ones.
ingest_schedule(f, known) ==
  Check(f.sched,
        /\ JobsOfSchedule(f.sched) \cup ToSet(f.queue) \cup ToSet(f.reservation_queue)
             \subseteq known
        /\ ReadableSlices(f.sched) /\ ReadableReservations(f))

IngestBase(a, f) == [a EXCEPT !.nb_call_me_laters = f.base.nb_call_me_laters]
on_ingest_variables(a, f) ==
  [a EXCEPT !.killed_jobs = f.derived.killed_jobs,
            !.need_to_send_finished = f.derived.need_to_send_finished,
            !.recently_under_repair = f.derived.recently_under_repair,
            !.start_a_reservation = f.derived.start_a_reservation]

\* The jobs of the present go on where they were.
Resumed(S) == IF S.ok THEN S.profile[1].jobs ELSE NoJobs

\* Mutant: the queue is cleared only.
SavedQueue_cleared(f) == << >>

\* The queue of this run is cleared, with the jobs that have just arrived.
SavedQueue(f) == f.queue

on_first_jobs_submitted ==
  LET f == origin.sched
      D == Begin(on_ingest_variables(IngestBase(alg, f), f))
      S == ingest_schedule(f, ToSet(inbox.released))
  IN IF f = None THEN [Begin(alg) EXCEPT !.alg.sched = Fail(@)]
     ELSE [D EXCEPT !.alg.sched = S, !.alg.queue = SavedQueue(f),
                    !.alg.reservation_queue = f.reservation_queue,
                    !.executed = Resumed(S),
                    !.rejected = {j \in ToSet(inbox.released) \ Reservations : ~Acceptable(j)},
                    !.calls = <<CallNow("RECOVER_FROM_CHECKPOINT")>>]

\* A job that ran when the checkpoint was written ends as if it had gone on.
Since == [j \in Jobs |-> IF origin.work # None /\ j \in DOMAIN origin.work.began
                         THEN origin.work.began[j] ELSE clock]

------------------------------------------------------------------------------
(* Decisions, with both.                                                   *)

\* The checkpoint comes first, the events after it.
Checkpointing(D) ==
  /\ ~Delivered /\ Readable /\ alg.sched.ok /\ notified = {}
  /\ folders' = checkpoint_batsched
  /\ base' = [send_batsim_checkpoint_if_ready EXCEPT !.need_to_checkpoint = FALSE]
  /\ notified' = IF Ready THEN {[decided |-> DOMAIN D.executed \cup D.rejected,
                                 registered |-> D.submit]} ELSE {}
  /\ alg' = D.alg
  /\ UNCHANGED <<origin, restarts, signals>>

DecideOrRecover ==
  LET Decide(D) == Checkpointing(D) /\ Reply(D) /\ UNCHANGED recover
      Recover(D) == Checkpointing(D) /\ ReplySince(D, Since) /\ recover' = FALSE
  IN IF recover /\ inbox.released # << >> THEN Recover(on_first_jobs_submitted)
     ELSE Decide(Decision(<< >>))

\* The call for the scheduler's part raises a flag; the one after a recovery
\* only leads to a decision.
CheckpointCall(t) ==
  /\ alg.sched.ok
  /\ t.forWhat \in {"CHECKPOINT_BATSCHED", "RECOVER_FROM_CHECKPOINT"} /\ Ring(t, {})
  /\ base' = [base EXCEPT !.need_to_checkpoint = @ \/ t.forWhat = "CHECKPOINT_BATSCHED"]
  /\ UNCHANGED <<alg, folders, notified, origin, recover, restarts, signals>>

RestartNext ==
  \/ DecideOrRecover
  \/ handle_notify
  \/ on_signal_checkpoint
  \/ \E n \in DOMAIN folders : Restart(n)
  \/ \E t \in timers : CheckpointCall(t)
  \/ \E t \in timers : alg.sched.ok /\ ReservationStart(t) /\ UNCHANGED checkpointing
  \/ /\ BatsimNext /\ (clock' = clock \/ notified = {})
     /\ UNCHANGED <<alg, checkpointing>>

\* The simulation goes on; nothing is said of signals and restarts.
RestartFairness ==
  /\ BatsimFairness /\ WF_allvars(handle_notify)
  /\ WF_allvars(\E t \in timers : CheckpointCall(t))
  /\ []<>(Delivered \/ Stopped \/ notified # {})

RestartSpec == RestartInit /\ [][RestartNext]_allvars /\ RestartFairness

------------------------------------------------------------------------------
(* Properties.                                                             *)

Recovered == restarts > 0 /\ ~recover /\ alg.sched.ok

\* Jobs that wait in Batsim and in no queue of the scheduler.
Forgotten == IF Delivered /\ alg.sched.ok
             THEN InStatus("queued") \ (ToSet(alg.queue) \cup ToSet(alg.reservation_queue))
             ELSE {}

\* What the scheduler had written is what it goes on with: no job of the saved
\* queue or of the saved schedule is forgotten by a recovery.
SavedJobsKept ==
  Recovered => Forgotten \cap (ToSet(origin.sched.queue)
                                 \cup JobsOfSchedule(origin.sched.sched)) = {}

\* Both parts of the last checkpoint are of the same date, as soon as the
\* scheduler has answered Batsim's call.
LatestIsConsistent ==
  \/ folders = << >> \/ notified # {} \/ base.need_to_checkpoint \/ ~alg.sched.ok
  \/ \E t \in timers : t.forWhat = "CHECKPOINT_BATSCHED"
  \/ /\ folders[1].work # None /\ folders[1].sched # None
     /\ folders[1].work.date = folders[1].sched.date

\* The checkpoints that are kept are the last ones: as many as were taken since
\* the start, up to the limit, the latest first.
LastOnesKept ==
  LET taken == base.nb_batsim_checkpoints - Cardinality(notified)
      limit == IF config.keep > 1 THEN config.keep ELSE 1
  IN /\ Len(folders) = IF taken < limit THEN taken ELSE limit
     /\ \A i \in 2..Len(folders) : folders[i].work.date <= folders[i - 1].work.date
     /\ signals = 0 /\ restarts = 0 =>
          \A i \in DOMAIN folders : folders[i].work.date >= config.interval * (taken - i + 1)

\* After the last restart every job is run, unless the recovery failed or forgot
\* a job.  (A reservation that waits when the simulation is lost never starts:
\* the calls that had been asked for are written, and not read.)
RestartedRunEnds ==
  []<>(Stopped \/ Over \/ Forgotten # {} \/ \E r \in Reservations : status[r] = "queued")

\* "when the first jobs come in, they should be the 'previous currently running'
\* jobs": no job that is submitted to a recovering scheduler is lost.
NoJobForgotten == Forgotten = {}
=============================================================================
