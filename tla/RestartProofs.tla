---------------------------- MODULE RestartProofs ----------------------------
(***************************************************************************)
(* For every workload, every checkpoint interval and every number of       *)
(* folders to keep, the folders hold the last checkpoints that were taken, *)
(* the latest first.  The inductive invariant is CheckpointInv: it adds    *)
(* that a notification is sent when the checkpoint it counts is due, and   *)
(* that none is due early unless somebody asked for it by a signal.        *)
(*                                                                         *)
(* Both parts of the latest of them are of the same date, unless the       *)
(* scheduler has yet to write its part.  The inductive invariant is        *)
(* ConsistentInv: Batsim's call for that part is of the present, because   *)
(* time does not pass before it is answered, and nobody else makes such a  *)
(* call.  The latter is a fact about every step of a decision of           *)
(* conservative backfilling, loops included.                               *)
(***************************************************************************)
EXTENDS Restart, FiniteSetTheorems, TLAPS

\* Checkpoints Batsim has written since the simulation was last started.
Taken == base.nb_batsim_checkpoints - Cardinality(notified)

Limit == IF config.keep > 1 THEN config.keep ELSE 1

\* The date of a folder's part of Batsim.
Date(i) == folders[i].work.date

CheckpointTypes ==
    /\ config \in Simulations /\ clock \in Nat
    /\ signals \in Nat /\ restarts \in Nat
    /\ base \in [nb_batsim_checkpoints : Nat, need_to_send_checkpoint : BOOLEAN,
                 need_to_checkpoint : BOOLEAN]
    /\ folders \in Seq({folders[i] : i \in DOMAIN folders})
    /\ \A i \in DOMAIN folders :
         /\ folders[i] = [work |-> folders[i].work, sched |-> folders[i].sched]
         /\ Date(i) \in 0..clock

\* A notification is one, and is of a checkpoint that is counted.
OneNotification ==
    /\ \A n \in notified : notified = {n}
    /\ notified # {} => base.nb_batsim_checkpoints > 0

\* As many folders as checkpoints, up to the limit, the latest first.
LastFolders ==
    /\ Len(folders) = IF Taken < Limit THEN Taken ELSE Limit
    /\ \A i \in 2..Len(folders) : Date(i) <= Date(i - 1)

\* No checkpoint is early: neither the ones that are written nor the one that
\* Batsim is told to write.
OnSchedule ==
    /\ signals = 0 => ~base.need_to_send_checkpoint
    /\ signals = 0 /\ restarts = 0 =>
         /\ \A i \in DOMAIN folders : Date(i) >= config.interval * (Taken - i + 1)
         /\ notified # {} => clock >= config.interval * (Taken + 1)

CheckpointInv == CheckpointTypes /\ OneNotification /\ LastFolders /\ OnSchedule
-----------------------------------------------------------------------------
\* The options of a simulation.
LEMMA ConfigTypes ==
    ASSUME CheckpointTypes
    PROVE  /\ config.interval \in Nat /\ config.keep \in Nat
           /\ Limit \in Nat /\ Limit >= 1
BY RestartAssumption DEF CheckpointTypes, Limit

\* What Taken counts.
LEMMA TakenIs ==
    ASSUME OneNotification, base.nb_batsim_checkpoints \in Nat
    PROVE  /\ notified = {} => Taken = base.nb_batsim_checkpoints
           /\ notified # {} => Taken = base.nb_batsim_checkpoints - 1
           /\ Taken \in Nat
<1>1. CASE notified = {}
    BY <1>1, FS_EmptySet DEF Taken
<1>2. CASE notified # {}
  <2>1. PICK n \in notified : TRUE
      BY <1>2
  <2>2. notified = {n}
      BY <2>1 DEF OneNotification
  <2>3. Cardinality(notified) = 1
      BY <2>2, FS_Singleton
  <2>. QED
      BY <1>2, <2>3 DEF Taken, OneNotification
<1>. QED
    BY <1>1, <1>2

\* The simulation starts without folders.
LEMMA CheckpointStart == RestartInit => CheckpointInv
<1>. SUFFICES ASSUME RestartInit PROVE CheckpointInv
    OBVIOUS
<1>1. CheckpointTypes
    BY DEF RestartInit, Init, BatsimInit, CheckpointTypes, NoFlags
<1>2. OneNotification
    BY DEF RestartInit, OneNotification
<1>3. Taken = 0
    BY <1>1, <1>2, TakenIs DEF RestartInit, NoFlags
<1>. QED
    BY <1>1, <1>2, <1>3, ConfigTypes
       DEF CheckpointInv, LastFolders, OnSchedule, RestartInit, NoFlags

\* A step that writes no folder and counts no checkpoint, and lets no time pass
\* while Batsim has a notification to handle.
LEMMA NothingWritten ==
    ASSUME CheckpointInv, UNCHANGED <<config, folders, notified, restarts>>,
           base' = [base EXCEPT !.need_to_send_checkpoint =
                                  base'.need_to_send_checkpoint,
                                !.need_to_checkpoint = base'.need_to_checkpoint],
           base'.need_to_send_checkpoint \in BOOLEAN,
           base'.need_to_checkpoint \in BOOLEAN,
           signals' \in Nat,
           signals' = 0 => signals = 0 /\ ~base'.need_to_send_checkpoint,
           clock' = clock \/ clock' = clock + 1
    PROVE  CheckpointInv'
<1>1. base'.nb_batsim_checkpoints = base.nb_batsim_checkpoints
    BY DEF CheckpointInv, CheckpointTypes
<1>2. Taken' = Taken /\ Limit' = Limit /\ \A i \in DOMAIN folders : Date(i)' = Date(i)
    BY <1>1 DEF Taken, Limit, Date
<1>3. CheckpointTypes'
  <2>1. base' \in [nb_batsim_checkpoints : Nat, need_to_send_checkpoint : BOOLEAN,
                    need_to_checkpoint : BOOLEAN]
      BY DEF CheckpointInv, CheckpointTypes
  <2>2. clock' \in Nat /\ clock <= clock'
      BY DEF CheckpointInv, CheckpointTypes
  <2>3. ASSUME NEW i \in DOMAIN folders'
        PROVE  /\ folders'[i] = [work |-> folders'[i].work, sched |-> folders'[i].sched]
               /\ Date(i)' \in 0..clock'
      BY <1>2, <2>2 DEF CheckpointInv, CheckpointTypes
  <2>. QED
      BY <2>1, <2>2, <2>3 DEF CheckpointInv, CheckpointTypes
<1>4. OneNotification'
    BY <1>1 DEF CheckpointInv, OneNotification
<1>5. LastFolders'
    BY <1>2 DEF CheckpointInv, LastFolders, CheckpointTypes, Date
<1>6. OnSchedule'
  <2>1. /\ config.interval \in Nat /\ Taken \in Nat /\ clock \in Nat
        /\ config.interval * (Taken + 1) \in Nat
      BY ConfigTypes, TakenIs DEF CheckpointInv, CheckpointTypes
  <2>2. ASSUME signals' = 0, restarts' = 0
        PROVE  /\ \A i \in DOMAIN folders' :
                    Date(i)' >= config'.interval * (Taken' - i + 1)
               /\ notified' # {} => clock' >= config'.interval * (Taken' + 1)
      BY <1>2, <2>1, <2>2 DEF CheckpointInv, OnSchedule
  <2>. QED
      BY <2>2 DEF OnSchedule
<1>. QED
    BY <1>3, <1>4, <1>5, <1>6 DEF CheckpointInv

\* Batsim writes a folder: the one of the checkpoint that is counted.
LEMMA NotifyStep ==
    ASSUME CheckpointInv, handle_notify
    PROVE  CheckpointInv'
<1>. DEFINE F == folders  T == Taken  new(n) == [work |-> WorkloadFile(n), sched |-> None]
<1>1. PICK n \in notified : folders' = Rotated(WorkloadFile(n))
    BY DEF handle_notify
<1>2. /\ notified' = {} /\ UNCHANGED <<config, clock, base, signals, restarts>>
    BY DEF handle_notify
<1>3. /\ Taken' = Taken + 1 /\ Taken \in Nat /\ Taken' \in Nat
      /\ Taken' = base.nb_batsim_checkpoints
  <2>1. OneNotification' /\ base.nb_batsim_checkpoints \in Nat
      BY <1>2 DEF OneNotification, CheckpointInv, CheckpointTypes
  <2>2. Taken' = base'.nb_batsim_checkpoints
      BY <1>2, FS_EmptySet, <2>1 DEF Taken
  <2>. QED
      BY <1>1, <1>2, <2>1, <2>2, TakenIs DEF CheckpointInv
<1>4. /\ Limit' = Limit /\ Limit \in Nat /\ Limit >= 1
      /\ config.interval \in Nat /\ config.keep \in Nat
    BY <1>2, ConfigTypes DEF CheckpointInv, Limit
<1>5. /\ folders \in Seq({folders[i] : i \in DOMAIN folders}) /\ Len(folders) \in Nat
      /\ DOMAIN folders = 1..Len(folders)
    BY DEF CheckpointInv, CheckpointTypes
<1>6. /\ WorkloadFile(n).date = clock /\ clock \in Nat
    BY DEF WorkloadFile, CheckpointInv, CheckpointTypes
\* What the folders are, whether one is kept or several.
<1>7. /\ folders' \in Seq({folders'[i] : i \in DOMAIN folders'})
      /\ Len(folders') = IF Taken' < Limit THEN Taken' ELSE Limit
      /\ folders'[1] = [work |-> WorkloadFile(n), sched |-> folders'[1].sched]
      /\ \A i \in 2..Len(folders') : i - 1 \in DOMAIN folders /\ folders'[i] = folders[i - 1]
  <2>1. CASE config.keep > 1
    <3>. DEFINE S == {folders[i] : i \in DOMAIN folders} \cup {new(n)}
                all == <<new(n)>> \o folders
                k == IF Len(all) < config.keep THEN Len(all) ELSE config.keep
    <3>1. <<new(n)>> \in Seq(S) /\ folders \in Seq(S)
        BY <1>5
    <3>2. /\ all \in Seq(S) /\ Len(all) = Len(folders) + 1 /\ all[1] = new(n)
          /\ \A i \in 2..Len(all) : all[i] = folders[i - 1]
        BY <3>1, <1>5
    <3>3. folders' = SubSeq(all, 1, k)
        BY <1>1, <2>1 DEF Rotated
    <3>4. k \in 1..Len(all)
        BY <3>2, <2>1, <1>4, <1>5
    <3>. HIDE DEF all, k, S, new
    <3>5. /\ folders' \in Seq(S) /\ Len(folders') = k
          /\ \A i \in 1..k : folders'[i] = all[i]
        BY <3>2, <3>3, <3>4
    <3>6. folders' \in Seq({folders'[i] : i \in DOMAIN folders'})
        BY <3>5
    <3>7. k = IF Taken' < Limit THEN Taken' ELSE Limit
        BY <2>1, <3>2, <1>3, <1>4 DEF CheckpointInv, LastFolders, Limit, k
    <3>8. folders'[1] = new(n)
        BY <3>2, <3>4, <3>5
    <3>9. ASSUME NEW i \in 2..Len(folders')
          PROVE  i - 1 \in DOMAIN folders /\ folders'[i] = folders[i - 1]
        BY <3>2, <3>4, <3>5, <1>5
    <3>. QED
        BY <3>5, <3>6, <3>7, <3>8, <3>9 DEF new
  <2>2. CASE ~(config.keep > 1) /\ folders = << >>
    <3>1. folders' = <<new(n)>>
        BY <1>1, <2>2 DEF Rotated
    <3>2. Len(folders') = 1 /\ DOMAIN folders' = 1..1 /\ folders'[1] = new(n)
        BY <3>1
    <3>3. <<new(n)>> \in Seq({new(n)}) /\ {folders'[i] : i \in DOMAIN folders'} = {new(n)}
        BY <3>2
    <3>4. Limit = 1 /\ Taken = 0
        BY <2>2, <1>3, <1>4 DEF CheckpointInv, LastFolders, Limit
    <3>. QED
        BY <3>1, <3>2, <3>3, <3>4, <1>3
  <2>3. CASE ~(config.keep > 1) /\ folders # << >>
    <3>. DEFINE one == [new(n) EXCEPT !.sched = folders[1].sched]
    <3>1. folders' = <<one>> /\ one = [work |-> WorkloadFile(n), sched |-> folders[1].sched]
        BY <1>1, <2>3 DEF Rotated
    <3>. HIDE DEF one
    <3>2. Len(folders') = 1 /\ DOMAIN folders' = 1..1 /\ folders'[1] = one
        BY <3>1
    <3>3. <<one>> \in Seq({one}) /\ {folders'[i] : i \in DOMAIN folders'} = {one}
        BY <3>2
    <3>4. Limit = 1
        BY <2>3, <1>4 DEF Limit
    <3>. QED
        BY <3>1, <3>2, <3>3, <3>4, <1>3
  <2>. QED
      BY <2>1, <2>2, <2>3
<1>8. Len(folders') \in Nat /\ Len(folders') >= 1 /\ DOMAIN folders' = 1..Len(folders')
    BY <1>3, <1>4, <1>7
<1>9. /\ Date(1)' = clock
      /\ \A i \in 2..Len(folders') : Date(i)' = Date(i - 1)
    BY <1>6, <1>7 DEF Date
<1>10. CheckpointTypes'
  <2>1. ASSUME NEW i \in DOMAIN folders'
        PROVE  /\ folders'[i] = [work |-> folders'[i].work, sched |-> folders'[i].sched]
               /\ Date(i)' \in 0..clock'
    <3>1. CASE i = 1
        BY <3>1, <1>2, <1>6, <1>7, <1>9
    <3>2. CASE i # 1
      <4>1. i \in 2..Len(folders')
          BY <3>2, <1>8
      <4>. QED
          BY <4>1, <1>2, <1>7, <1>9 DEF CheckpointInv, CheckpointTypes
    <3>. QED
        BY <3>1, <3>2
  <2>. QED
      BY <2>1, <1>2, <1>7 DEF CheckpointInv, CheckpointTypes
<1>11. OneNotification'
    BY <1>2 DEF OneNotification
<1>12. LastFolders'
  <2>1. ASSUME NEW i \in 2..Len(folders')
        PROVE  Date(i)' <= Date(i - 1)'
    <3>1. i - 1 \in DOMAIN folders /\ Date(i)' = Date(i - 1)
        BY <1>7, <1>9
    <3>2. CASE i = 2
        BY <3>1, <3>2, <1>9 DEF CheckpointInv, CheckpointTypes
    <3>3. CASE i # 2
      <4>1. i - 1 \in 2..Len(folders') /\ i - 1 \in 2..Len(folders)
          BY <3>1, <3>3, <1>5, <1>8
      <4>. QED
          BY <3>1, <4>1, <1>9 DEF CheckpointInv, LastFolders
    <3>. QED
        BY <3>2, <3>3
  <2>. QED
      BY <2>1, <1>4, <1>7 DEF LastFolders
<1>13. OnSchedule'
  <2>1. ASSUME signals' = 0, restarts' = 0, NEW i \in DOMAIN folders'
        PROVE  Date(i)' >= config'.interval * (Taken' - i + 1)
    <3>1. CASE i = 1
      <4>1. Taken' - i + 1 = Taken + 1
          BY <3>1, <1>3
      <4>. QED
          BY <4>1, <3>1, <2>1, <1>1, <1>2, <1>9 DEF CheckpointInv, OnSchedule
    <3>2. CASE i # 1
      <4>1. i \in 2..Len(folders')
          BY <3>2, <1>8
      <4>2. Taken' - i + 1 = Taken - (i - 1) + 1
          BY <4>1, <1>3, <1>8
      <4>. QED
          BY <4>1, <4>2, <2>1, <1>2, <1>7, <1>9 DEF CheckpointInv, OnSchedule
    <3>. QED
        BY <3>1, <3>2
  <2>. QED
      BY <2>1, <1>2 DEF CheckpointInv, OnSchedule
<1>. QED
    BY <1>10, <1>11, <1>12, <1>13 DEF CheckpointInv

\* The scheduler writes its part, and counts the checkpoint it notifies Batsim of.
LEMMA CheckpointingStep ==
    ASSUME CheckpointInv, notified = {}, folders' = checkpoint_batsched,
           base' = [send_batsim_checkpoint_if_ready EXCEPT !.need_to_checkpoint = FALSE],
           IF Ready THEN \E n : notified' = {n} ELSE notified' = {},
           UNCHANGED <<config, clock, signals, restarts>>
    PROVE  CheckpointInv'
<1>1. /\ Ready => /\ base'.nb_batsim_checkpoints = base.nb_batsim_checkpoints + 1
                  /\ ~base'.need_to_send_checkpoint
      /\ ~Ready => /\ base'.nb_batsim_checkpoints = base.nb_batsim_checkpoints
                   /\ base'.need_to_send_checkpoint = base.need_to_send_checkpoint
      /\ base' \in [nb_batsim_checkpoints : Nat, need_to_send_checkpoint : BOOLEAN,
                    need_to_checkpoint : BOOLEAN]
  <2>. DEFINE flags(n, b, c) == [nb_batsim_checkpoints |-> n,
                                 need_to_send_checkpoint |-> b,
                                 need_to_checkpoint |-> c]
  <2>1. PICK n \in Nat, b \in BOOLEAN, c \in BOOLEAN : base = flags(n, b, c)
      BY DEF CheckpointInv, CheckpointTypes
  <2>2. CASE Ready
    <3>1. send_batsim_checkpoint_if_ready = flags(n + 1, FALSE, c)
        BY <2>1, <2>2 DEF send_batsim_checkpoint_if_ready
    <3>2. base' = flags(n + 1, FALSE, FALSE)
        BY <3>1
    <3>3. base'.nb_batsim_checkpoints = n + 1 /\ base'.need_to_send_checkpoint = FALSE
        BY <3>2
    <3>4. base.nb_batsim_checkpoints = n
        BY <2>1
    <3>5. base' \in [nb_batsim_checkpoints : Nat, need_to_send_checkpoint : BOOLEAN,
                     need_to_checkpoint : BOOLEAN]
      <4>1. n + 1 \in Nat /\ FALSE \in BOOLEAN
          OBVIOUS
      <4>. QED
          BY ONLY <3>2, <4>1
    <3>. QED
        BY <2>2, <3>3, <3>4, <3>5, Zenon
  <2>3. CASE ~Ready
    <3>1. base' = flags(n, b, FALSE)
        BY <2>1, <2>3 DEF send_batsim_checkpoint_if_ready
    <3>2. base'.nb_batsim_checkpoints = n /\ base'.need_to_send_checkpoint = b
        BY <3>1
    <3>3. base.nb_batsim_checkpoints = n /\ base.need_to_send_checkpoint = b
        BY <2>1
    <3>4. base' \in [nb_batsim_checkpoints : Nat, need_to_send_checkpoint : BOOLEAN,
                     need_to_checkpoint : BOOLEAN]
      <4>1. n \in Nat /\ b \in BOOLEAN /\ FALSE \in BOOLEAN
          OBVIOUS
      <4>. QED
          BY ONLY <3>1, <4>1
    <3>. QED
        BY <2>3, <3>2, <3>3, <3>4, Zenon
  <2>. QED
      BY <2>2, <2>3
<1>2. Taken = base.nb_batsim_checkpoints /\ Taken \in Nat
    BY TakenIs DEF CheckpointInv, CheckpointTypes
<1>3. OneNotification'
    BY <1>1, <1>2 DEF OneNotification
<1>4. Taken' = Taken
  <2>1. CASE Ready
    <3>1. Cardinality(notified') = 1
        BY <2>1, FS_Singleton
    <3>. QED
        BY <1>1, <1>2, <2>1, <3>1 DEF Taken
  <2>2. CASE ~Ready
    <3>1. notified' = notified
        BY <2>2
    <3>. QED
        BY <1>1, <2>2, <3>1, <1>2 DEF Taken, CheckpointInv, CheckpointTypes
  <2>. QED
      BY <2>1, <2>2
<1>5. /\ folders' \in Seq({folders'[i] : i \in DOMAIN folders'})
      /\ DOMAIN folders' = DOMAIN folders /\ Len(folders') = Len(folders)
      /\ \A i \in DOMAIN folders :
           folders'[i] = [work |-> folders[i].work, sched |-> folders'[i].sched]
  <2>. DEFINE first == [work |-> folders[1].work, sched |-> SchedulerFiles]
              F == {folders[i] : i \in DOMAIN folders} \cup {first}
  <2>1. CASE base.need_to_checkpoint /\ folders # << >>
    <3>1. 1 \in DOMAIN folders /\ [folders[1] EXCEPT !.sched = SchedulerFiles] = first
      <4>1. 1 \in DOMAIN folders
          BY <2>1 DEF CheckpointInv, CheckpointTypes
      <4>2. folders[1] = [work |-> folders[1].work, sched |-> folders[1].sched]
          BY <4>1 DEF CheckpointInv, CheckpointTypes
      <4>. DEFINE w == folders[1].work  c == folders[1].sched
      <4>3. [[work |-> w, sched |-> c] EXCEPT !.sched = SchedulerFiles]
              = [work |-> w, sched |-> SchedulerFiles]
          OBVIOUS
      <4>. QED
          BY <4>1, <4>2, <4>3
    <3>2. folders' = [folders EXCEPT ![1] = first]
        BY <2>1, <3>1 DEF checkpoint_batsched
    <3>. HIDE DEF first
    <3>3. folders \in Seq(F) /\ first \in F
        BY DEF CheckpointInv, CheckpointTypes
    <3>. HIDE DEF F
    <3>4. /\ folders' \in Seq(F) /\ DOMAIN folders' = DOMAIN folders
          /\ Len(folders') = Len(folders)
          /\ \A i \in DOMAIN folders : folders'[i] = IF i = 1 THEN first ELSE folders[i]
        BY <3>1, <3>2, <3>3
    <3>5. folders' \in Seq({folders'[i] : i \in DOMAIN folders'})
        BY <3>4
    <3>. QED
        BY <3>4, <3>5 DEF CheckpointInv, CheckpointTypes, first
  <2>2. CASE folders = << >> \/ ~base.need_to_checkpoint
    <3>1. folders' = folders
        BY <2>2 DEF checkpoint_batsched
    <3>. QED
        BY <3>1 DEF CheckpointInv, CheckpointTypes
  <2>. QED
      BY <2>1, <2>2
<1>6. \A i \in DOMAIN folders : Date(i)' = Date(i)
    BY <1>5 DEF Date
<1>7. CheckpointTypes'
    BY <1>1, <1>5, <1>6 DEF CheckpointInv, CheckpointTypes
<1>8. LastFolders'
  <2>1. Limit' = Limit
      BY DEF Limit
  <2>2. \A i \in 2..Len(folders) : i \in DOMAIN folders /\ i - 1 \in DOMAIN folders
      BY DEF CheckpointInv, CheckpointTypes
  <2>. QED
      BY <1>4, <1>5, <1>6, <2>1, <2>2 DEF CheckpointInv, LastFolders
<1>9. OnSchedule'
  <2>1. ASSUME signals' = 0, notified' # {}
        PROVE  clock' >= config'.interval * (Taken' + 1)
    <3>1. Ready /\ ~base.need_to_send_checkpoint
        BY <2>1 DEF CheckpointInv, OnSchedule
    <3>2. clock >= config.interval * (base.nb_batsim_checkpoints + 1)
        BY <3>1 DEF Ready, check_checkpoint_time
    <3>. QED
        BY <1>2, <1>4, <3>2
  <2>2. ASSUME signals' = 0, restarts' = 0, NEW i \in DOMAIN folders'
        PROVE  Date(i)' >= config'.interval * (Taken' - i + 1)
      BY <2>2, <1>4, <1>5, <1>6 DEF CheckpointInv, OnSchedule
  <2>. QED
      BY <1>1, <2>1, <2>2 DEF CheckpointInv, OnSchedule
<1>. QED
    BY <1>3, <1>7, <1>8, <1>9 DEF CheckpointInv

\* A decision is one of a step of Checkpointing, recovery or not.
LEMMA DecisionStep ==
    ASSUME CheckpointInv, DecideOrRecover
    PROVE  CheckpointInv'
<1>1. /\ notified = {} /\ folders' = checkpoint_batsched
      /\ base' = [send_batsim_checkpoint_if_ready EXCEPT !.need_to_checkpoint = FALSE]
      /\ IF Ready THEN \E n : notified' = {n} ELSE notified' = {}
      /\ UNCHANGED <<config, clock, signals, restarts>>
    BY DEF DecideOrRecover, Checkpointing, Reply, ReplySince
<1>. QED
    BY <1>1, CheckpointingStep

\* A restart goes back to the date of a folder, and begins without folders.
LEMMA RestartStep ==
    ASSUME CheckpointInv, NEW n \in DOMAIN folders, Restart(n)
    PROVE  CheckpointInv'
<1>1. /\ clock' = Date(n) /\ restarts' = restarts + 1 /\ base' = NoFlags
      /\ folders' = << >> /\ notified' = {} /\ UNCHANGED <<signals, config>>
    BY DEF Restart, StartFrom, on_start_from_checkpoint, Date
<1>2. CheckpointTypes'
    BY <1>1 DEF CheckpointInv, CheckpointTypes, NoFlags
<1>3. OneNotification'
    BY <1>1 DEF OneNotification
<1>4. base'.nb_batsim_checkpoints = 0 /\ ~base'.need_to_send_checkpoint
    BY <1>1 DEF NoFlags
<1>5. Taken' = 0
    BY <1>1, <1>4, FS_EmptySet DEF Taken
<1>6. Limit' \in Nat /\ Limit' >= 1
    BY <1>1, ConfigTypes DEF CheckpointInv, Limit
<1>7. LastFolders'
    BY <1>1, <1>5, <1>6 DEF LastFolders
<1>8. OnSchedule'
    BY <1>1, <1>4, <1>2 DEF OnSchedule, CheckpointTypes, CheckpointInv
<1>. QED
    BY <1>2, <1>3, <1>7, <1>8 DEF CheckpointInv

\* No step of both programs disturbs the invariant.
LEMMA CheckpointStep ==
    ASSUME CheckpointInv, [RestartNext]_allvars
    PROVE  CheckpointInv'
<1>. USE DEF vars, batsim, checkpointing
<1>1. /\ base = [base EXCEPT !.need_to_send_checkpoint = base.need_to_send_checkpoint,
                             !.need_to_checkpoint = base.need_to_checkpoint]
      /\ base.need_to_send_checkpoint \in BOOLEAN /\ base.need_to_checkpoint \in BOOLEAN
      /\ signals \in Nat
      /\ signals = 0 => ~base.need_to_send_checkpoint
    BY DEF CheckpointInv, CheckpointTypes, OnSchedule
<1>2. CASE DecideOrRecover
    BY <1>2, DecisionStep
<1>3. CASE handle_notify
    BY <1>3, NotifyStep
<1>4. CASE on_signal_checkpoint
  <2>1. /\ signals' = signals + 1 /\ signals' \in Nat /\ signals' # 0
        /\ UNCHANGED <<config, clock, folders, notified, restarts>>
        /\ base' = [base EXCEPT !.need_to_send_checkpoint = TRUE]
      BY <1>1, <1>4 DEF on_signal_checkpoint
  <2>2. /\ base'.need_to_send_checkpoint = TRUE
        /\ base'.need_to_checkpoint = base.need_to_checkpoint
        /\ base' = [base EXCEPT !.need_to_send_checkpoint =
                                  base'.need_to_send_checkpoint,
                                !.need_to_checkpoint = base'.need_to_checkpoint]
      BY <2>1 DEF CheckpointInv, CheckpointTypes
  <2>. QED
      BY <1>1, <2>1, <2>2, NothingWritten
<1>5. ASSUME NEW n \in DOMAIN folders, Restart(n)
      PROVE  CheckpointInv'
    BY <1>5, RestartStep
<1>6. ASSUME NEW t \in timers, CheckpointCall(t)
      PROVE  CheckpointInv'
  <2>1. UNCHANGED <<config, clock, folders, notified, restarts, signals>>
      BY <1>6 DEF CheckpointCall, Ring
  <2>2. base' = [base EXCEPT !.need_to_checkpoint =
                               @ \/ t.forWhat = "CHECKPOINT_BATSCHED"]
      BY <1>6 DEF CheckpointCall
  <2>3. /\ base'.need_to_send_checkpoint = base.need_to_send_checkpoint
        /\ base'.need_to_checkpoint \in BOOLEAN
        /\ base' = [base EXCEPT !.need_to_send_checkpoint =
                                  base'.need_to_send_checkpoint,
                                !.need_to_checkpoint = base'.need_to_checkpoint]
      BY <2>2 DEF CheckpointInv, CheckpointTypes
  <2>. QED
      BY <1>1, <2>1, <2>3, NothingWritten
<1>7. ASSUME NEW t \in timers, ReservationStart(t), UNCHANGED checkpointing
      PROVE  CheckpointInv'
    BY <1>1, <1>7, NothingWritten DEF ReservationStart, Ring
<1>8. CASE BatsimNext /\ (clock' = clock \/ notified = {})
           /\ UNCHANGED <<alg, checkpointing>>
  <2>1. UNCHANGED config /\ (clock' = clock \/ clock' = clock + 1)
      BY <1>8 DEF BatsimNext, NoMoreStatic, Submit, End, KillDone, Tick
  <2>. QED
      BY <1>1, <1>8, <2>1, NothingWritten
<1>9. CASE UNCHANGED allvars
    BY <1>1, <1>9, NothingWritten DEF allvars
<1>. QED
    BY <1>2, <1>3, <1>4, <1>5, <1>6, <1>7, <1>8, <1>9 DEF RestartNext

\* The invariant holds for every option and however often the simulation is lost.
THEOREM CheckpointsCounted == RestartSpec => []CheckpointInv
<1>1. CheckpointInv /\ [RestartNext]_allvars => CheckpointInv'
    BY CheckpointStep
<1>. QED
    BY CheckpointStart, <1>1, PTL DEF RestartSpec

\* The folders that are kept (protocol.cpp) are those of the last checkpoints
\* that the scheduler counted (isalgorithm.cpp), the latest first: one is missing
\* only while fewer than the limit were taken or a notification is under way.
\* Without signals and restarts none is earlier than its multiple of the interval.
THEOREM TheLastOnesAreKept == RestartSpec => []LastOnesKept
<1>1. CheckpointInv => LastOnesKept
    BY DEF CheckpointInv, LastFolders, OnSchedule, Taken, Limit, Date, LastOnesKept
<1>. QED
    BY <1>1, CheckpointsCounted, PTL
-----------------------------------------------------------------------------
(* Decisions ask for no call about checkpoints: only Batsim does.           *)

IsList(q) == q \in Seq({q[i] : i \in DOMAIN q})

\* The fields of the scheduler's state and of a decision.
AlgFields ==
  {"sched", "queue", "reservation_queue", "start_a_reservation", "need_to_compress",
   "killed_jobs", "resubmitted", "resubmitted_released", "saved_reservations",
   "saved_recently_queued", "recently_under_repair", "future", "failures",
   "nb_call_me_laters", "need_to_send_finished"}
DecisionFields ==
  {"alg", "executed", "rejected", "kill", "calls", "submit", "finished"}

\* What is known of the scheduler's state: its queues are lists, and the sets
\* that it goes through are finite.
AlgTypes(a) ==
  /\ DOMAIN a = AlgFields
  /\ IsList(a.queue) /\ IsList(a.reservation_queue)
  /\ IsList(a.saved_recently_queued)
  /\ IsList(a.saved_reservations)
  /\ \A i \in DOMAIN a.saved_reservations : a.saved_reservations[i].reschedule \subseteq Jobs
  /\ IsFiniteSet(a.resubmitted_released)

\* A decision in progress asks for no call that is about checkpoints.
Decides(D) ==
  /\ DOMAIN D = DecisionFields /\ AlgTypes(D.alg)
  /\ IsList(D.calls)
  /\ \A i \in DOMAIN D.calls : D.calls[i].forWhat # "CHECKPOINT_BATSCHED"

\* The same of what the loops carry that place jobs and try reservations.
Placing(R) == DOMAIN R = {"d", "n", "depth", "again"} /\ Decides(R.d)
Trying(R) == DOMAIN R = {"d", "recent"} /\ Decides(R.d) /\ IsList(R.recent)

\* The loops of conservative backfilling, with what each of them keeps.
PlacePass(c, R, j) == PlaceOne(R, j)
PlaceLoop(c, i, R) == Placing(R)
PL == INSTANCE Folding WITH Step <- PlacePass, Inv <- PlaceLoop

StartPass(c, D, r) == StartReservation(D, r)
DecideLoop(c, i, D) == Decides(D)
SL == INSTANCE Folding WITH Step <- StartPass, Inv <- DecideLoop

AnnouncePass(c, D, s) == AnnounceOne(D, s)
AL == INSTANCE Folding WITH Step <- AnnouncePass, Inv <- DecideLoop

TryPass(c, R, r) == TryReservation(R, r)
TryLoop(c, i, R) == Trying(R)
TL == INSTANCE Folding WITH Step <- TryPass, Inv <- TryLoop

FailPass(c, D, m) == FailOn(D, m)
FL == INSTANCE Folding WITH Step <- FailPass, Inv <- DecideLoop

-----------------------------------------------------------------------------
(* Lists.                                                                   *)

\* A sequence is a list.
LEMMA ListOf ==
  ASSUME NEW T, NEW q \in Seq(T)
  PROVE  IsList(q)
BY DEF IsList

\* The length and the positions of a list, and the set of its entries.
LEMMA ListIs ==
  ASSUME NEW q, IsList(q)
  PROVE  Len(q) \in Nat /\ DOMAIN q = 1..Len(q) /\ IsFiniteSet(ToSet(q))
<1>1. q \in Seq(ToSet(q))
  BY DEF IsList, ToSet
<1>2. Len(q) \in Nat /\ DOMAIN q = 1..Len(q)
  BY <1>1
<1>3. IsFiniteSet(1..Len(q))
  BY <1>2, FS_Interval
<1>4. q \in Surjection(1..Len(q), ToSet(q))
  BY <1>1, <1>2 DEF Surjection, ToSet
<1> QED BY <1>2, <1>3, <1>4, FS_Surjection

\* The elements of a finite set in some order are a list.
LEMMA ListedIsList ==
  ASSUME NEW S, IsFiniteSet(S), NEW ahead
  PROVE  IsList(Listed(S, ahead))
<1> DEFINE n == Cardinality(S)
           e(i) == CHOOSE x \in S : Cardinality(ahead[x]) = i - 1
           T == {e(i) : i \in 1..n}
<1>1. n \in Nat
  BY FS_CardinalityType
<1>2. Listed(S, ahead) = [i \in 1..n |-> e(i)]
  BY DEF Listed
<1> HIDE DEF n, e
<1>3. [i \in 1..n |-> e(i)] \in Seq(T)
  BY <1>1
<1> QED BY <1>2, <1>3, ListOf

\* So are the entries of a list that belong to a set.
LEMMA OnlyIsList ==
  ASSUME NEW q, IsList(q), NEW S
  PROVE  IsList(Only(q, S))
<1> DEFINE at == Ascending({i \in DOMAIN q : q[i] \in S})
           r == [x \in DOMAIN at |-> q[at[x]]]
<1>1. IsFiniteSet({i \in DOMAIN q : q[i] \in S})
  <2>1. IsFiniteSet(1..Len(q))
    BY ListIs, FS_Interval
  <2>2. {i \in DOMAIN q : q[i] \in S} \subseteq 1..Len(q)
    BY ListIs
  <2> QED BY <2>1, <2>2, FS_Subset
<1>2. IsList(at)
  BY <1>1, ListedIsList DEF Ascending
<1>3. Len(at) \in Nat /\ DOMAIN at = 1..Len(at)
  BY <1>2, ListIs
<1>4. Only(q, S) = r
  BY DEF Only
<1> HIDE DEF at
<1>5. r \in Seq({q[at[x]] : x \in 1..Len(at)})
  BY <1>3
<1> QED BY <1>4, <1>5, ListOf

\* Two lists one after the other.
LEMMA JoinedIsList ==
  ASSUME NEW p, NEW q, IsList(p), IsList(q)
  PROVE  IsList(p \o q)
<1> DEFINE T == {p[i] : i \in DOMAIN p} \cup {q[i] : i \in DOMAIN q}
<1>1. p \in Seq(T) /\ q \in Seq(T)
  BY DEF IsList
<1> HIDE DEF T
<1>2. p \o q \in Seq(T)
  BY <1>1
<1> QED BY <1>2, ListOf

\* A list with one entry more.
LEMMA AppendedIsList ==
  ASSUME NEW p, IsList(p), NEW e
  PROVE  /\ IsList(Append(p, e)) /\ DOMAIN Append(p, e) = 1..(Len(p) + 1)
         /\ \A i \in DOMAIN Append(p, e) :
              Append(p, e)[i] = IF i \in DOMAIN p THEN p[i] ELSE e
<1> DEFINE T == {p[i] : i \in DOMAIN p} \cup {e}
<1>1. p \in Seq(T) /\ e \in T
  BY DEF IsList
<1> HIDE DEF T
<1>2. Append(p, e) \in Seq(T)
  BY <1>1
<1>3. DOMAIN Append(p, e) = 1..(Len(p) + 1)
  BY <1>1
<1>4. \A i \in DOMAIN Append(p, e) :
              Append(p, e)[i] = IF i \in DOMAIN p THEN p[i] ELSE e
  BY <1>1
<1> QED BY <1>2, <1>3, <1>4, ListOf

\* Sorted sets of jobs are lists.
LEMMA SortedIsList ==
  ASSUME NEW S, IsFiniteSet(S)
  PROVE  IsList(Sorted(S))
BY ListedIsList DEF Sorted

\* Sets of jobs are finite.
LEMMA JobsFinite ==
  ASSUME NEW A, A \subseteq Jobs
  PROVE  IsFiniteSet(A)
BY PlatformAssumption, FS_Subset
-----------------------------------------------------------------------------
(* The steps of a decision.                                                 *)

\* E is the decision D with another schedule, or with other jobs to execute, to
\* reject or to kill.
SameLists(D, E) ==
  /\ DOMAIN E = DOMAIN D /\ DOMAIN E.alg = DOMAIN D.alg
  /\ E.calls = D.calls
  /\ E.alg.queue = D.alg.queue /\ E.alg.reservation_queue = D.alg.reservation_queue
  /\ E.alg.saved_recently_queued = D.alg.saved_recently_queued
  /\ E.alg.saved_reservations = D.alg.saved_reservations
  /\ E.alg.resubmitted_released = D.alg.resubmitted_released

\* A decision that differs in nothing the invariant speaks of is one as well.
LEMMA SameListsDecide ==
  ASSUME NEW D, NEW E, Decides(D), SameLists(D, E)
  PROVE  Decides(E)
BY DEF SameLists, Decides, AlgTypes

\* A decision begins with the scheduler's state, and without calls.
LEMMA BeginDecides ==
  ASSUME NEW a, AlgTypes(a)
  PROVE  Decides(Begin(a))
<1>1. /\ DOMAIN Begin(a) = DecisionFields /\ Begin(a).alg = a /\ Begin(a).calls = << >>
  BY DEF AlgFields, DecisionFields, Begin
<1>2. IsList(<< >>)
  BY <<>> \in Seq({}), ListOf
<1> QED BY <1>1, <1>2 DEF Decides

\* A decision with another schedule.
LEMMA SchedDecides ==
  ASSUME NEW D, Decides(D), NEW S
  PROVE  Decides([D EXCEPT !.alg.sched = S])
<1>1. SameLists(D, [D EXCEPT !.alg.sched = S])
  BY DEF AlgFields, DecisionFields, SameLists, Decides, AlgTypes
<1> QED BY <1>1, SameListsDecide

\* A job is executed.
LEMMA ExecuteDecides ==
  ASSUME NEW D, Decides(D), NEW j, NEW ms
  PROVE  Decides(Execute(D, j, ms))
<1>1. SameLists(D, Execute(D, j, ms))
  BY DEF AlgFields, DecisionFields, SameLists, Decides, AlgTypes, Execute
<1> QED BY <1>1, SameListsDecide

\* A call for a reservation, or for the end of a repair.
LEMMA CallDecides ==
  ASSUME NEW D, Decides(D), NEW forWhat, NEW about, NEW date,
         forWhat # "CHECKPOINT_BATSCHED"
  PROVE  Decides(CallMeLater(D, forWhat, about, date))
<1> DEFINE E == CallMeLater(D, forWhat, about, date)
           call == [id |-> D.alg.nb_call_me_laters, forWhat |-> forWhat,
                    about |-> about, date |-> date]
<1>1. /\ DOMAIN E = DOMAIN D /\ E.calls = Append(D.calls, call)
      /\ E.alg = [D.alg EXCEPT !.nb_call_me_laters = @ + 1]
  BY DEF AlgFields, DecisionFields, CallMeLater, Decides
<1>2. AlgTypes(E.alg)
  <2> HIDE DEF E
  <2> QED BY <1>1 DEF AlgFields, DecisionFields, Decides, AlgTypes
<1>3. call.forWhat = forWhat
  OBVIOUS
<1> HIDE DEF E, call
<1>4. IsList(E.calls) /\ \A i \in DOMAIN E.calls : E.calls[i].forWhat # "CHECKPOINT_BATSCHED"
  BY <1>1, <1>3, AppendedIsList DEF Decides
<1>5. Decides(E)
  BY <1>1, <1>2, <1>4 DEF Decides
<1> QED BY <1>5 DEF E

\* A job leaves the queue (queue.cpp, remove_job).
LEMMA FromQueueDecides ==
  ASSUME NEW D, Decides(D), NEW j
  PROVE  Decides(FromQueue(D, j))
<1> DEFINE E == FromQueue(D, j)
<1>1. /\ DOMAIN E = DOMAIN D /\ E.calls = D.calls
      /\ DOMAIN E.alg = DOMAIN D.alg /\ E.alg.queue = Dequeue(D.alg.queue, j)
      /\ E.alg.reservation_queue = D.alg.reservation_queue
      /\ E.alg.saved_recently_queued = D.alg.saved_recently_queued
      /\ E.alg.saved_reservations = D.alg.saved_reservations
      /\ E.alg.resubmitted_released = D.alg.resubmitted_released
  BY DEF AlgFields, DecisionFields, FromQueue, Decides, AlgTypes
<1>2. IsList(Dequeue(D.alg.queue, j))
  BY OnlyIsList DEF Dequeue, Decides, AlgTypes
<1> HIDE DEF E
<1>3. Decides(E)
  BY <1>1, <1>2 DEF Decides, AlgTypes
<1> QED BY <1>3 DEF E

\* A reservation leaves the queue of reservations.
LEMMA FromReservationsDecides ==
  ASSUME NEW D, Decides(D), NEW r
  PROVE  Decides(FromReservations(D, r))
<1> DEFINE E == FromReservations(D, r)
<1>1. /\ DOMAIN E = DOMAIN D /\ E.calls = D.calls
      /\ DOMAIN E.alg = DOMAIN D.alg /\ E.alg.queue = D.alg.queue
      /\ E.alg.reservation_queue = Dequeue(D.alg.reservation_queue, r)
      /\ E.alg.saved_recently_queued = D.alg.saved_recently_queued
      /\ E.alg.saved_reservations = D.alg.saved_reservations
      /\ E.alg.resubmitted_released = D.alg.resubmitted_released
  BY DEF AlgFields, DecisionFields, FromReservations, Decides, AlgTypes
<1>2. IsList(Dequeue(D.alg.reservation_queue, r))
  BY OnlyIsList DEF Dequeue, Decides, AlgTypes
<1> HIDE DEF E
<1>3. Decides(E)
  BY <1>1, <1>2 DEF Decides, AlgTypes
<1> QED BY <1>3 DEF E

\* A job gets its place in the schedule, and may start.
LEMMA AddOrStartDecides ==
  ASSUME NEW D, Decides(D), NEW j
  PROVE  Decides(AddOrStart(D, j))
<1> DEFINE a == add_job_first_fit(D.alg.sched, j, Machines, FALSE)
           B == [D EXCEPT !.alg.sched = a.schedule]
           X == Execute(B, j, a.used)
<1>1. AddOrStart(D, j) = IF a.inserted /\ a.started_in_first_slice
                         THEN FromQueue(X, j) ELSE B
  BY DEF AddOrStart
<1>2. Decides(B)
  BY SchedDecides
<1> HIDE DEF B
<1>3. Decides(X)
  BY <1>2, ExecuteDecides
<1> HIDE DEF X, a
<1> QED BY <1>1, <1>2, <1>3, FromQueueDecides

\* One job is placed.
LEMMA PlaceOneDecides ==
  ASSUME NEW R, Placing(R), NEW j
  PROVE  Placing(PlaceOne(R, j))
<1> DEFINE Out == IF R.again THEN [R.d EXCEPT !.alg.sched = remove_job_if_exists(@, j)]
                  ELSE R.d
           B == AddOrStart(Out, j)
           m == IF contains_job(B.alg.sched, j) /\ j \notin DOMAIN B.executed
                THEN R.n + 1 ELSE R.n
           E == [R EXCEPT !.d = B, !.n = m]
<1>1. PlaceOne(R, j) = IF R.depth # -1 /\ R.n >= R.depth THEN R ELSE E
  BY DEF PlaceOne
<1>2. Decides(Out)
  <2> DEFINE S == remove_job_if_exists(R.d.alg.sched, j)
  <2>1. Decides([R.d EXCEPT !.alg.sched = S])
    <3> HIDE DEF S
    <3> QED BY SchedDecides DEF Placing
  <2> QED BY <2>1 DEF Placing
<1>3. Decides(B)
  <2> HIDE DEF Out
  <2> QED BY <1>2, AddOrStartDecides
<1> HIDE DEF B, m
<1>4. Placing(E)
  BY <1>3 DEF Placing
<1> HIDE DEF E
<1> QED BY <1>1, <1>4

\* Jobs are placed one after the other.
LEMMA PlaceDecides ==
  ASSUME NEW D, Decides(D), NEW jobs, IsList(jobs), NEW n, NEW depth, NEW again
  PROVE  Decides(Place(D, jobs, n, depth, again).d)
<1> DEFINE R == [d |-> D, n |-> n, depth |-> depth, again |-> again]
           T == {jobs[i] : i \in DOMAIN jobs}
<1>1. jobs \in Seq(T)
  BY DEF IsList
<1>2. Placing(R)
  BY DEF Placing
<1>3. PL!Folded(0, R, jobs) = Place(D, jobs, n, depth, again)
  BY DEF PlacePass, PL!Folded, FoldLeft, MapThenFoldSet, PL!FoldLeft, PL!MapThenFoldSet,
         PL!Max, Max, Place
<1> HIDE DEF R, T
<1>4. \A i \in 1..Len(jobs) : \A r : PlaceLoop(0, i - 1, r)
          => PlaceLoop(0, i, PlacePass(0, r, jobs[i]))
  BY PlaceOneDecides DEF PlaceLoop, PlacePass
<1>5. PlaceLoop(0, Len(jobs), PL!Folded(0, R, jobs))
  <2>1. PlaceLoop(0, 0, R)
    BY <1>2 DEF PlaceLoop
  <2> QED BY <1>1, <1>4, <2>1, PL!LoopInvariant
<1> QED BY <1>3, <1>5 DEF PlaceLoop, Placing

\* Jobs leave the schedule, where they are in it.
LEMMA RemoveIfThereDecides ==
  ASSUME NEW D, Decides(D), NEW jobs
  PROVE  Decides(RemoveIfThere(D, jobs))
<1> DEFINE S == FoldLeft(remove_job_if_exists, D.alg.sched, jobs)
<1>1. RemoveIfThere(D, jobs) = [D EXCEPT !.alg.sched = S]
  BY DEF RemoveIfThere
<1> HIDE DEF S
<1> QED BY <1>1, SchedDecides

\* Jobs leave the schedule.
LEMMA RemoveAllDecides ==
  ASSUME NEW D, Decides(D), NEW jobs
  PROVE  Decides(RemoveAll(D, jobs))
<1> DEFINE S == FoldLeft(remove_job, D.alg.sched, jobs)
<1>1. RemoveAll(D, jobs) = [D EXCEPT !.alg.sched = S]
  BY DEF RemoveAll
<1> HIDE DEF S
<1> QED BY <1>1, SchedDecides

\* All queued jobs are placed again.
LEMMA CompressDecides ==
  ASSUME NEW D, Decides(D)
  PROVE  Decides(Compress(D))
BY PlaceDecides DEF Compress, Decides, AlgTypes

\* A reservation starts.
LEMMA StartReservationDecides ==
  ASSUME NEW D, Decides(D), NEW r
  PROVE  Decides(StartReservation(D, r))
<1> DEFINE a == add_current_reservation(D.alg.sched, r, D.alg.future[r])
           B == [D EXCEPT !.alg.sched = a.schedule]
           F == FromReservations(B, r)
<1>1. StartReservation(D, r) = Execute(F, r, a.used)
  BY DEF StartReservation
<1>2. Decides(B)
  BY SchedDecides
<1> HIDE DEF B
<1>3. Decides(F)
  BY <1>2, FromReservationsDecides
<1> HIDE DEF F, a
<1> QED BY <1>1, <1>3, ExecuteDecides

\* The reservations that remove_reservations_if_ready returns are a list.
LEMMA RemovedIsList ==
  ASSUME NEW S
  PROVE  IsList(remove_reservations_if_ready(S).removed)
<1> DEFINE p == S.profile
           sl == p[2]
           waiting == {r \in DOMAIN sl.jobs \cap Reservations : r \notin DOMAIN p[1].jobs}
           removed == remove_reservations_if_ready(S).removed
<1>1. removed = << >> \/ removed = Ascending(waiting)
  BY DEF remove_reservations_if_ready
<1>2. IsList(<< >>)
  BY <<>> \in Seq({}), ListOf
<1>3. waiting \subseteq Jobs
  BY PlatformAssumption
<1> HIDE DEF waiting
<1>4. IsList(Ascending(waiting))
  BY <1>3, JobsFinite, ListedIsList DEF Ascending
<1> HIDE DEF removed
<1>5. IsList(removed)
  BY <1>1, <1>2, <1>4
<1> QED BY <1>5 DEF removed

\* The reservations whose date has come start.
LEMMA StartReservationsDecides ==
  ASSUME NEW D, Decides(D)
  PROVE  Decides(StartReservations(D))
<1> DEFINE rem == remove_reservations_if_ready(D.alg.sched)
           list == rem.removed
           B == [D EXCEPT !.alg.sched = rem.schedule]
           E == FoldLeft(StartReservation, B, list)
           F == [E EXCEPT !.alg.start_a_reservation = FALSE]
           T == {list[i] : i \in DOMAIN list}
<1>1. StartReservations(D) = IF ~D.alg.start_a_reservation THEN D
                             ELSE IF rem.ready THEN F ELSE B
  BY DEF StartReservations
<1>2. Decides(B)
  BY SchedDecides
<1>3. IsList(list)
  BY RemovedIsList
<1>4. SL!Folded(0, B, list) = E
  BY DEF StartPass, SL!Folded, FoldLeft, MapThenFoldSet, SL!FoldLeft, SL!MapThenFoldSet,
         SL!Max, Max
<1> HIDE DEF B, E, list, rem
<1>5. Decides(E)
  <2>1. list \in Seq(T)
    BY <1>3 DEF IsList
  <2> HIDE DEF T
  <2>2. DecideLoop(0, 0, B)
    BY <1>2 DEF DecideLoop
  <2>3. \A i \in 1..Len(list) : \A r : DecideLoop(0, i - 1, r)
          => DecideLoop(0, i, StartPass(0, r, list[i]))
    BY StartReservationDecides DEF DecideLoop, StartPass
  <2>4. DecideLoop(0, Len(list), SL!Folded(0, B, list))
    BY <2>1, <2>2, <2>3, SL!LoopInvariant
  <2> QED BY <2>4, <1>4 DEF DecideLoop
<1>6. Decides(F)
  <2>1. SameLists(E, F)
    BY <1>5 DEF AlgFields, DecisionFields, SameLists, Decides, AlgTypes
  <2> HIDE DEF F
  <2> QED BY <1>5, <2>1, SameListsDecide
<1> HIDE DEF F
<1> QED BY <1>1, <1>2, <1>6

\* A reservation starts, or is called for at its date.
LEMMA AnnounceDecides ==
  ASSUME NEW D, Decides(D), NEW r, NEW now, NEW machines
  PROVE  Decides(Announce(D, r, now, machines))
<1> DEFINE E == [D EXCEPT !.alg.start_a_reservation = TRUE]
<1>1. Announce(D, r, now, machines) =
        IF start[r] > clock THEN CallMeLater(D, "RESERVATION_START", r, start[r])
        ELSE IF now THEN Execute(FromReservations(D, r), r, machines) ELSE E
  BY DEF Announce
<1>2. Decides(E)
  <2>1. SameLists(D, E)
    BY DEF AlgFields, DecisionFields, SameLists, Decides, AlgTypes
  <2> HIDE DEF E
  <2> QED BY <2>1, SameListsDecide
<1> HIDE DEF E
<1>3. Decides(CallMeLater(D, "RESERVATION_START", r, start[r]))
  BY CallDecides
<1>4. Decides(Execute(FromReservations(D, r), r, machines))
  BY FromReservationsDecides, ExecuteDecides
<1> QED BY <1>1, <1>2, <1>3, <1>4

\* The jobs that are to be placed elsewhere for a reservation are jobs.
LEMMA InItsWay ==
  ASSUME NEW S, NEW r, NEW date, NEW machines
  PROVE  /\ reserve_time_slice(S, r, date, machines).kill \subseteq Jobs
         /\ reserve_time_slice(S, r, date, machines).reschedule \subseteq Jobs
BY DEF reserve_time_slice

\* A reservation is put in its place.
LEMMA PutReservationDecides ==
  ASSUME NEW D, Decides(D), NEW r, NEW res
  PROVE  Decides(PutReservation(D, r, res))
<1> DEFINE B == [D EXCEPT !.alg.sched = res.schedule, !.alg.future[r] = res.used]
           C == RemoveAll(RemoveAll(B, Sorted(res.kill)), Sorted(res.reschedule))
           again == reserve_time_slice(C.alg.sched, r, start[r], res.used)
           S == add_reservation(again.schedule, r, res.used, again.first, again.last)
<1>1. PutReservation(D, r, res) = [C EXCEPT !.alg.sched = S]
  BY DEF PutReservation
<1>2. Decides(B)
  <2>1. SameLists(D, B)
    BY DEF AlgFields, DecisionFields, SameLists, Decides, AlgTypes
  <2> HIDE DEF B
  <2> QED BY <2>1, SameListsDecide
<1> HIDE DEF B
<1>3. Decides(C)
  BY <1>2, RemoveAllDecides
<1> HIDE DEF C, S
<1> QED BY <1>1, <1>3, SchedDecides

\* A reservation waits until the jobs in its way are killed.
LEMMA KillForDecides ==
  ASSUME NEW D, Decides(D), NEW r, NEW res, res.reschedule \subseteq Jobs,
         NEW recent, IsList(recent)
  PROVE  Decides(KillFor(D, r, res, recent))
<1> DEFINE E == KillFor(D, r, res, recent)
           saved == [job |-> r, now |-> res.started_in_first_slice,
                     used |-> res.used, reschedule |-> res.reschedule]
           old == D.alg.saved_reservations
           new == Append(old, saved)
           queued == D.alg.saved_recently_queued
           queued2 == IF config.policy = "AFFECTED" THEN queued \o recent ELSE queued
<1>1. /\ DOMAIN E = DOMAIN D /\ E.calls = D.calls /\ DOMAIN E.alg = DOMAIN D.alg
      /\ E.alg.queue = D.alg.queue
      /\ E.alg.reservation_queue = D.alg.reservation_queue
      /\ E.alg.resubmitted_released = D.alg.resubmitted_released
  BY DEF AlgFields, DecisionFields, KillFor, Decides, AlgTypes
<1>2. E.alg.saved_reservations = new
  BY DEF AlgFields, DecisionFields, KillFor, Decides, AlgTypes
<1>3. E.alg.saved_recently_queued = queued2
  BY DEF AlgFields, DecisionFields, KillFor, Decides, AlgTypes
<1>4. IsList(old) /\ IsList(queued) /\ \A i \in DOMAIN old : old[i].reschedule \subseteq Jobs
  BY DEF Decides, AlgTypes
<1>5. saved.reschedule \subseteq Jobs
  OBVIOUS
<1>6. IsList(queued2)
  <2> HIDE DEF queued
  <2> QED BY <1>4, JoinedIsList
<1> HIDE DEF E, saved, old, queued, queued2
<1>7. IsList(new) /\ \A i \in DOMAIN new : new[i].reschedule \subseteq Jobs
  BY <1>4, <1>5, AppendedIsList
<1> HIDE DEF new
<1>8. Decides(E)
  BY <1>1, <1>2, <1>3, <1>6, <1>7 DEF Decides, AlgTypes
<1> QED BY <1>8 DEF E

\* The jobs that were in the way of a reservation are placed again.
LEMMA RescheduleDecides ==
  ASSUME NEW D, Decides(D), NEW r, NEW res, res.reschedule \subseteq Jobs
  PROVE  Decides(Reschedule(D, r, res))
<1> DEFINE some == config.policy = "AFFECTED"
           A == Place(D, Sorted(res.reschedule), 0, -1, FALSE).d
           Q == Place(RemoveIfThere(D, D.alg.queue), D.alg.queue, 0, -1, FALSE).d
           P == IF some THEN A ELSE Q
           N == Announce(P, r, res.started_in_first_slice, res.used)
           E == [N EXCEPT !.alg.need_to_compress = @ \/ some]
<1>1. Reschedule(D, r, res) = E
  BY DEF Reschedule
<1>2. Decides(A)
  BY JobsFinite, SortedIsList, PlaceDecides
<1>3. Decides(Q)
  <2>1. IsList(D.alg.queue)
    BY DEF Decides, AlgTypes
  <2> QED BY <2>1, RemoveIfThereDecides, PlaceDecides
<1> HIDE DEF A, Q
<1>4. Decides(N)
  BY <1>2, <1>3, AnnounceDecides
<1> HIDE DEF N
<1>5. SameLists(N, E)
  BY <1>4 DEF AlgFields, DecisionFields, SameLists, Decides, AlgTypes
<1> HIDE DEF E
<1> QED BY <1>1, <1>4, <1>5, SameListsDecide

\* One reservation is tried.
LEMMA TryReservationDecides ==
  ASSUME NEW R, Trying(R), NEW r
  PROVE  Trying(TryReservation(R, r))
<1> DEFINE res == reserve_time_slice(R.d.alg.sched, r, start[r], R.d.alg.future[r])
           P == PutReservation(R.d, r, res)
           K == KillFor(P, r, res, R.recent)
           Q == Reschedule(P, r, res)
           q == IF config.policy = "ALL" THEN << >> ELSE R.recent
           X == [R EXCEPT !.d.rejected = @ \cup {r}, !.d.alg.sched = res.schedule]
           U == [R EXCEPT !.d = K]
           V == [d |-> Q, recent |-> q]
<1>1. TryReservation(R, r) = IF res.success THEN IF res.kill # {} THEN U ELSE V ELSE X
  BY DEF TryReservation
<1>2. Decides(R.d) /\ IsList(R.recent) /\ DOMAIN R = {"d", "recent"}
  BY DEF Trying
<1>3. res.reschedule \subseteq Jobs
  BY InItsWay
<1>4. Decides(P)
  BY <1>2, PutReservationDecides
<1> HIDE DEF P
<1>5. Decides(K) /\ Decides(Q)
  <2> HIDE DEF res
  <2> QED BY <1>2, <1>3, <1>4, KillForDecides, RescheduleDecides
<1>6. IsList(q)
  BY <1>2, ListOf, <<>> \in Seq({})
<1>7. Trying(X)
  <2>1. DOMAIN X = DOMAIN R /\ X.recent = R.recent
    BY <1>2
  <2>2. SameLists(R.d, X.d)
    BY <1>2 DEF AlgFields, DecisionFields, SameLists, Decides, AlgTypes
  <2> HIDE DEF X
  <2> QED BY <1>2, <2>1, <2>2, SameListsDecide DEF Trying
<1> HIDE DEF K, Q, q, X, res
<1>8. Trying(U)
  BY <1>2, <1>5 DEF Trying
<1>9. Trying(V)
  BY <1>5, <1>6 DEF Trying
<1> HIDE DEF U, V
<1> QED BY <1>1, <1>7, <1>8, <1>9

\* The reservations of a message are tried one after the other.
LEMMA HandleReservationsDecides ==
  ASSUME NEW D, Decides(D), NEW released, IsList(released), NEW recent, IsList(recent)
  PROVE  Trying(handle_reservations(D, released, recent))
<1> DEFINE asking == {r \in ToSet(released) : D.alg.future[r] # {}}
           order == Sorted(asking) \o Sorted(ToSet(released) \ asking)
           first == [d |-> D, recent |-> recent]
           E == FoldLeft(TryReservation, first, order)
           F == [E EXCEPT !.d = StartReservations(@)]
           T == {order[i] : i \in DOMAIN order}
<1>1. handle_reservations(D, released, recent) = IF released = << >> THEN first ELSE F
  BY DEF handle_reservations
<1>2. IsList(order)
  <2>1. IsFiniteSet(ToSet(released))
    BY ListIs
  <2>2. IsFiniteSet(asking) /\ IsFiniteSet(ToSet(released) \ asking)
    BY <2>1, FS_Subset
  <2> HIDE DEF asking
  <2> QED BY <2>2, SortedIsList, JoinedIsList
<1>3. Trying(first)
  BY DEF Trying
<1> HIDE DEF order, first
<1>4. TL!Folded(0, first, order) = E
  BY DEF TryPass, TL!Folded, FoldLeft, MapThenFoldSet, TL!FoldLeft, TL!MapThenFoldSet,
         TL!Max, Max
<1> HIDE DEF E
<1>5. Trying(E)
  <2>1. order \in Seq(T)
    BY <1>2 DEF IsList
  <2> HIDE DEF T
  <2>2. TryLoop(0, 0, first)
    BY <1>3 DEF TryLoop
  <2>3. \A i \in 1..Len(order) : \A r : TryLoop(0, i - 1, r)
          => TryLoop(0, i, TryPass(0, r, order[i]))
    BY TryReservationDecides DEF TryLoop, TryPass
  <2>4. TryLoop(0, Len(order), TL!Folded(0, first, order))
    BY <2>1, <2>2, <2>3, TL!LoopInvariant
  <2> QED BY <2>4, <1>4 DEF TryLoop
<1>6. Trying(F)
  <2>1. Decides(StartReservations(E.d))
    BY <1>5, StartReservationsDecides DEF Trying
  <2>2. DOMAIN F = DOMAIN E /\ F.recent = E.recent /\ F.d = StartReservations(E.d)
    BY <1>5 DEF Trying
  <2> HIDE DEF F
  <2> QED BY <1>5, <2>1, <2>2 DEF Trying
<1> HIDE DEF F
<1> QED BY <1>1, <1>3, <1>6

\* The reservations that waited for killed jobs are announced.
LEMMA AnnounceSavedDecides ==
  ASSUME NEW D, Decides(D)
  PROVE  Decides(AnnounceSaved(D))
<1> DEFINE list == D.alg.saved_reservations
           E == FoldLeft(AnnounceOne, D, list)
           F == [E EXCEPT !.alg.saved_reservations = << >>, !.alg.killed_jobs = FALSE]
           T == {list[i] : i \in DOMAIN list}
<1>1. AnnounceSaved(D) = F
  BY DEF AnnounceSaved
<1>2. IsList(list)
  BY DEF Decides, AlgTypes
<1>3. AL!Folded(0, D, list) = E
  BY DEF AnnouncePass, AL!Folded, FoldLeft, MapThenFoldSet, AL!FoldLeft,
         AL!MapThenFoldSet, AL!Max, Max
<1> HIDE DEF E, list
<1>4. Decides(E)
  <2>1. list \in Seq(T)
    BY <1>2 DEF IsList
  <2> HIDE DEF T
  <2>2. DecideLoop(0, 0, D)
    BY DEF DecideLoop
  <2>3. \A i \in 1..Len(list) : \A r : DecideLoop(0, i - 1, r)
          => DecideLoop(0, i, AnnouncePass(0, r, list[i]))
    BY AnnounceDecides DEF DecideLoop, AnnouncePass, AnnounceOne
  <2>4. DecideLoop(0, Len(list), AL!Folded(0, D, list))
    BY <2>1, <2>2, <2>3, AL!LoopInvariant
  <2> QED BY <2>4, <1>3 DEF DecideLoop
<1>5. /\ DOMAIN F = DOMAIN E /\ F.calls = E.calls /\ DOMAIN F.alg = DOMAIN E.alg
      /\ F.alg.queue = E.alg.queue /\ F.alg.reservation_queue = E.alg.reservation_queue
      /\ F.alg.saved_recently_queued = E.alg.saved_recently_queued
      /\ F.alg.saved_reservations = << >>
      /\ F.alg.resubmitted_released = E.alg.resubmitted_released
  BY <1>4 DEF AlgFields, DecisionFields, Decides, AlgTypes
<1>6. IsList(<< >>)
  BY <<>> \in Seq({}), ListOf
<1> HIDE DEF F
<1>7. Decides(F)
  BY <1>4, <1>5, <1>6 DEF Decides, AlgTypes
<1> QED BY <1>1, <1>7

\* All queued jobs are placed after those that were killed are back.
LEMMA PlaceQueueDecides ==
  ASSUME NEW D, Decides(D)
  PROVE  Decides(PlaceQueue(D))
<1>1. IsList(D.alg.queue)
  BY DEF Decides, AlgTypes
<1> QED BY <1>1, RemoveIfThereDecides, PlaceDecides DEF PlaceQueue

\* Only the jobs that were killed or moved are placed again.
LEMMA PlaceKilledDecides ==
  ASSUME NEW D, Decides(D)
  PROVE  Decides(PlaceKilled(D))
<1> DEFINE affected == get_jobs_affected_on_machines(D.alg.sched, D.alg.recently_under_repair)
           saved == D.alg.saved_reservations
           moved == affected \cup UNION {saved[i].reschedule : i \in DOMAIN saved}
           back == Sorted(D.alg.resubmitted_released)
           C == RemoveIfThere(D, Sorted(affected))
           K == Place(C, back, Waiting(C), config.queue_depth, FALSE)
           M == Place(K.d, Sorted(moved), K.n, config.queue_depth, FALSE).d
           E == [M EXCEPT !.alg.resubmitted_released = {}, !.alg.need_to_compress = TRUE]
<1>1. PlaceKilled(D) = E
  BY DEF PlaceKilled
<1>2. IsList(back)
  BY SortedIsList DEF Decides, AlgTypes
<1>3. Decides(C)
  <2> HIDE DEF affected
  <2> QED BY RemoveIfThereDecides
<1>4. moved \subseteq Jobs
  <2>1. affected \subseteq Jobs
    BY DEF get_jobs_affected_on_machines
  <2> HIDE DEF affected
  <2>2. \A i \in DOMAIN saved : saved[i].reschedule \subseteq Jobs
    BY DEF Decides, AlgTypes
  <2> QED BY <2>1, <2>2
<1> HIDE DEF C, back, moved
<1>5. IsList(Sorted(moved))
  BY <1>4, JobsFinite, SortedIsList
<1>6. Decides(K.d)
  BY <1>2, <1>3, PlaceDecides
<1> HIDE DEF K
<1>7. Decides(M)
  BY <1>5, <1>6, PlaceDecides
<1> HIDE DEF M
<1>8. /\ DOMAIN E = DOMAIN M /\ E.calls = M.calls /\ DOMAIN E.alg = DOMAIN M.alg
      /\ E.alg.queue = M.alg.queue /\ E.alg.reservation_queue = M.alg.reservation_queue
      /\ E.alg.saved_recently_queued = M.alg.saved_recently_queued
      /\ E.alg.saved_reservations = M.alg.saved_reservations
      /\ E.alg.resubmitted_released = {}
  BY <1>7 DEF AlgFields, DecisionFields, Decides, AlgTypes
<1> HIDE DEF E
<1>9. Decides(E)
  BY <1>7, <1>8, FS_EmptySet DEF Decides, AlgTypes
<1> QED BY <1>1, <1>9

\* Killed jobs that come back are placed, once all of them are back.
LEMMA HandleKilledDecides ==
  ASSUME NEW D, Decides(D), NEW recent, IsList(recent)
  PROVE  Trying(handle_killed_jobs(D, recent))
<1> DEFINE back == {j \in ToSet(recent) : Version(j) > 0}
           rest == Only(recent, {j \in Jobs : Version(j) = 0})
           S == Check(D.alg.sched, back \subseteq D.alg.resubmitted)
           C == [D EXCEPT !.alg.sched = Check(@, back \subseteq D.alg.resubmitted),
                     !.alg.resubmitted = @ \ back,
                     !.alg.resubmitted_released = @ \cup back]
           all == config.policy = "ALL"
           W == IF all THEN PlaceQueue(C) ELSE PlaceKilled(C)
           q == IF all THEN << >> ELSE rest
           X == [d |-> D, recent |-> recent]
           Y == [d |-> C, recent |-> rest]
           Z == [d |-> AnnounceSaved(W), recent |-> q]
<1>1. handle_killed_jobs(D, recent) =
        IF ~(D.alg.killed_jobs /\ D.alg.resubmitted # {}) THEN X
        ELSE IF C.alg.resubmitted # {} THEN Y ELSE Z
  BY DEF handle_killed_jobs
<1>2. IsList(rest)
  BY OnlyIsList
<1>3. IsList(q)
  <2> HIDE DEF rest
  <2> QED BY <1>2, ListOf, <<>> \in Seq({})
<1>4. IsFiniteSet(D.alg.resubmitted_released \cup back)
  <2>1. IsFiniteSet(back)
    BY ListIs, FS_Subset
  <2> HIDE DEF back
  <2> QED BY <2>1, FS_Union DEF Decides, AlgTypes
<1> HIDE DEF rest, q, back
<1>5. Decides(C)
  <2>1. /\ DOMAIN C = DOMAIN D /\ C.calls = D.calls /\ DOMAIN C.alg = DOMAIN D.alg
        /\ C.alg.queue = D.alg.queue /\ C.alg.reservation_queue = D.alg.reservation_queue
        /\ C.alg.saved_recently_queued = D.alg.saved_recently_queued
        /\ C.alg.saved_reservations = D.alg.saved_reservations
        /\ C.alg.resubmitted_released = D.alg.resubmitted_released \cup back
    BY DEF AlgFields, DecisionFields, Decides, AlgTypes
  <2> HIDE DEF C
  <2> QED BY <1>4, <2>1 DEF Decides, AlgTypes
<1> HIDE DEF C
<1>6. Decides(AnnounceSaved(W))
  BY <1>5, PlaceQueueDecides, PlaceKilledDecides, AnnounceSavedDecides
<1> HIDE DEF W
<1>7. Trying(X) /\ Trying(Y) /\ Trying(Z)
  BY <1>2, <1>3, <1>5, <1>6 DEF Trying
<1> HIDE DEF X, Y, Z
<1> QED BY <1>1, <1>7

\* Here no machine fails.
LEMMA NoFailureDecides ==
  ASSUME NEW D, Decides(D)
  PROVE  Decides(HandleFailures(D, << >>))
<1> DEFINE E == FoldLeft(FailOn, D, << >>)
           F == [E EXCEPT !.alg.failures = 0]
<1>1. HandleFailures(D, << >>) = F
  BY DEF HandleFailures
<1>2. FL!Folded(0, D, << >>) = E
  BY DEF FailPass, FL!Folded, FoldLeft, MapThenFoldSet, FL!FoldLeft, FL!MapThenFoldSet,
         FL!Max, Max
<1>3. E = D
  <2>1. FL!Folded(0, D, << >>) = D
    BY FL!LoopOverNothing
  <2> HIDE DEF E
  <2> QED BY <1>2, <2>1
<1> HIDE DEF E
<1>4. SameLists(D, F)
  BY <1>3 DEF AlgFields, DecisionFields, SameLists, Decides, AlgTypes
<1> HIDE DEF F
<1> QED BY <1>1, <1>4, SameListsDecide

\* The message that Batsim writes.
InboxTypes == /\ DOMAIN inbox = DOMAIN NoEvents
              /\ IsList(inbox.released)

\* The events of the message are taken: the new jobs are queued.
LEMMA TakeEventsDecides ==
  ASSUME NEW D, Decides(D), InboxTypes
  PROVE  Decides(TakeEvents(D))
<1> DEFINE C == RemoveIfThere(D, Sorted(inbox.ended))
           refused == {j \in ToSet(inbox.released) \ Reservations : ~Acceptable(j)}
           E == [C EXCEPT !.alg.sched = update_first_slice(@, clock),
                          !.alg.queue = @ \o NewJobs,
                          !.alg.reservation_queue = @ \o NewReservations,
                          !.rejected = refused]
<1>1. TakeEvents(D) = E
  BY DEF TakeEvents
<1>2. Decides(C)
  BY RemoveIfThereDecides
<1>3. IsList(NewJobs) /\ IsList(NewReservations)
  BY OnlyIsList DEF InboxTypes, NewJobs, NewReservations
<1> HIDE DEF C, refused
<1>4. IsList(C.alg.queue \o NewJobs) /\ IsList(C.alg.reservation_queue \o NewReservations)
  BY <1>2, <1>3, JoinedIsList DEF Decides, AlgTypes
<1>5. /\ DOMAIN E = DOMAIN C /\ E.calls = C.calls /\ DOMAIN E.alg = DOMAIN C.alg
      /\ E.alg.queue = C.alg.queue \o NewJobs
      /\ E.alg.reservation_queue = C.alg.reservation_queue \o NewReservations
      /\ E.alg.saved_recently_queued = C.alg.saved_recently_queued
      /\ E.alg.saved_reservations = C.alg.saved_reservations
      /\ E.alg.resubmitted_released = C.alg.resubmitted_released
  BY <1>2 DEF AlgFields, DecisionFields, Decides, AlgTypes
<1> HIDE DEF E
<1>6. Decides(E)
  BY <1>2, <1>4, <1>5 DEF Decides, AlgTypes
<1> QED BY <1>1, <1>6

\* The queues are sorted, and the killed jobs are expected back.
LEMMA SortAndExpectDecides ==
  ASSUME NEW D, Decides(D)
  PROVE  Decides(SortAndExpect(D))
<1> DEFINE q == Sorted(ToSet(D.alg.queue))
           r == Sorted(ToSet(D.alg.reservation_queue))
           E == SortAndExpect(D)
<1>1. IsList(q) /\ IsList(r)
  BY ListIs, SortedIsList DEF Decides, AlgTypes
<1>2. /\ DOMAIN E = DOMAIN D /\ E.calls = D.calls /\ DOMAIN E.alg = DOMAIN D.alg
      /\ E.alg.queue = q /\ E.alg.reservation_queue = r
      /\ E.alg.saved_recently_queued = D.alg.saved_recently_queued
      /\ E.alg.saved_reservations = D.alg.saved_reservations
      /\ E.alg.resubmitted_released = D.alg.resubmitted_released
  BY DEF AlgFields, DecisionFields, Decides, AlgTypes, SortAndExpect
<1> HIDE DEF E, q, r
<1>3. Decides(E)
  BY <1>1, <1>2 DEF Decides, AlgTypes
<1> QED BY <1>3 DEF E

\* The killed jobs are registered again.
LEMMA ResubmissionDecides ==
  ASSUME NEW D, Decides(D)
  PROVE  Decides(handle_resubmission(D))
<1> DEFINE E == handle_resubmission(D)
<1>1. SameLists(D, E)
  BY DEF AlgFields, DecisionFields, SameLists, Decides, AlgTypes, handle_resubmission
<1> HIDE DEF E
<1>2. Decides(E)
  BY <1>1, SameListsDecide
<1> QED BY <1>2 DEF E

\* The new jobs are placed, and the schedule is compressed.
LEMMA HandleScheduleDecides ==
  ASSUME NEW D, Decides(D), NEW recent, IsList(recent)
  PROVE  Decides(handle_schedule(D, recent))
<1> DEFINE saved == recent = << >> /\ D.alg.saved_recently_queued # << >>
           jobs == IF saved THEN D.alg.saved_recently_queued ELSE recent
           P == Place(D, jobs, Waiting(D), config.queue_depth, FALSE).d
           Q == [P EXCEPT !.alg.saved_recently_queued = << >>]
           C == IF inbox.ended # {} \/ D.alg.killed_jobs THEN D
                ELSE IF saved THEN Q ELSE P
           X == Compress(C)
           E == [X EXCEPT !.alg.need_to_compress = FALSE]
<1>1. handle_schedule(D, recent) =
        IF (inbox.ended # {} \/ D.alg.need_to_compress) /\ ~D.alg.killed_jobs THEN E ELSE C
  BY DEF handle_schedule
<1>2. IsList(jobs)
  BY DEF Decides, AlgTypes
<1> HIDE DEF jobs
<1>3. Decides(P)
  BY <1>2, PlaceDecides
<1> HIDE DEF P
<1>4. Decides(Q)
  <2>1. /\ DOMAIN Q = DOMAIN P /\ Q.calls = P.calls /\ DOMAIN Q.alg = DOMAIN P.alg
        /\ Q.alg.queue = P.alg.queue /\ Q.alg.reservation_queue = P.alg.reservation_queue
        /\ Q.alg.saved_recently_queued = << >>
        /\ Q.alg.saved_reservations = P.alg.saved_reservations
        /\ Q.alg.resubmitted_released = P.alg.resubmitted_released
    BY <1>3 DEF AlgFields, DecisionFields, Decides, AlgTypes
  <2>2. IsList(<< >>)
    BY <<>> \in Seq({}), ListOf
  <2> HIDE DEF Q
  <2> QED BY <1>3, <2>1, <2>2 DEF Decides, AlgTypes
<1> HIDE DEF Q
<1>5. Decides(C)
  BY <1>3, <1>4
<1> HIDE DEF C
<1>6. Decides(X)
  BY <1>5, CompressDecides
<1> HIDE DEF X
<1>7. SameLists(X, E)
  BY <1>6 DEF AlgFields, DecisionFields, SameLists, Decides, AlgTypes
<1> HIDE DEF E
<1> QED BY <1>1, <1>5, <1>6, <1>7, SameListsDecide

\* The last step ends the submissions, or rejects what can never run.
LEMMA FinishDecides ==
  ASSUME NEW D, Decides(D)
  PROVE  Decides(FinishOrReject(D))
<1> DEFINE q == D.alg.queue
           out == {q[i] : i \in RejectedPositions[Len(q)]}
           last == D.alg.sched.profile[Len(D.alg.sched.profile)]
           able == \E j \in ToSet(q) : nb_requested_resources[j] <= Cardinality(last.available)
           rest == Only(q, Jobs \ out)
           E == [D EXCEPT !.finished = TRUE, !.alg.need_to_send_finished = FALSE]
           F == [D EXCEPT !.rejected = @ \cup out, !.alg.queue = rest]
<1>1. FinishOrReject(D) = IF Idle(D) /\ q = << >> THEN E
                          ELSE IF Idle(D) /\ ~able THEN F ELSE D
  BY DEF FinishOrReject
<1>2. Decides(E)
  <2>1. SameLists(D, E)
    BY DEF AlgFields, DecisionFields, SameLists, Decides, AlgTypes
  <2> HIDE DEF E
  <2> QED BY <2>1, SameListsDecide
<1>3. IsList(rest)
  BY OnlyIsList DEF Decides, AlgTypes
<1> HIDE DEF rest, out, able
<1>4. Decides(F)
  <2>1. /\ DOMAIN F = DOMAIN D /\ F.calls = D.calls /\ DOMAIN F.alg = DOMAIN D.alg
        /\ F.alg.queue = rest /\ F.alg.reservation_queue = D.alg.reservation_queue
        /\ F.alg.saved_recently_queued = D.alg.saved_recently_queued
        /\ F.alg.saved_reservations = D.alg.saved_reservations
        /\ F.alg.resubmitted_released = D.alg.resubmitted_released
    BY DEF AlgFields, DecisionFields, Decides, AlgTypes
  <2> HIDE DEF F
  <2> QED BY <1>3, <2>1 DEF Decides, AlgTypes
<1> HIDE DEF E, F
<1> QED BY <1>1, <1>2, <1>4

\* A decision of conservative_bf.cpp (make_decisions): whatever it does, the
\* scheduler's queues are lists after it, and it asks for no call that would be
\* taken for Batsim's call for the scheduler's files.
LEMMA DecisionDecides ==
  ASSUME AlgTypes(alg), InboxTypes
  PROVE  Decides(Decision(<< >>))
<1> DEFINE A == SortAndExpect(StartReservations(TakeEvents(Begin(alg))))
           K == handle_killed_jobs(A, NewJobs)
           R == handle_reservations(K.d, NewReservations, K.recent)
           S == handle_schedule(handle_resubmission(HandleFailures(R.d, << >>)), R.recent)
<1>1. Decision(<< >>) = FinishOrReject(S)
  BY DEF Decision
<1>2. IsList(NewJobs) /\ IsList(NewReservations)
  BY OnlyIsList DEF InboxTypes, NewJobs, NewReservations
<1>3. Decides(A)
  BY BeginDecides, TakeEventsDecides, StartReservationsDecides, SortAndExpectDecides
<1> HIDE DEF A
<1>4. Trying(K)
  BY <1>2, <1>3, HandleKilledDecides
<1> HIDE DEF K
<1>5. Trying(R)
  BY <1>2, <1>4, HandleReservationsDecides DEF Trying
<1> HIDE DEF R
<1>6. Decides(S)
  BY <1>5, NoFailureDecides, ResubmissionDecides, HandleScheduleDecides DEF Trying
<1> HIDE DEF S
<1> QED BY <1>1, <1>6, FinishDecides
-----------------------------------------------------------------------------
(* Both parts of the last checkpoint.                                       *)

\* Batsim's call for the scheduler's part is to come, or is to be answered.
Called == \E t \in timers : t.forWhat = "CHECKPOINT_BATSCHED"
Pending == base.need_to_checkpoint \/ Called

\* What the scheduler wrote are lists, and what Batsim wrote are jobs.
FilesTypes(f) == f # None => IsList(f.queue) /\ IsList(f.reservation_queue)
FoldersTypes ==
  /\ FilesTypes(origin.sched)
  /\ \A i \in DOMAIN folders :
       /\ FilesTypes(folders[i].sched)
       /\ folders[i].work # None /\ folders[i].work.unfinished \subseteq Jobs

\* The call is of the date of the first folder, which is the present.
CallIsPresent ==
  /\ Pending => folders # << >> /\ Date(1) = clock
  /\ base.need_to_checkpoint => inbox.other = TRUE
  /\ \A t \in timers : t.forWhat = "CHECKPOINT_BATSCHED" => t.date = clock

\* Where no call is to be answered, both parts are there.
PartsAgree ==
  ~Pending /\ notified = {} /\ folders # << >>
    => folders[1].sched # None /\ folders[1].sched.date = Date(1)

ConsistentInv == AlgTypes(alg) /\ InboxTypes /\ FoldersTypes /\ CallIsPresent /\ PartsAgree

\* The scheduler starts with empty lists.
LEMMA StartTypes == AlgTypes(on_simulation_start)
<1>1. IsList(<< >>)
  BY <<>> \in Seq({}), ListOf
<1>2. DOMAIN << >> = {}
  OBVIOUS
<1> QED BY <1>1, <1>2, FS_EmptySet DEF AlgTypes, AlgFields, on_simulation_start

\* A simulation starts with empty lists, without folders and without calls.
LEMMA ConsistentStart == RestartInit => ConsistentInv
<1>. SUFFICES ASSUME RestartInit PROVE ConsistentInv
  OBVIOUS
<1>1. AlgTypes(alg)
  BY StartTypes DEF RestartInit, Init
<1>2. InboxTypes
  BY <<>> \in Seq({}), ListOf DEF InboxTypes, RestartInit, Init, BatsimInit, NoEvents
<1>3. timers = {}
  <2>1. config \in Simulations
    BY DEF RestartInit, Init, BatsimInit
  <2>2. config.generators = {}
    BY <2>1, RestartAssumption
  <2> QED BY <2>2 DEF RestartInit, Init, BatsimInit
<1>4. FoldersTypes
  BY DEF RestartInit, FoldersTypes, FilesTypes, NoFolder
<1>5. base.need_to_checkpoint = FALSE /\ ~Pending
  BY <1>3 DEF RestartInit, NoFlags, Pending, Called
<1>6. CallIsPresent /\ PartsAgree
  BY <1>3, <1>5 DEF CallIsPresent, PartsAgree, RestartInit
<1>. QED
  BY <1>1, <1>2, <1>4, <1>6 DEF ConsistentInv

\* A step that writes nothing and leaves Batsim's call as it is.
LEMMA PartsUntouched ==
  ASSUME ConsistentInv, UNCHANGED <<alg, folders, notified, origin>>, InboxTypes',
         base'.need_to_checkpoint = base.need_to_checkpoint,
         inbox.other = TRUE => inbox'.other = TRUE,
         \A t : t.forWhat = "CHECKPOINT_BATSCHED" => (t \in timers <=> t \in timers'),
         Pending => clock' = clock
  PROVE  ConsistentInv'
<1>1. /\ Called' <=> Called
      /\ Pending' <=> Pending
  BY DEF Pending, Called
<1>2. AlgTypes(alg)' /\ FoldersTypes'
  BY DEF ConsistentInv, AlgTypes, FoldersTypes, FilesTypes
<1>3. CallIsPresent'
  <2>1. Date(1)' = Date(1)
    BY DEF Date
  <2>2. ASSUME NEW t \in timers', t.forWhat = "CHECKPOINT_BATSCHED"
        PROVE  t.date = clock'
    <3>1. t \in timers /\ Pending
      BY <2>2 DEF Pending, Called
    <3> QED BY <2>2, <3>1 DEF ConsistentInv, CallIsPresent
  <2>3. base'.need_to_checkpoint => inbox'.other = TRUE
    BY DEF ConsistentInv, CallIsPresent
  <2>4. Pending' => folders' # << >> /\ Date(1)' = clock'
    BY <1>1, <2>1 DEF ConsistentInv, CallIsPresent
  <2> QED BY <2>2, <2>3, <2>4 DEF CallIsPresent
<1>4. PartsAgree'
  BY <1>1 DEF ConsistentInv, PartsAgree, Date
<1> QED BY <1>2, <1>3, <1>4 DEF ConsistentInv

\* Batsim writes its part, and calls for the other.
LEMMA NotifyKeepsParts ==
  ASSUME CheckpointInv, ConsistentInv, handle_notify
  PROVE  ConsistentInv'
<1>1. PICK n \in notified : folders' = Rotated(WorkloadFile(n))
  BY DEF handle_notify
<1>. DEFINE w == WorkloadFile(n)
            call == CallNow("CHECKPOINT_BATSCHED")
<1>2. /\ UNCHANGED <<alg, inbox, base, origin, clock>>
      /\ timers' = timers \cup {call}
  BY DEF handle_notify, CallBack
<1>3. /\ call.forWhat = "CHECKPOINT_BATSCHED" /\ call.date = clock
  BY DEF CallNow
<1>4. Pending'
  BY <1>2, <1>3 DEF Pending, Called
<1>5. /\ w.date = clock /\ w # None /\ w.unfinished \subseteq Jobs
  <2>1. w.date = clock /\ w.unfinished = Unfinished(n) /\ DOMAIN w # {"absent"}
    BY DEF WorkloadFile
  <2>2. DOMAIN None = {"absent"}
    BY DEF None
  <2>3. Unfinished(n) \subseteq Jobs
    BY DEF Unfinished
  <2> HIDE DEF w
  <2> QED BY <2>1, <2>2, <2>3
<1>. HIDE DEF w, call
<1>6. /\ folders' # << >> /\ folders'[1].work = w /\ FilesTypes(folders'[1].sched)
      /\ \A i \in DOMAIN folders' : i # 1 => i - 1 \in DOMAIN folders
                                              /\ folders'[i] = folders[i - 1]
  <2>. DEFINE new == [work |-> w, sched |-> None]
              S == {folders[i] : i \in DOMAIN folders} \cup {new}
  <2>1. folders \in Seq(S) /\ new \in S /\ new.work = w /\ FilesTypes(new.sched)
    BY DEF CheckpointInv, CheckpointTypes, FilesTypes
  <2>2. CASE config.keep > 1
    <3>. DEFINE all == <<new>> \o folders
                k == IF Len(all) < config.keep THEN Len(all) ELSE config.keep
    <3>1. folders' = SubSeq(all, 1, k)
      BY <1>1, <2>2 DEF Rotated, w
    <3>. HIDE DEF S, new
    <3>2. <<new>> \in Seq(S)
      BY <2>1
    <3>3. /\ all \in Seq(S) /\ Len(all) = Len(folders) + 1 /\ all[1] = new
          /\ \A i \in 2..Len(all) : i - 1 \in DOMAIN folders /\ all[i] = folders[i - 1]
      BY <2>1, <3>2
    <3>4. k \in 1..Len(all)
      <4>1. Len(folders) \in Nat /\ config.keep \in Nat
        BY <2>1, ConfigTypes DEF CheckpointInv
      <4>. HIDE DEF all
      <4>. QED BY <2>2, <3>3, <4>1
    <3>. HIDE DEF all, k
    <3>5. folders' \in Seq(S) /\ Len(folders') = k /\ \A i \in 1..k : folders'[i] = all[i]
      BY <3>1, <3>3, <3>4
    <3>6. DOMAIN folders' = 1..k /\ folders' # << >> /\ folders'[1] = new
      BY <3>3, <3>4, <3>5
    <3>7. \A i \in DOMAIN folders' : i # 1 => i - 1 \in DOMAIN folders
                                               /\ folders'[i] = folders[i - 1]
      BY <3>3, <3>4, <3>5, <3>6
    <3>. QED
      BY <2>1, <3>6, <3>7
  <2>3. CASE ~(config.keep > 1) /\ folders = << >>
    <3>1. folders' = <<new>>
      BY <1>1, <2>3 DEF Rotated, w
    <3>. HIDE DEF new
    <3>2. DOMAIN folders' = {1} /\ folders'[1] = new /\ folders' # << >>
      BY <3>1
    <3>. QED
      BY <2>1, <3>2
  <2>4. CASE ~(config.keep > 1) /\ folders # << >>
    <3>. DEFINE one == [new EXCEPT !.sched = folders[1].sched]
    <3>1. folders' = <<one>>
      BY <1>1, <2>4 DEF Rotated, w
    <3>2. one.work = w /\ one.sched = folders[1].sched
      OBVIOUS
    <3>. HIDE DEF one
    <3>3. DOMAIN folders' = {1} /\ folders'[1] = one /\ folders' # << >>
      BY <3>1
    <3>4. 1 \in DOMAIN folders
      BY <2>4 DEF CheckpointInv, CheckpointTypes
    <3>5. FilesTypes(folders[1].sched)
      BY <3>4 DEF ConsistentInv, FoldersTypes
    <3>. QED
      BY <3>2, <3>3, <3>5
  <2>. QED
    BY <2>2, <2>3, <2>4
<1>7. AlgTypes(alg)' /\ InboxTypes'
  BY <1>2 DEF ConsistentInv, AlgTypes, InboxTypes
<1>8. FoldersTypes'
  <2>1. FilesTypes(origin'.sched)
    BY <1>2 DEF ConsistentInv, FoldersTypes
  <2>2. ASSUME NEW i \in DOMAIN folders'
        PROVE  /\ FilesTypes(folders'[i].sched)
               /\ folders'[i].work # None /\ folders'[i].work.unfinished \subseteq Jobs
    BY <1>5, <1>6 DEF ConsistentInv, FoldersTypes
  <2> QED BY <2>1, <2>2 DEF FoldersTypes, FilesTypes
<1>9. CallIsPresent'
  <2>1. Date(1)' = clock'
    BY <1>2, <1>5, <1>6 DEF Date
  <2>2. clock \in Nat
    BY DEF CheckpointInv, CheckpointTypes
  <2>3. \A t \in timers' : t.forWhat = "CHECKPOINT_BATSCHED" => t.date = clock'
    BY <1>2, <1>3, <2>2 DEF ConsistentInv, CallIsPresent
  <2>4. base'.need_to_checkpoint => inbox'.other = TRUE
    BY <1>2 DEF ConsistentInv, CallIsPresent
  <2> QED BY <1>6, <2>1, <2>3, <2>4 DEF CallIsPresent
<1>10. PartsAgree'
  BY <1>4 DEF PartsAgree
<1> QED BY <1>7, <1>8, <1>9, <1>10 DEF ConsistentInv

\* What Batsim makes of a decision.
LEMMA ReplyTypes ==
  ASSUME NEW D, NEW since, ReplySince(D, since)
  PROVE  InboxTypes'
<1>. DEFINE list == Ascending(D.submit \cap InStatus("none"))
<1>1. D.submit \cap InStatus("none") \subseteq Jobs
  BY DEF InStatus
<1>2. IsList(list)
  BY <1>1, JobsFinite, ListedIsList DEF Ascending
<1>3. inbox' = [NoEvents EXCEPT !.released = list]
  BY DEF ReplySince
<1>. HIDE DEF list
<1>4. DOMAIN inbox' = DOMAIN NoEvents /\ inbox'.released = list
  BY <1>3 DEF NoEvents
<1> QED BY <1>2, <1>4 DEF InboxTypes

\* The scheduler writes its part at the date of Batsim's.
LEMMA CheckpointingKeepsParts ==
  ASSUME CheckpointInv, ConsistentInv, NEW D, Decides(D), Checkpointing(D),
         NEW since, ReplySince(D, since)
  PROVE  ConsistentInv'
<1>1. /\ folders' = checkpoint_batsched /\ alg' = D.alg /\ notified = {}
      /\ UNCHANGED <<clock, origin>>
      /\ timers' = timers \cup ToSet(D.calls)
  BY DEF Checkpointing, ReplySince
<1>2. base'.need_to_checkpoint = FALSE
  <2>1. base' = [send_batsim_checkpoint_if_ready EXCEPT !.need_to_checkpoint = FALSE]
    BY DEF Checkpointing
  <2>2. "need_to_checkpoint" \in DOMAIN send_batsim_checkpoint_if_ready
    BY DEF send_batsim_checkpoint_if_ready, CheckpointInv, CheckpointTypes
  <2>. QED BY <2>1, <2>2
<1>3. \A t : t.forWhat = "CHECKPOINT_BATSCHED" => (t \in timers <=> t \in timers')
  BY <1>1 DEF Decides, ToSet
<1>4. Pending' <=> Called
  BY <1>2, <1>3 DEF Pending, Called
<1>5. CASE base.need_to_checkpoint
  <2>1. folders # << >> /\ Date(1) = clock
    BY <1>5 DEF ConsistentInv, CallIsPresent, Pending
  <2>2. /\ 1 \in DOMAIN folders
        /\ folders[1] = [work |-> folders[1].work, sched |-> folders[1].sched]
    BY <2>1 DEF CheckpointInv, CheckpointTypes
  <2>. DEFINE f == SchedulerFiles
              one == [work |-> folders[1].work, sched |-> f]
  <2>3. [folders[1] EXCEPT !.sched = f] = one
    <3>. DEFINE w == folders[1].work  c == folders[1].sched
    <3>1. [[work |-> w, sched |-> c] EXCEPT !.sched = f] = [work |-> w, sched |-> f]
      OBVIOUS
    <3>. QED BY <2>2, <3>1
  <2>4. f.date = clock /\ f # None /\ FilesTypes(f)
    <3>1. f.date = clock /\ f.queue = alg.queue /\ f.reservation_queue = alg.reservation_queue
      BY DEF SchedulerFiles
    <3>2. DOMAIN f # DOMAIN None
      BY DEF SchedulerFiles, None
    <3>3. f # None
      BY <3>2
    <3>. HIDE DEF f
    <3>. QED BY <3>1, <3>3 DEF FilesTypes, ConsistentInv, AlgTypes
  <2>. HIDE DEF f
  <2>5. folders' = [folders EXCEPT ![1] = one]
    BY <1>1, <1>5, <2>3 DEF checkpoint_batsched, f
  <2>6. one.work = folders[1].work /\ one.sched = f
    OBVIOUS
  <2>. HIDE DEF one
  <2>7. /\ DOMAIN folders' = DOMAIN folders /\ folders'[1] = one
        /\ \A i \in DOMAIN folders : i # 1 => folders'[i] = folders[i]
    BY <2>2, <2>5
  <2>8. folders' # << >>
    BY <2>2, <2>7
  <2>9. FoldersTypes'
    <3>1. FilesTypes(origin'.sched)
      BY <1>1 DEF ConsistentInv, FoldersTypes
    <3>2. ASSUME NEW i \in DOMAIN folders'
          PROVE  /\ FilesTypes(folders'[i].sched)
                 /\ folders'[i].work # None /\ folders'[i].work.unfinished \subseteq Jobs
      BY <2>2, <2>4, <2>6, <2>7 DEF ConsistentInv, FoldersTypes
    <3> QED BY <3>1, <3>2 DEF FoldersTypes, FilesTypes
  <2>10. Date(1)' = clock' /\ Date(1)' = Date(1)
    BY <1>1, <2>1, <2>6, <2>7 DEF Date
  <2>11. CallIsPresent'
    BY <1>1, <1>2, <1>3, <1>4, <2>8, <2>10 DEF ConsistentInv, CallIsPresent
  <2>12. PartsAgree'
    BY <1>1, <2>4, <2>6, <2>7, <2>10 DEF PartsAgree
  <2>13. AlgTypes(alg)' /\ InboxTypes'
    BY <1>1, ReplyTypes DEF Decides, AlgTypes
  <2>. QED BY <2>9, <2>11, <2>12, <2>13 DEF ConsistentInv
<1>6. CASE ~base.need_to_checkpoint
  <2>1. folders' = folders
    BY <1>1, <1>6 DEF checkpoint_batsched
  <2>2. Pending' <=> Pending
    BY <1>4, <1>6 DEF Pending
  <2>3. FoldersTypes'
    BY <1>1, <2>1 DEF ConsistentInv, FoldersTypes, FilesTypes
  <2>4. CallIsPresent'
    BY <1>1, <1>2, <1>3, <2>1, <2>2 DEF ConsistentInv, CallIsPresent, Date
  <2>5. PartsAgree'
    BY <1>1, <2>1, <2>2 DEF ConsistentInv, PartsAgree, Date
  <2>6. AlgTypes(alg)' /\ InboxTypes'
    BY <1>1, ReplyTypes DEF Decides, AlgTypes
  <2>. QED BY <2>3, <2>4, <2>5, <2>6 DEF ConsistentInv
<1> QED BY <1>5, <1>6

\* The first jobs of a restarted simulation bring the saved lists back.
LEMMA RecoveryDecides ==
  ASSUME ConsistentInv
  PROVE  Decides(on_first_jobs_submitted)
<1>. DEFINE f == origin.sched
            A == Begin(alg)
            X == [A EXCEPT !.alg.sched = Fail(@)]
            a == on_ingest_variables(IngestBase(alg, f), f)
            D == Begin(a)
            S == ingest_schedule(f, ToSet(inbox.released))
            rejected == {j \in ToSet(inbox.released) \ Reservations : ~Acceptable(j)}
            call == CallNow("RECOVER_FROM_CHECKPOINT")
            E == [D EXCEPT !.alg.sched = S, !.alg.queue = SavedQueue(f),
                    !.alg.reservation_queue = f.reservation_queue,
                    !.executed = Resumed(S),
                    !.rejected = rejected,
                    !.calls = <<call>>]
<1>1. on_first_jobs_submitted = IF f = None THEN X ELSE E
  BY DEF on_first_jobs_submitted
<1>2. Decides(A)
  BY BeginDecides DEF ConsistentInv
<1>. HIDE DEF A
<1>3. Decides(X)
  <2>1. SameLists(A, X)
    BY <1>2 DEF AlgFields, DecisionFields, SameLists, Decides, AlgTypes
  <2>. HIDE DEF X
  <2>. QED BY <1>2, <2>1, SameListsDecide
<1>4. AlgTypes(a)
  <2>1. /\ DOMAIN a = DOMAIN alg /\ a.queue = alg.queue
        /\ a.reservation_queue = alg.reservation_queue
        /\ a.saved_recently_queued = alg.saved_recently_queued
        /\ a.resubmitted_released = alg.resubmitted_released
    BY DEF AlgFields, DecisionFields, ConsistentInv, AlgTypes, on_ingest_variables, IngestBase
  <2>2. a.saved_reservations = alg.saved_reservations
    BY DEF AlgFields, DecisionFields, ConsistentInv, AlgTypes, on_ingest_variables, IngestBase
  <2>. HIDE DEF a
  <2>. QED BY <2>1, <2>2 DEF ConsistentInv, AlgTypes
<1>. HIDE DEF a
<1>5. Decides(D)
  BY <1>4, BeginDecides
<1>. HIDE DEF D, S, X, rejected
<1>6. ASSUME f # None PROVE Decides(E)
  <2>1. IsList(f.queue) /\ IsList(f.reservation_queue)
    BY <1>6 DEF ConsistentInv, FoldersTypes, FilesTypes
  <2>2. call.forWhat # "CHECKPOINT_BATSCHED"
    BY DEF CallNow
  <2>. HIDE DEF f, call
  <2>3. /\ DOMAIN E = DOMAIN D /\ E.calls = <<call>> /\ DOMAIN E.alg = DOMAIN D.alg
        /\ E.alg.queue = f.queue /\ E.alg.reservation_queue = f.reservation_queue
        /\ E.alg.saved_recently_queued = D.alg.saved_recently_queued
        /\ E.alg.saved_reservations = D.alg.saved_reservations
        /\ E.alg.resubmitted_released = D.alg.resubmitted_released
    BY <1>5 DEF AlgFields, DecisionFields, Decides, AlgTypes, SavedQueue
  <2>4. <<call>> \in Seq({call})
    OBVIOUS
  <2>5. IsList(<<call>>)
    BY <2>4, ListOf
  <2>6. \A i \in DOMAIN <<call>> : <<call>>[i] = call
    OBVIOUS
  <2>. HIDE DEF E
  <2>. QED BY <1>5, <2>1, <2>2, <2>3, <2>5, <2>6 DEF Decides, AlgTypes
<1>. HIDE DEF E
<1>. QED
  BY <1>1, <1>3, <1>6

\* A decision, whether it is the first after a restart or not.
LEMMA DecisionKeepsParts ==
  ASSUME CheckpointInv, ConsistentInv, DecideOrRecover
  PROVE  ConsistentInv'
<1>1. \/ Checkpointing(on_first_jobs_submitted)
           /\ ReplySince(on_first_jobs_submitted, Since)
      \/ Checkpointing(Decision(<< >>))
           /\ ReplySince(Decision(<< >>), [j \in Jobs |-> clock])
  BY DEF DecideOrRecover, Reply
<1>2. Decides(on_first_jobs_submitted) /\ Decides(Decision(<< >>))
  BY RecoveryDecides, DecisionDecides DEF ConsistentInv
<1>. QED
  BY <1>1, <1>2, CheckpointingKeepsParts

\* A restart begins without folders and without calls.
LEMMA RestartKeepsParts ==
  ASSUME CheckpointInv, ConsistentInv, NEW n \in DOMAIN folders, Restart(n)
  PROVE  ConsistentInv'
<1>. DEFINE w == folders[n].work
            list == Ascending(SubmittedFirst(w))
<1>1. /\ alg' = [on_simulation_start EXCEPT !.future = [r \in Reservations |-> {}]]
      /\ base' = NoFlags /\ origin' = folders[n] /\ folders' = << >> /\ timers' = {}
      /\ inbox' = [NoEvents EXCEPT !.released = list]
  BY DEF Restart, on_start_from_checkpoint, StartFrom
<1>2. AlgTypes(alg)'
  <2>1. /\ DOMAIN alg' = DOMAIN on_simulation_start
        /\ alg'.queue = on_simulation_start.queue
        /\ alg'.reservation_queue = on_simulation_start.reservation_queue
        /\ alg'.saved_recently_queued = on_simulation_start.saved_recently_queued
        /\ alg'.saved_reservations = on_simulation_start.saved_reservations
        /\ alg'.resubmitted_released = on_simulation_start.resubmitted_released
    BY <1>1 DEF on_simulation_start
  <2>2. AlgFields' = AlgFields
    BY DEF AlgFields, DecisionFields, on_simulation_start
  <2>. QED BY <2>1, <2>2, StartTypes DEF AlgTypes
<1>3. IsList(list)
  <2>1. SubmittedFirst(w) \subseteq Jobs
    BY DEF SubmittedFirst, ConsistentInv, FoldersTypes
  <2>. QED BY <2>1, JobsFinite, ListedIsList DEF Ascending
<1>. HIDE DEF list
<1>4. DOMAIN inbox' = DOMAIN NoEvents /\ inbox'.released = list
  BY <1>1 DEF NoEvents
<1>5. InboxTypes'
  BY <1>3, <1>4 DEF InboxTypes
<1>6. FoldersTypes'
  BY <1>1 DEF ConsistentInv, FoldersTypes, FilesTypes
<1>7. base'.need_to_checkpoint = FALSE /\ ~Pending'
  BY <1>1 DEF NoFlags, Pending, Called
<1>8. CallIsPresent' /\ PartsAgree'
  BY <1>1, <1>7 DEF CallIsPresent, PartsAgree
<1>. QED
  BY <1>2, <1>5, <1>6, <1>8 DEF ConsistentInv

\* A timer rings: only a call for the scheduler's part raises the flag.
LEMMA RingKeepsParts ==
  ASSUME CheckpointInv, ConsistentInv, NEW t \in timers, Ring(t, {}),
         UNCHANGED <<folders, notified, origin>>, AlgTypes(alg'),
         base'.need_to_checkpoint
           = (base.need_to_checkpoint \/ t.forWhat = "CHECKPOINT_BATSCHED")
  PROVE  ConsistentInv'
<1>1. /\ timers' = timers \ {t} /\ inbox' = [inbox EXCEPT !.other = TRUE] /\ clock' = clock
  BY DEF Ring
<1>2. InboxTypes' /\ inbox'.other = TRUE
  <2>1. "other" \in DOMAIN inbox /\ DOMAIN inbox' = DOMAIN inbox
        /\ inbox'.released = inbox.released
    BY <1>1 DEF ConsistentInv, InboxTypes, NoEvents
  <2>. QED BY <1>1, <2>1 DEF ConsistentInv, InboxTypes
<1>3. Pending' <=> Pending
  <2>1. CASE t.forWhat = "CHECKPOINT_BATSCHED"
    <3>1. base'.need_to_checkpoint
      BY <2>1
    <3>. QED BY <2>1, <3>1 DEF Pending, Called
  <2>2. CASE t.forWhat # "CHECKPOINT_BATSCHED"
    <3>1. base'.need_to_checkpoint <=> base.need_to_checkpoint
      BY <2>2
    <3>2. Called' <=> Called
      BY <1>1, <2>2 DEF Called
    <3>. QED BY <3>1, <3>2 DEF Pending
  <2>. QED BY <2>1, <2>2
<1>4. FoldersTypes'
  BY DEF ConsistentInv, FoldersTypes, FilesTypes
<1>5. CallIsPresent'
  BY <1>1, <1>2, <1>3 DEF ConsistentInv, CallIsPresent, Date
<1>6. PartsAgree'
  BY <1>3 DEF ConsistentInv, PartsAgree, Date
<1>7. AlgTypes(alg)'
  BY DEF AlgTypes
<1>. QED
  BY <1>2, <1>4, <1>5, <1>6, <1>7 DEF ConsistentInv

\* Batsim's other events: no time passes while its call is to be answered.
LEMMA BatsimKeepsParts ==
  ASSUME CheckpointInv, ConsistentInv, BatsimNext, UNCHANGED <<alg, checkpointing>>
  PROVE  ConsistentInv'
<1>. USE DEF checkpointing
<1>1. /\ timers' = timers
      /\ inbox.other = TRUE => inbox'.other = TRUE
      /\ InboxTypes'
  <2>0. /\ DOMAIN inbox = {"released", "ended", "killed", "other"} /\ IsList(inbox.released)
    BY DEF ConsistentInv, InboxTypes, NoEvents
  <2>1. CASE NoMoreStatic
    BY <2>0, <2>1 DEF NoMoreStatic, InboxTypes, NoEvents
  <2>2. ASSUME NEW j \in Jobs, Submit(j)
        PROVE  /\ timers' = timers
               /\ inbox.other = TRUE => inbox'.other = TRUE
               /\ InboxTypes'
    <3>1. /\ DOMAIN inbox' = DOMAIN inbox /\ inbox'.other = inbox.other
          /\ inbox'.released = Append(inbox.released, j)
      BY <2>0, <2>2 DEF Submit
    <3>2. IsList(inbox'.released)
      BY <2>0, <3>1, AppendedIsList
    <3>. QED BY <2>0, <2>2, <3>1, <3>2 DEF Submit, InboxTypes, NoEvents
  <2>3. ASSUME NEW j \in Jobs, End(j)
        PROVE  /\ timers' = timers
               /\ inbox.other = TRUE => inbox'.other = TRUE
               /\ InboxTypes'
    BY <2>0, <2>3 DEF End, InboxTypes, NoEvents
  <2>4. ASSUME NEW k \in killing, KillDone(k)
        PROVE  /\ timers' = timers
               /\ inbox.other = TRUE => inbox'.other = TRUE
               /\ InboxTypes'
    BY <2>0, <2>4 DEF KillDone, InboxTypes, NoEvents
  <2>5. CASE Tick
    BY <2>0, <2>5 DEF Tick, InboxTypes, NoEvents
  <2>. QED BY <2>1, <2>2, <2>3, <2>4, <2>5 DEF BatsimNext
<1>2. Pending => clock' = clock
  <2>1. CASE Tick
    <3>1. Delivered /\ \A t \in timers : t.date > clock
      BY <2>1 DEF Tick
    <3>2. inbox.other = FALSE
      BY <3>1 DEF Delivered, NoEvents
    <3>3. ~base.need_to_checkpoint
      BY <3>2 DEF ConsistentInv, CallIsPresent
    <3>4. ASSUME NEW t \in timers, t.forWhat = "CHECKPOINT_BATSCHED"
          PROVE  FALSE
      <4>1. clock \in Nat /\ t.date = clock /\ t.date > clock
        BY <3>1, <3>4 DEF ConsistentInv, CallIsPresent, CheckpointInv, CheckpointTypes
      <4>. QED BY <4>1
    <3>. QED BY <3>3, <3>4 DEF Pending, Called
  <2>2. CASE ~Tick
    BY <2>2 DEF BatsimNext, NoMoreStatic, Submit, End, KillDone
  <2>. QED BY <2>1, <2>2
<1>. QED
  BY <1>1, <1>2, PartsUntouched

\* No step of both programs parts the halves of the last checkpoint.
LEMMA ConsistentStep ==
  ASSUME CheckpointInv, ConsistentInv, [RestartNext]_allvars
  PROVE  ConsistentInv'
<1>1. CASE DecideOrRecover
  BY <1>1, DecisionKeepsParts
<1>2. CASE handle_notify
  BY <1>2, NotifyKeepsParts
<1>3. CASE on_signal_checkpoint
  <2>1. base'.need_to_checkpoint = base.need_to_checkpoint
    BY <1>3 DEF on_signal_checkpoint, CheckpointInv, CheckpointTypes
  <2>2. UNCHANGED <<vars, folders, notified, origin>>
    BY <1>3 DEF on_signal_checkpoint
  <2>3. InboxTypes'
    BY <2>2 DEF vars, ConsistentInv, InboxTypes
  <2>. QED
    BY <2>1, <2>2, <2>3, PartsUntouched DEF vars, batsim
<1>4. ASSUME NEW n \in DOMAIN folders, Restart(n)
      PROVE  ConsistentInv'
  BY <1>4, RestartKeepsParts
<1>5. ASSUME NEW t \in timers, CheckpointCall(t)
      PROVE  ConsistentInv'
  <2>1. /\ Ring(t, {}) /\ UNCHANGED <<alg, folders, notified, origin>>
        /\ base' = [base EXCEPT !.need_to_checkpoint = @ \/ t.forWhat = "CHECKPOINT_BATSCHED"]
    BY <1>5 DEF CheckpointCall
  <2>2. base'.need_to_checkpoint
          = (base.need_to_checkpoint \/ t.forWhat = "CHECKPOINT_BATSCHED")
    BY <2>1 DEF CheckpointInv, CheckpointTypes
  <2>3. AlgTypes(alg')
    BY <2>1 DEF ConsistentInv
  <2>. QED
    BY <2>1, <2>2, <2>3, RingKeepsParts
<1>6. ASSUME NEW t \in timers, ReservationStart(t), UNCHANGED checkpointing
      PROVE  ConsistentInv'
  <2>1. /\ Ring(t, {}) /\ UNCHANGED <<folders, notified, origin, base>>
        /\ t.forWhat = "RESERVATION_START"
        /\ alg' = [alg EXCEPT !.start_a_reservation = TRUE]
    BY <1>6 DEF ReservationStart, checkpointing
  <2>2. base'.need_to_checkpoint
          = (base.need_to_checkpoint \/ t.forWhat = "CHECKPOINT_BATSCHED")
    <3>1. base'.need_to_checkpoint = base.need_to_checkpoint
          /\ base.need_to_checkpoint \in BOOLEAN
      BY <2>1 DEF CheckpointInv, CheckpointTypes
    <3>2. (t.forWhat = "CHECKPOINT_BATSCHED") = FALSE
      BY <2>1
    <3>. QED BY <3>1, <3>2
  <2>3. AlgTypes(alg')
    <3>1. AlgTypes(alg)
      BY DEF ConsistentInv
    <3>2. /\ DOMAIN alg' = DOMAIN alg /\ alg'.queue = alg.queue
          /\ alg'.reservation_queue = alg.reservation_queue
          /\ alg'.saved_recently_queued = alg.saved_recently_queued
          /\ alg'.saved_reservations = alg.saved_reservations
          /\ alg'.resubmitted_released = alg.resubmitted_released
      BY <2>1, <3>1 DEF AlgFields, DecisionFields, AlgTypes
    <3>. QED BY <3>1, <3>2 DEF AlgTypes
  <2>. QED
    BY <2>1, <2>2, <2>3, RingKeepsParts
<1>7. CASE BatsimNext /\ UNCHANGED <<alg, checkpointing>>
  BY <1>7, BatsimKeepsParts
<1>8. CASE UNCHANGED allvars
  <2>1. InboxTypes'
    BY <1>8 DEF allvars, vars, ConsistentInv, InboxTypes
  <2>. QED
    BY <1>8, <2>1, PartsUntouched DEF allvars, vars, checkpointing, batsim
<1>. QED
  BY <1>1, <1>2, <1>3, <1>4, <1>5, <1>6, <1>7, <1>8 DEF RestartNext

\* However often the simulation is lost, and whatever the scheduler decides: time
\* does not pass between Batsim's part of a checkpoint and the scheduler's.
THEOREM PartsStayTogether == RestartSpec => [](CheckpointInv /\ ConsistentInv)
<1>1. RestartInit => CheckpointInv /\ ConsistentInv
  BY CheckpointStart, ConsistentStart
<1>2. CheckpointInv /\ ConsistentInv /\ [RestartNext]_allvars
        => (CheckpointInv /\ ConsistentInv)'
  BY CheckpointStep, ConsistentStep
<1>. QED
  BY <1>1, <1>2, PTL DEF RestartSpec

\* Once the scheduler has answered Batsim's call (protocol.cpp, workload.cpp), both
\* parts of checkpoint_latest are there and of the same date (isalgorithm.cpp).
THEOREM TheLatestIsConsistent == RestartSpec => []LatestIsConsistent
<1>1. CheckpointInv /\ ConsistentInv => LatestIsConsistent
  <2>. SUFFICES ASSUME CheckpointInv, ConsistentInv, ~Pending, notified = {},
                       folders # << >>
                PROVE  /\ folders[1].work # None /\ folders[1].sched # None
                       /\ folders[1].work.date = folders[1].sched.date
    BY DEF LatestIsConsistent, Pending, Called
  <2>1. 1 \in DOMAIN folders
    BY DEF CheckpointInv, CheckpointTypes
  <2>. QED
    BY <2>1 DEF ConsistentInv, FoldersTypes, PartsAgree, Date
<1>. QED
  BY <1>1, PartsStayTogether, PTL
=============================================================================
