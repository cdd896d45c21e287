----------------------------- MODULE ScheduleOps -----------------------------
(***************************************************************************)
(* The operations of batsched's class Schedule (schedule.cpp), on which    *)
(* easy_bf, easy_bf2, conservative_bf and the energy algorithms are built. *)
(*                                                                         *)
(* A schedule is the record                                                *)
(*    [profile, repair, size, nb_jobs_size, nb_reservations_size, ok]      *)
(* whose profile is the list of time slices, in time order, and whose ok   *)
(* is FALSE once an assertion of the class has failed.  Every operation is *)
(* an operator from schedules to schedules, or to a record that holds the  *)
(* new schedule and what the method returns.  The loops of the class scan  *)
(* the profile from left to right for the first slice with some property;  *)
(* here such a scan is the least index with that property.                 *)
(*                                                                         *)
(* Dates are integers, and equality stands for equality up to the          *)
(* tolerance of 1e-4 that two of the methods use.                          *)
(***************************************************************************)
EXTENDS Platform

CONSTANT Horizon      \* the end of the last slice, 1e19 in the code

ASSUME ScheduleAssumption == Horizon \in Nat

Least(S) == CHOOSE x \in S : \A y \in S : x <= y

\* Schedule(nb_machines, initial_time): a single slice, all machines free.
NewSchedule(date) ==
  [profile |-> << [begin |-> date, end |-> Horizon,
                   available |-> Machines, allocated |-> {},
                   nb_available |-> Cardinality(Machines), jobs |-> NoJobs,
                   nb_reservations |-> 0, has_reservation |-> FALSE] >>,
   repair |-> {}, size |-> 0, nb_jobs_size |-> 0, nb_reservations_size |-> 0,
   ok |-> TRUE]

Fail(S) == [S EXCEPT !.ok = FALSE]
Check(S, P) == [S EXCEPT !.ok = @ /\ P]

Occurrences(p, j) == {i \in DOMAIN p : j \in DOMAIN p[i].jobs}
contains_job(S, j) == Occurrences(S.profile, j) # {}

------------------------------------------------------------------------------
(* Slices.                                                                 *)

Splits(p, i, date) == p[i].begin < date /\ date < p[i].end

\* split_slice: the profile after it, and the index of the second slice.
split_slice(p, i, date) ==
  IF Splits(p, i, date)
  THEN SubSeq(p, 1, i - 1)
         \o << [p[i] EXCEPT !.end = date], [p[i] EXCEPT !.begin = date] >>
         \o SubSeq(p, i + 1, Len(p))
  ELSE p
SecondAfterSplit(p, i, date) == IF Splits(p, i, date) THEN i + 1 ELSE i

\* Allocate the machines ms to job j in a slice that counts n fewer of them.
Allocate(sl, j, ms, n) ==
  [sl EXCEPT !.available = @ \ ms, !.allocated = @ \cup ms,
             !.nb_available = @ - n, !.jobs = Put(@, j, ms)]

\* Mutant: only the first of the slices is updated.
AllocateIn_firstOnly(p, I, j, ms, n) ==
  [x \in DOMAIN p |-> IF x = Least(I) THEN Allocate(p[x], j, ms, n) ELSE p[x]]

AllocateIn(p, I, j, ms, n) ==
  [x \in DOMAIN p |-> IF x \in I THEN Allocate(p[x], j, ms, n) ELSE p[x]]

\* The machines that are available in every slice of I.
CommonMachines(p, I) == {m \in Machines : \A x \in I : m \in p[x].available}

\* The slices i..k span w units of time and i..k-1 do not.
Spans(p, i, k, w) ==
  /\ k \in i..Len(p) /\ p[k].end - p[i].begin >= w
  /\ k > i => p[k-1].end - p[i].begin < w

------------------------------------------------------------------------------
(* First fit.                                                              *)

\* A job without walltime lasts until the horizon.
WalltimeFrom(w, date) == IF w = NoWalltime THEN Horizon - date ELSE w

\* Mutant: one machine more than needed is asked for.
IsAnchor_strict(p, i, k, n, w, range) ==
  /\ Spans(p, i, k, WalltimeFrom(w, p[i].begin))
  /\ \A x \in i..k : p[x].nb_available > n
  /\ Cardinality(CommonMachines(p, i..k) \cap range) > n

\* An anchor: from slice i on, n machines of range are available long enough.
IsAnchor(p, i, k, n, w, range) ==
  /\ Spans(p, i, k, WalltimeFrom(w, p[i].begin))
  /\ \A x \in i..k : p[x].nb_available >= n
  /\ Cardinality(CommonMachines(p, i..k) \cap range) >= n

Anchors(p, i0, n, w, range) ==
  {i \in i0..Len(p) : \E k \in i..Len(p) : IsAnchor(p, i, k, n, w, range)}

NoAlloc(S) == [schedule |-> S, used |-> {}, begin |-> -1, end |-> -1,
               started_in_first_slice |-> FALSE, inserted |-> FALSE]

\* Job j is put into the slices i..k, on machines of range.
PutAt(S, j, i, k, range) ==
  LET p == S.profile
      n == nb_requested_resources[j]
      end == p[i].begin + WalltimeFrom(walltime[j], p[i].begin)
      On(used) ==
        [schedule |-> [S EXCEPT !.profile = AllocateIn(split_slice(p, k, end),
                                                       i..k, j, used, n),
                                !.size = @ + 1, !.nb_jobs_size = @ + 1],
         used |-> used, begin |-> p[i].begin, end |-> end,
         started_in_first_slice |-> i = 1, inserted |-> TRUE]
  IN On(LeftOf(CommonMachines(p, i..k) \cap range, n))

\* add_job_first_fit_after_time_slice, for a selector limited to range
\* (BasicResourceSelector: range = Machines).
FirstFitFrom(S, i0, j, range) ==
  LET p == S.profile
      w == walltime[j]
      n == nb_requested_resources[j]
      From(i) == PutAt(S, j, i, CHOOSE k \in i..Len(p) : IsAnchor(p, i, k, n, w, range),
                       range)
      First(anchors) == IF anchors = {} THEN NoAlloc(S) ELSE From(Least(anchors))
  IN First(Anchors(p, i0, n, w, range))

\* The assertions on an insertion; mustFit is assert_insertion_successful.
Asserted(a, P, mustFit) ==
  [a EXCEPT !.schedule = Check(@, P /\ (mustFit => a.inserted))]

add_job_first_fit(S, j, range, mustFit) ==
  Asserted(FirstFitFrom(S, 1, j, range), ~contains_job(S, j), mustFit)

\* add_job_first_fit_after_time: first fit from the slice that holds date.
add_job_first_fit_after_time(S, j, date, range, mustFit) ==
  LET p == S.profile
      After(i) == FirstFitFrom([S EXCEPT !.profile = split_slice(p, i, date)],
                               SecondAfterSplit(p, i, date), j, range)
      In(holds) == IF holds = {} THEN NoAlloc(Fail(S))
                   ELSE Asserted(After(Least(holds)), TRUE, mustFit)
  IN In({i \in DOMAIN p : p[i].begin <= date /\ date < p[i].end})

------------------------------------------------------------------------------
(* Removal.                                                                *)

\* The slices that removal drops: k goes when it and k+1 hold the same jobs.
DroppedBy(q, i, l) ==
  {k \in (i - 1)..l : /\ k \in DOMAIN q /\ k + 1 \in DOMAIN q
                      /\ DOMAIN q[k].jobs = DOMAIN q[k+1].jobs}

\* A dropped slice gives its begin to the slice that follows it.
Merge(q, dropped) ==
  LET at == Ascending(DOMAIN q \ dropped)
  IN [x \in DOMAIN at |->
        [q[at[x]] EXCEPT !.begin = q[IF x = 1 THEN 1 ELSE at[x - 1] + 1].begin]]

FreeIn_unavailable(sl, j, ms) ==
  [sl EXCEPT !.jobs = Erase(@, j), !.allocated = @ \ ms,
             !.nb_available = @ + Cardinality(ms)]

FreeIn(sl, j, ms) ==
  LET nbr == sl.nb_reservations - 1
      freed == [sl EXCEPT !.jobs = Erase(@, j), !.available = @ \cup ms,
                          !.allocated = @ \ ms,
                          !.nb_available = @ + Cardinality(ms)]
  IN IF j \notin Reservations THEN freed
     ELSE [freed EXCEPT !.nb_reservations = nbr,
                        !.has_reservation = @ /\ nbr # 0]

\* remove_job_internal, from slice i, where job j first occurs.  Its machines
\* under repair are not given back.
remove_job_internal(S, j, i) ==
  LET p == S.profile
      Free(l, ms) ==
        [x \in DOMAIN p |-> IF x \in i..l THEN FreeIn(p[x], j, ms) ELSE p[x]]
      Without(q, dropped) ==
        [S EXCEPT !.profile = Merge(q, dropped),
                  !.size = @ - 1,
                  !.nb_jobs_size = IF j \in Reservations THEN @ ELSE @ - 1,
                  !.nb_reservations_size = IF j \in Reservations THEN @ - 1 ELSE @,
                  !.ok = @ /\ \A k \in dropped : q[k].available = q[k+1].available]
      Drop(q, l) == Without(q, DroppedBy(q, i, l))
      Upto(l) == Drop(Free(l, p[i].jobs[j] \ S.repair), l)
  IN Upto(Least({x \in i..Len(p) : x = Len(p) \/ j \notin DOMAIN p[x+1].jobs}))

remove_job_if_exists(S, j) ==
  IF contains_job(S, j)
  THEN remove_job_internal(S, j, Least(Occurrences(S.profile, j))) ELSE S

remove_job(S, j) == Check(remove_job_if_exists(S, j), contains_job(S, j))

------------------------------------------------------------------------------
(* Time.                                                                   *)

\* update_first_slice: the first slice now begins at date.
update_first_slice(S, date) ==
  LET sl == S.profile[1]
  IN Check([S EXCEPT !.profile[1].begin = date],
           sl.begin <= date /\ date <= sl.end)

------------------------------------------------------------------------------
(* Machines under repair.                                                  *)

\* Machines leave a slice, or are offered again where no job holds them.
Withdraw(sl, ms) ==
  [sl EXCEPT !.available = @ \ ms, !.nb_available = @ - Cardinality(ms)]
GiveBack(sl, ms) ==
  [sl EXCEPT !.nb_available = @ + Cardinality(ms \ sl.allocated),
             !.available = @ \cup (ms \ sl.allocated)]

add_repair_machine(S, ms) ==
  [S EXCEPT !.repair = @ \cup ms,
            !.profile = [x \in DOMAIN @ |-> Withdraw(@[x], ms \ S.repair)]]

\* Mutant: a repaired machine becomes available even where a job holds it.
remove_repair_machines_held(S, ms) ==
  LET removed == S.repair \cap ms
  IN [S EXCEPT !.repair = @ \ ms,
               !.profile = [x \in DOMAIN @ |->
                  [@[x] EXCEPT !.nb_available = @ + Cardinality(removed),
                               !.available = @ \cup removed]]]

remove_repair_machines(S, ms) ==
  [S EXCEPT !.repair = @ \ ms,
            !.profile = [x \in DOMAIN @ |-> GiveBack(@[x], S.repair \cap ms)]]

RunningJobs(S) == DOMAIN S.profile[1].jobs
get_number_of_running_jobs(S) == Cardinality(RunningJobs(S))

\* Jobs of the first slice that hold one of these machines.
OnMachines(S, ms) ==
  {j \in RunningJobs(S) : S.profile[1].jobs[j] \cap ms # {}}
get_jobs_running_on_machines(S, ms) == OnMachines(S, ms) \ Reservations
get_reservations_running_on_machines(S, ms) ==
  OnMachines(S, ms) \cap Reservations

\* Jobs of later slices that hold one of them and are not running on them.
get_jobs_affected_on_machines(S, ms) ==
  {j \in Jobs \ Reservations :
     /\ j \notin get_jobs_running_on_machines(S, ms)
     /\ \E i \in 2..Len(S.profile) :
          /\ j \in DOMAIN S.profile[i].jobs
          /\ S.profile[i].jobs[j] \cap ms # {}}

------------------------------------------------------------------------------
(* Reservations: jobs with a start date, on machines that may be given.    *)

\* available_machines_during_period, whose first slice begins at begin.
MachinesDuring(p, begin, end) ==
  LET i == Least({x \in DOMAIN p : p[x].begin >= begin})
  IN CommonMachines(p, {i} \cup {x \in i..Len(p) : p[x].begin < end})

\* find_least_impactful_fit(LEAST_KILLING_LARGEST_FIRST): free machines first,
\* then machines of jobs that have not started, then the machines of as few
\* running jobs as possible, the largest jobs first.  {} when it finds none.
find_least_impactful_fit(p, i, k, n) ==
  LET amdp == MachinesDuring(p, p[i].begin, p[k].end)
      needed == n - Cardinality(amdp)
      running == {j \in DOMAIN p[i].jobs : j \in DOMAIN p[1].jobs}
      reserved == UNION {UNION {p[x].jobs[j] : j \in Reservations \cap DOMAIN p[x].jobs}
                           : x \in i..k}
      movable == ((Machines \ amdp) \ UNION {p[i].jobs[j] : j \in running})
                   \ reserved
      Before(a, b) ==
        \/ nb_requested_resources[a] > nb_requested_resources[b]
        \/ nb_requested_resources[a] = nb_requested_resources[b] /\ a <= b
      \* movable machines and those of the running jobs up to j
      Upto(j) == movable \cup
                   UNION {p[i].jobs[b] : b \in {a \in running \ Reservations : Before(a, j)}}
      enough == {j \in running : Cardinality(Upto(j)) >= needed}
  IN IF needed <= 0 THEN LeftOf(amdp, n)
     ELSE IF Cardinality(movable) >= needed THEN LeftOf(movable, needed) \cup amdp
     ELSE IF enough = {} THEN {}
     ELSE LeftOf(Upto(CHOOSE j \in enough : \A b \in enough : Before(j, b)),
                 needed) \cup amdp

\* reserve_time_slice: where reservation r, which starts at start on the
\* machines future (or on machines to be found), would go; the jobs in its way,
\* which are killed when they run and rescheduled when they do not.  The slices
\* stay split even if there is no success.
reserve_time_slice(S, r, start, future) ==
  LET p == S.profile
      suspect == p[1].begin = p[1].end
      end == start + WalltimeFrom(walltime[r], start)
      Outcome(t, i, k, used, affected) ==
        [schedule |-> [S EXCEPT !.profile = t],
         success |-> /\ used # {}
                     /\ \A j \in affected \cap DOMAIN t[1].jobs \cap Reservations :
                          suspect /\ walltime[j] = t[1].end,
         used |-> used, first |-> i, last |-> k,
         started_in_first_slice |-> i = 1,
         kill |-> (affected \cap DOMAIN t[1].jobs) \ Reservations,
         reschedule |-> affected \ DOMAIN t[1].jobs]
      On(t, i, k, used) ==
        Outcome(t, i, k, used,
                {j \in Jobs : \E x \in i..k : /\ j \in DOMAIN t[x].jobs
                                             /\ t[x].jobs[j] \cap used # {}})
      In(t, i, k) ==
        On(t, i, k, IF future # {} THEN future
                    ELSE find_least_impactful_fit(t, i, k, nb_requested_resources[r]))
      SplitEnd(q, i, k) == In(split_slice(q, k, end), i, k)
      From(q, i) == SplitEnd(q, i, Least({x \in i..Len(q) : end <= q[x].end}))
      SplitStart(i) == From(split_slice(p, i, start), SecondAfterSplit(p, i, start))
  IN SplitStart(Least({x \in DOMAIN p : /\ suspect => x > 1
                                        /\ p[x].begin = start \/ p[x].end > start}))

\* add_reservation, in the slices i..k.
add_reservation(S, r, used, i, k) ==
  [S EXCEPT !.size = @ + 1, !.nb_reservations_size = @ + 1,
            !.profile = [x \in DOMAIN @ |->
               IF x \notin i..k THEN @[x]
               ELSE [Allocate(@[x], r, used, nb_requested_resources[r]) EXCEPT
                       !.has_reservation = TRUE, !.nb_reservations = @ + 1]]]

\* remove_reservations_if_ready: the second slice begins now and holds
\* reservations that do not run yet.  When the machines of all of them are free
\* (or under repair) they leave the schedule; otherwise none does, but those
\* seen before the first that has to wait are no longer counted.
remove_reservations_if_ready(S) ==
  LET p == S.profile
      sl == p[2]
      free == p[1].available \cup S.repair
      waiting == {r \in DOMAIN sl.jobs \cap Reservations : r \notin DOMAIN p[1].jobs}
      stuck == {r \in waiting : ~(sl.jobs[r] \subseteq free)}
      counted == {r \in waiting : \A b \in stuck : r < b}
      uncount == IF Cardinality(counted) > sl.nb_reservations
                 THEN sl.nb_reservations ELSE Cardinality(counted)
      T == [S EXCEPT !.profile[2].nb_reservations = @ - uncount]
      order == Ascending(waiting)
  IN IF Len(p) < 2 \/ ~p[2].has_reservation \/ p[1].begin # p[2].begin
     THEN [schedule |-> S, ready |-> FALSE, removed |-> << >>]
     ELSE IF stuck # {} THEN [schedule |-> T, ready |-> FALSE, removed |-> << >>]
     ELSE [schedule |-> FoldLeft(remove_job_if_exists, T, order),
           ready |-> TRUE, removed |-> order]

\* The slices where add_current_reservation may put r, on the machines future.
FitsReservation(S, i, k, r) ==
  LET p == S.profile
      n == nb_requested_resources[r]
      free == p[i].available \cup S.repair
  IN /\ Spans(p, i, k, WalltimeFrom(walltime[r], p[i].begin))
     /\ Cardinality(free) >= n
     /\ \A x \in (i+1)..k : p[x].nb_available >= n
     /\ Cardinality(free \cap CommonMachines(p, (i+1)..k)) >= n

\* add_current_reservation.  Over several slices the last one is not counted as
\* holding a reservation, and nb_reservations_size is not increased.
add_current_reservation(S, r, future) ==
  LET p == S.profile
      n == nb_requested_resources[r]
      Less(sl, i, k) == IF i = k THEN n ELSE Cardinality(sl.available \cap future)
      Count(sl) == [sl EXCEPT !.nb_reservations = @ + 1,
                              !.has_reservation = @ \/ sl.nb_reservations = 0]
      Holding(sl, i, k) == Allocate(sl, r, future, Less(sl, i, k))
      Placed(q, i, k) ==
        [x \in DOMAIN q |->
           IF x \notin i..k THEN q[x]
           ELSE IF i < k /\ x = k THEN Holding(q[x], i, k)
           ELSE Count(Holding(q[x], i, k))]
      Between(i, k, end) ==
        [schedule |-> Check([S EXCEPT !.profile = Placed(split_slice(p, k, end), i, k),
                                      !.size = @ + 1],
                            Cardinality(future) = n),
         used |-> future, begin |-> p[i].begin, end |-> end,
         started_in_first_slice |-> i = 1, inserted |-> TRUE]
      From(i) == Between(i, CHOOSE k \in i..Len(p) : FitsReservation(S, i, k, r),
                         p[i].begin + WalltimeFrom(walltime[r], p[i].begin))
      First(places) ==
        IF places = {} \/ contains_job(S, r)
        THEN NoAlloc(Fail([S EXCEPT !.size = @ + 1]))
        ELSE From(Least(places))
  IN First({i \in DOMAIN p : \E k \in i..Len(p) : FitsReservation(S, i, k, r)})
==============================================================================
