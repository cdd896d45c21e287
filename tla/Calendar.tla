------------------------------- MODULE Calendar -------------------------------
(***************************************************************************)
(* What a schedule promises to the algorithms that use it, without slices: *)
(* a set of allocations, each of some machines to a job from one date to   *)
(* another, no two of which overlap on a machine.  A job that is added     *)
(* starts at the earliest date at which enough machines are free for its   *)
(* whole duration.  A machine under repair is given to nobody; the jobs    *)
(* that run on it lose their allocations, those planned on it keep them.   *)
(* Module Schedule implements this specification.                          *)
(***************************************************************************)
EXTENDS Platform

CONSTANTS
  earliest,   \* the date before which a job may not start
  planned,    \* the start date of each reservation
  Forever     \* the end of time

\* What the constants are; module Schedule assumes it.
ConstantsTyped ==
  /\ Forever \in Nat
  /\ \A r \in Reservations : walltime[r] # NoWalltime
  /\ planned \in [Reservations -> Nat] /\ earliest \in [Jobs -> Nat]

VARIABLES
  alloc,    \* the allocation of each job that has one
  today,    \* the current date
  repair,   \* the machines under repair
  failed    \* has a machine ever gone under repair?

calendarVars == <<alloc, today, repair, failed>>

Allocated == DOMAIN alloc
Overlaps(a, b, e) == a.begin < e /\ b < a.end

\* The working machines that no job holds between the dates b and e.
Free(b, e) ==
  {m \in Machines \ repair : \A j \in Allocated :
                      m \in alloc[j].machines => ~Overlaps(alloc[j], b, e)}

EndOf(j, b) == IF walltime[j] = NoWalltime THEN Forever ELSE b + walltime[j]

CanStart(j, b) ==
  /\ EndOf(j, b) <= Forever
  /\ Cardinality(Free(b, EndOf(j, b))) >= nb_requested_resources[j]

With(f, j, a) == [k \in DOMAIN f \cup {j} |-> IF k = j THEN a ELSE f[k]]

CalendarInit == alloc = [j \in {} |-> 0] /\ today = 0 /\ repair = {} /\ failed = FALSE

\* The job starts at the earliest date from d on at which it can.  This is no
\* longer promised once a machine has failed: add_repair_machine counts it
\* twice in the slices that already gave it to a job.
AddFrom(j, d) ==
  /\ j \notin Allocated
  /\ \E b \in d..Forever :
       /\ CanStart(j, b)
       /\ failed \/ \A c \in d..(b - 1) : ~CanStart(j, c)
       /\ \E ms \in SUBSET Free(b, EndOf(j, b)) :
            /\ Cardinality(ms) = nb_requested_resources[j]
            /\ alloc' = With(alloc, j, [begin |-> b, end |-> EndOf(j, b),
                                        machines |-> ms])
  /\ UNCHANGED <<today, repair, failed>>

Add(j) == AddFrom(j, IF earliest[j] > today THEN earliest[j] ELSE today)

TakeOut(j) ==
  /\ j \in Allocated
  /\ alloc' = [k \in Allocated \ {j} |-> alloc[k]]
  /\ UNCHANGED <<today, repair, failed>>

\* The jobs in the way of a reservation lose their allocations, all at once.
Reserve(r) ==
  /\ r \notin Allocated
  /\ \E ms \in SUBSET Machines :
       LET e == planned[r] + walltime[r]
           inTheWay == {j \in Allocated :
                          /\ alloc[j].machines \cap ms # {}
                          /\ Overlaps(alloc[j], planned[r], e)}
       IN /\ Cardinality(ms) = nb_requested_resources[r]
          /\ \E out \in SUBSET (Allocated \ Reservations) :
               /\ inTheWay \subseteq out
               /\ alloc' = With([k \in Allocated \ out |-> alloc[k]], r,
                                [begin |-> planned[r], end |-> e, machines |-> ms])
  /\ UNCHANGED <<today, repair, failed>>

\* Time passes, but not beyond the end of an allocation.
Pass ==
  \E t \in (today + 1)..Forever :
    /\ \A j \in Allocated : t <= alloc[j].end
    /\ alloc' = [j \in Allocated |->
                   [alloc[j] EXCEPT !.begin = IF @ < t THEN t ELSE @]]
    /\ today' = t /\ UNCHANGED <<repair, failed>>

\* A job whose date has come may not have been started yet.
Down(m) ==
  /\ repair' = repair \cup {m} /\ failed' = TRUE
  /\ \E out \in SUBSET {j \in Allocated : /\ m \in alloc[j].machines
                                         /\ alloc[j].begin = today} :
       alloc' = [j \in Allocated \ out |-> alloc[j]]
  /\ UNCHANGED today

Up(m) == repair' = repair \ {m} /\ UNCHANGED <<alloc, today, failed>>

CalendarNext ==
  \/ \E j \in Jobs : Add(j) \/ TakeOut(j)
  \/ \E r \in Reservations : Reserve(r)
  \/ \E m \in Machines : Down(m) \/ Up(m)
  \/ Pass

CalendarSpec == CalendarInit /\ [][CalendarNext]_calendarVars

------------------------------------------------------------------------------
\* The reason for a schedule: two jobs that are given a common machine are
\* given it for periods that do not overlap, whatever has been added, removed,
\* reserved or repaired.
NoOverlap ==
  \A j, k \in Allocated :
    j # k /\ alloc[j].machines \cap alloc[k].machines # {}
      => ~Overlaps(alloc[j], alloc[k].begin, alloc[k].end)
==============================================================================
