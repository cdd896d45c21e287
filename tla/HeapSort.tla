------------------------------ MODULE HeapSort ------------------------------
(***************************************************************************)
(* The heap sort that easy_bf3.cpp keeps its schedule ordered with:        *)
(* sort_max_heap and max_heapify, one comparison level or swap per step.   *)
(* Positions count from 0, as in the vector.  An entry of the schedule is  *)
(* its est_finish_time and the position it had, which tells entries with   *)
(* the same time apart.                                                    *)
(***************************************************************************)
EXTENDS Integers, FiniteSets

CONSTANTS MaxSize, Times  \* bounds: the size of the schedule, the dates

ASSUME HeapAssumption == MaxSize \in Nat /\ Times \subseteq Nat

VARIABLES
    size,
    schedule,  \* _scheduled_jobs
    phase,        \* the loop of sort_max_heap that runs
    loop,      \* its index
    root,      \* the root of the max_heapify that runs, or Idle
    bound      \* the size of that heap

sortVars == <<size, schedule, phase, loop, root, bound>>

Idle == -1

Positions == 0..(size - 1)

Unsorted ==
    /\ size \in 0..MaxSize
    /\ schedule \in {[k \in Positions |-> [est_finish_time |-> f[k], id |-> k]] :
                       f \in [Positions -> Times]}
    /\ loop = size \div 2
    /\ root = Idle /\ bound = size

SortInit == Unsorted /\ phase = IF size < 2 THEN "sorted" ELSE "build"

time(k) == schedule[k].est_finish_time

\* The two entries swapped.
Swapped_Overwritten(a, b) == [schedule EXCEPT ![a] = schedule[b]]
Swapped(a, b) == [schedule EXCEPT ![a] = schedule[b], ![b] = schedule[a]]

\* The position with the latest time among r and its children in the heap.
Left(r) == 2 * r + 1
Right(r) == 2 * r + 2

Latest_PastBound(r) ==
    LET m == IF Left(r) <= bound /\ Left(r) < size /\ time(Left(r)) > time(r)
             THEN Left(r) ELSE r
    IN IF Right(r) < bound /\ time(Right(r)) > time(m) THEN Right(r) ELSE m
Latest(r) ==
    LET m == IF Left(r) < bound /\ time(Left(r)) > time(r) THEN Left(r) ELSE r
    IN IF Right(r) < bound /\ time(Right(r)) > time(m) THEN Right(r) ELSE m

\* One level of max_heapify.
max_heapify ==
    /\ root # Idle
    /\ LET max == Latest(root)
       IN \/ /\ max # root
             /\ schedule' = Swapped(root, max)
             /\ root' = max
          \/ /\ max = root
             /\ root' = Idle
             /\ UNCHANGED schedule
    /\ UNCHANGED <<size, phase, loop, bound>>

\* The loop that builds the heap.
Build ==
    /\ phase = "build" /\ root = Idle
    /\ \/ /\ loop >= 0
          /\ root' = loop
          /\ loop' = loop - 1
          /\ UNCHANGED phase
       \/ /\ loop < 0
          /\ phase' = "extract" /\ loop' = size - 1
          /\ UNCHANGED root
    /\ UNCHANGED <<size, schedule, bound>>

\* The loop that takes the latest entry out of the heap.
Extract ==
    /\ phase = "extract" /\ root = Idle
    /\ \/ /\ loop > 0
          /\ schedule' = Swapped(0, loop)
          /\ root' = 0 /\ bound' = loop
          /\ loop' = loop - 1
          /\ UNCHANGED phase
       \/ /\ loop <= 0
          /\ phase' = "sorted"
          /\ UNCHANGED <<schedule, root, bound, loop>>
    /\ UNCHANGED size

SortNext == max_heapify \/ Build \/ Extract

SortSpec == SortInit /\ [][SortNext]_sortVars
-----------------------------------------------------------------------------
\* Every index that the sort uses is in the vector.
SortTypeOK ==
    /\ size \in 0..MaxSize
    /\ schedule \in [Positions -> [est_finish_time : Times, id : Positions]]
    /\ phase \in {"build", "extract", "sorted"}
    /\ loop \in Idle..size /\ (phase # "sorted" => loop < size)
    /\ root \in Positions \cup {Idle}
    /\ bound \in 0..size

\* sort_max_heap only reorders the schedule: no running job is dropped from
\* it and none is entered twice.
EntriesKept == \A a, b \in Positions : schedule[a].id = schedule[b].id => a = b

\* check_priority_job reads the first date with enough machines off the
\* schedule: when sort_max_heap returns it is ordered by est_finish_time.
ScheduleSorted ==
    phase = "sorted" => \A a, b \in Positions : a < b => time(a) <= time(b)
=============================================================================
