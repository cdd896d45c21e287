------------------------------ MODULE MCSchedule ------------------------------
(* Instances of Schedule for TLC: a wide job, a long job, short jobs.       *)
EXTENDS Schedule

CONSTANTS NbJobs, Asked   \* the machines that reservation 5 asks for

MCMachines == 0..2
MCJobs == 1..NbJobs
\*   job              1  2  3  4  5
MCSize     == [j \in MCJobs |-> <<2, 1, 1, 2, 1>>[j]]
MCWalltime == [j \in MCJobs |-> <<2, 3, 1, 2, 2>>[j]]
MCNotBefore == [j \in MCJobs |-> IF j = 3 THEN 1 ELSE 0]
MCReservations == MCJobs \cap {4, 5}
MCStart  == [r \in MCReservations |-> IF r = 4 THEN 2 ELSE 3]
MCFuture == [r \in MCReservations |-> IF r = 4 THEN {} ELSE Asked]
==============================================================================
