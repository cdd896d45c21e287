--------------------------- MODULE MCConservativeBF ---------------------------
(* Instances of ConservativeBF for TLC.                                     *)
EXTENDS ConservativeBF

MCMachines == 0..2
MCJobs == 1..6 \cup {11, 12, 15, 16, 21, 22}
\*   job                              1  2  3  4  5  6
MCSize     == [j \in MCJobs |-> <<2, 1, 3, 1, 2, 1>>[Base(j)]]
MCWalltime == [j \in MCJobs |-> <<3, 2, 1, 2, 2, 2>>[Base(j)]]
MCSubtime  == [j \in MCJobs |-> <<0, 1, 1, 1, 1, 1>>[Base(j)]]
\* Jobs 5 and 6 are reservations; 5 starts at once, 6 later and on machine 0.
MCReservations == {j \in MCJobs : Base(j) \in {5, 6}}
MCStart  == [r \in MCReservations |-> IF Base(r) = 5 THEN 1 ELSE 3]
MCFuture == [r \in MCReservations |-> IF Base(r) = 6 THEN {0} ELSE {}]

Simulation(jobs, p, gens, repair, end) ==
  [workload |-> jobs, policy |-> p, queue_depth |-> -1, generators |-> gens,
   repair_time |-> repair, last |-> end]
\* Ordinary jobs; reservations under both policies; failures without and with
\* a repair.
MCSimulations ==
  {Simulation(1..4, "AFFECTED", {}, 0, 9)}
    \cup {Simulation({1, 2, 5, 6}, p, {}, 0, 9) : p \in {"AFFECTED", "ALL"}}
    \cup {Simulation({1, 2}, "AFFECTED", {"SMTBF"}, t, 7) : t \in {0, 2}}
===============================================================================
