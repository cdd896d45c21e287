------------------------------- MODULE MCFastBF -------------------------------
(* Instances of FastBF for TLC.                                             *)
EXTENDS FastBF

MCMachines == 0..2
MCJobs == 1..6 \cup {11, 12, 13, 21, 22, 23}
\*   job                              1  2  3  4  5  6
MCSize     == [j \in MCJobs |-> <<1, 2, 1, 3, 1, 4>>[Base(j)]]
MCWalltime == [j \in MCJobs |-> <<3, 2, 1, 2, 2, 1>>[Base(j)]]
MCSubtime  == [j \in MCJobs |-> <<0, 0, 1, 1, 1, 1>>[Base(j)]]

Simulation(v, jobs, share, held, gens, repair, end) ==
  [variant |-> v, workload |-> jobs, share_packing |-> share, holdback |-> held,
   generators |-> gens, repair_time |-> repair, last |-> end]

\* Repairs, which only fcfs_fast2 keeps apart from the free machines: one, and two
\* that may overlap.  They end with the calls 1, 2 and 4: the last is no machine.
MCRepairs ==
  {Simulation("fcfs_fast2", {1, 2, 3}, FALSE, 0, {"FIXED_FAILURE"}, 2, 6),
   Simulation("fcfs_fast2", {1, 3}, FALSE, 0, {"FIXED_FAILURE", "SMTBF"}, 2, 6)}

\* All variants without failures; failures that kill the jobs on a machine, or
\* any job; and repairs.
MCSimulations ==
  {Simulation(v, 1..6, FALSE, 0, {}, 0, 9) : v \in {"fcfs_fast", "easy_bf_fast"}}
    \cup {Simulation(v, 1..6, TRUE, 0, {}, 0, 9) : v \in {"fcfs_fast2", "easy_bf_fast2"}}
    \cup {Simulation("easy_bf_fast2_holdback", 1..6, TRUE, 1, {}, 0, 9)}
    \cup {Simulation(v, {1, 2, 3}, TRUE, 0, {g}, 0, 4) :
            v \in {"fcfs_fast2", "easy_bf_fast2"}, g \in {"SMTBF", "MTBF"}}
    \cup MCRepairs

===============================================================================
