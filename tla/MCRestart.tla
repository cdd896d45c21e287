------------------------------ MODULE MCRestart ------------------------------
(* Instances of Restart for TLC.                                            *)
EXTENDS Restart

MCMachines == 0..1
MCJobs == 1..5
\*   job         1  2  3  4  5
MCSize     == <<2, 1, 1, 2, 1>>
MCWalltime == <<2, 3, 1, 1, 2>>
MCSubtime  == <<0, 0, 2, 4, 0>>
\* Job 5 is a reservation.
MCReservations == {5}
MCStart  == [r \in {5} |-> 3]
MCFuture == [r \in {5} |-> {}]

Simulation(jobs, every, k, s, end) ==
  [workload |-> jobs, policy |-> "AFFECTED", queue_depth |-> -1, generators |-> {},
   repair_time |-> 0, last |-> end, interval |-> every, keep |-> k, signals |-> s]
\* One folder and several; a reservation; a signal between scheduled checkpoints.
MCSimulations ==
  {Simulation(1..4, 2, 0, 0, 9), Simulation({1, 3}, 2, 2, 1, 5),
   Simulation({1, 3, 5}, 2, 3, 0, 7)}
\* Nothing is left to run when the checkpoint is written, and a job comes later.
IdleSimulation == {Simulation({1, 4}, 2, 0, 0, 7)}
==============================================================================
