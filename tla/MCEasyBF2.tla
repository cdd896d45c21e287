------------------------------ MODULE MCEasyBF2 -------------------------------
(* Instances of EasyBF2 for TLC: on three machines, a long job, a job that   *)
(* needs them all, a small job that may pass it and a job that is too large. *)
EXTENDS EasyBF2

CONSTANT NbJobs

MCMachines == 0..2
MCJobs == 1..NbJobs
\*   job              1  2  3  4
MCSize     == [j \in MCJobs |-> <<2, 3, 1, 4>>[j]]
MCWalltime == [j \in MCJobs |-> <<3, 2, 2, 1>>[j]]
MCSubtime  == [j \in MCJobs |-> <<0, 1, 1, 2>>[j]]
===============================================================================
