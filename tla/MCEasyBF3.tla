------------------------------ MODULE MCEasyBF3 ------------------------------
(***************************************************************************)
(* Workloads for EasyBF3 on four machines.                                 *)
(***************************************************************************)
EXTENDS EasyBF3

Four == 1..4

\* Identifiers do not follow the submissions: a job may be put before the
\* head of the queue.
Numbers == <<1, 3, 2, 4>>

JobsOf(sizes, walltimes, dates) ==
    [nb_requested_resources : sizes, walltime : walltimes, submission_time : dates]

\* One job must be rejected, for its size or for want of a walltime.
FewWorkloads ==
    {w \in [Four -> JobsOf({1, 2, 3, 5}, 0..3, 0..1)] :
        /\ w[1] \in JobsOf(2..3, {2}, {0})
        /\ w[2] \in JobsOf({3}, {1, 2}, {0, 1})
        /\ w[3] \in JobsOf({1, 2}, {1, 3}, {1})
        /\ w[4] \in JobsOf({5}, {1}, {1}) \cup JobsOf({1}, {0}, {0})}
=============================================================================
