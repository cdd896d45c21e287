--------------------------- MODULE MCBatsimServer ---------------------------
(***************************************************************************)
(* Instances of BatsimServer for TLC.                                      *)
(***************************************************************************)
EXTENDS BatsimServer, TLC

CONSTANTS j1, j2, j3, j4, m1, m2, s1, w1

\* server_safety: two static jobs; j2 needs both machines, j1 only one.
TwoJobs == {j1, j2}
OneStatic == (s1 :> TwoJobs)
Independent2 == [j \in TwoJobs |-> {}]
Req2 == (j1 :> 1) @@ (j2 :> 2)

\* server_mixed: a workflow j1 -> j2 beside a static job j3 and a job j4 that
\* the scheduler registers at run time and drives itself.
FourJobs == {j1, j2, j3, j4}
StaticWorkflowAndDynamic == (s1 :> {j3}) @@ (w1 :> {j1, j2})
ChainAndOthers == (j1 :> {}) @@ (j2 :> {j1}) @@ (j3 :> {}) @@ (j4 :> {})
Req4 == [j \in FourJobs |-> 1]

=============================================================================
