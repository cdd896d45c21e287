-------------------------- MODULE MCBatsimMachines --------------------------
(***************************************************************************)
(* Instances of BatsimMachines for TLC: three machines, two computation    *)
(* pstates and one sleep pstate.                                           *)
(***************************************************************************)
EXTENDS BatsimMachines

CONSTANTS m1, m2, m3

ThreeMachines == {m1, m2, m3}
=============================================================================
