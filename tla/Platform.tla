------------------------------- MODULE Platform -------------------------------
(***************************************************************************)
(* The machines and the jobs, for the schedulers of batsched that are      *)
(* built on class Schedule or keep their own sets of machines.             *)
(***************************************************************************)
EXTENDS Integers, Sequences, FiniteSets, SequencesExt

CONSTANTS
  Machines,                 \* the identifiers of the machines, integers
  Jobs,                     \* the jobs, ordered by their identifiers
  Reservations,             \* the jobs whose purpose is "reservation"
  nb_requested_resources,   \* of each job
  walltime,                 \* of each job, or NoWalltime
  NoWalltime

ASSUME PlatformAssumption ==
  /\ IsFiniteSet(Machines) /\ Machines # {} /\ Machines \subseteq Int
  /\ IsFiniteSet(Jobs) /\ Jobs \subseteq Int /\ Reservations \subseteq Jobs
  /\ nb_requested_resources \in [Jobs -> Nat]
  /\ NoWalltime \notin Nat
  /\ walltime \in [Jobs -> (Nat \ {0}) \cup {NoWalltime}]

\* IntervalSet::left, the n smallest elements of a set of machines.
LeftOf(A, n) ==
  CHOOSE B \in SUBSET A : Cardinality(B) = n /\ \A x \in B, y \in A \ B : x < y

\* The elements of S in order: ahead gives, for each of them, those before it.
Listed(S, ahead) ==
  [i \in 1..Cardinality(S) |-> CHOOSE x \in S : Cardinality(ahead[x]) = i - 1]

\* A loop over a set of identifiers takes them in increasing order.
Ascending(S) == Listed(S, [x \in S |-> {y \in S : y < x}])

\* The entries of the list q that are in S, in their order.
Only(q, S) ==
  LET at == Ascending({i \in DOMAIN q : q[i] \in S})
  IN [x \in DOMAIN at |-> q[at[x]]]

\* Allocations: a function from the jobs that have one to machines.
NoJobs == [j \in {} |-> {}]
Put(f, j, ms) == [k \in DOMAIN f \cup {j} |-> IF k = j THEN ms ELSE f[k]]
Erase(f, j) == [k \in DOMAIN f \ {j} |-> f[k]]
===============================================================================
