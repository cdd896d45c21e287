----------------------------- MODULE FastBFProofs -----------------------------
(***************************************************************************)
(* On every platform, for every workload and every one of the options, the *)
(* fast algorithms keep right books of the machines and of the cores.  The *)
(* inductive invariant is FastInv.  It adds to what is wanted where each   *)
(* kind of job may be, which machines are shared, and that a job on a      *)
(* machine that has failed has a kill on its way, so that it is gone when  *)
(* the repair is done.  The end of a repair that is taken for that of      *)
(* another machine spoils the books; what is left then is the order of the *)
(* queue, and that the scheduler knows which jobs run.                     *)
(***************************************************************************)
EXTENDS FastBF, FiniteSetTheorems, NaturalsInduction, TLAPS

\* Only fcfs_fast2 keeps a machine under repair out of the free ones, and only
\* if it does not share machines: the others give it back with its jobs.
RepairsAreHandled ==
  \A s \in Simulations :
    s.repair_time > 0 /\ s.generators \cap {"SMTBF", "FIXED_FAILURE"} # {}
      => s.variant = "fcfs_fast2" /\ ~s.share_packing
-----------------------------------------------------------------------------
(* The books of a scheduler a.                                               *)

\* The jobs that share machines, those that do not, and the machines of both.
Packed(a) == {j \in DOMAIN a.allocations : SharePacked(j)}
Whole(a) == {j \in DOMAIN a.allocations : ~SharePacked(j)}
PackedOn(a, m) == {j \in Packed(a) : m \in a.allocations[j]}
WholeMachines(a) == UNION {a.allocations[j] : j \in Whole(a)}

AlgFields ==
  {"available", "nb_available", "heldback", "unavailable", "repair", "core_machines",
   "cores", "allocations", "running", "pending", "my_kill_jobs", "priority",
   "completion_time", "horizons", "recently_available", "need_to_send_finished",
   "nb_call_me_laters", "mistaken", "ok"}

\* The scheduler has its fields, and its allocations are of jobs.  Machines are
\* not shared where a repair may be taken for another one.
Fields(a) ==
  /\ DOMAIN a = AlgFields
  /\ DOMAIN a.allocations \subseteq Jobs
  /\ Fcfs => a.running = DOMAIN a.allocations
  /\ a.mistaken => ~config.share_packing

\* The allocations are of machines.
Kept(a) == Fields(a) /\ a.allocations \in [DOMAIN a.allocations -> SUBSET Machines]

\* The machines that are kept out of the free ones.
OutOfUse(a) ==
  /\ a.heldback = HeldBack
  /\ a.heldback \subseteq a.unavailable /\ a.unavailable \subseteq Machines
  /\ a.repair = a.unavailable \ a.heldback
  /\ config.variant # "fcfs_fast2" \/ config.share_packing => a.unavailable = a.heldback

\* The free machines are the other ones that no job is on.
FreeOnes(a) ==
  /\ a.available = Machines \ (a.core_machines \cup WholeMachines(a) \cup a.unavailable)
  /\ a.nb_available = Cardinality(a.available)

\* A job that does not share machines is alone on as many as it asked for.
WholeAlone(a) ==
  /\ \A j \in Whole(a) :
       /\ Cardinality(a.allocations[j]) = nb_requested_resources[j]
       /\ a.allocations[j] \cap (a.core_machines \cup a.heldback) = {}
  /\ \A j, k \in Whole(a) : j # k => a.allocations[j] \cap a.allocations[k] = {}

\* The others are on one machine each, with a core each.
CoresLeft(a) ==
  /\ a.core_machines \subseteq Machines \ a.unavailable
  /\ \A j \in Packed(a) : \E m \in a.core_machines \cup a.heldback : a.allocations[j] = {m}
  /\ \A m \in a.core_machines : PackedOn(a, m) # {}
  /\ a.cores \in [Machines -> Int]
  /\ \A m \in Machines : a.cores[m] = Cores - Cardinality(PackedOn(a, m))

Books(a) == Kept(a) /\ OutOfUse(a) /\ FreeOnes(a) /\ WholeAlone(a) /\ CoresLeft(a)

\* The books are right until a repair is taken for another one.
Sound(a) == Fields(a) /\ (~a.mistaken => Books(a))
-----------------------------------------------------------------------------
(* The invariant.                                                            *)

AllStatus == {"none", "todo", "released", "queued", "running", "done", "killed",
              "rejected"}

\* A list without repetitions.
Distinct(q) == \A i, k \in DOMAIN q : q[i] = q[k] => i = k

Messages ==
  /\ config \in Simulations /\ clock \in Nat
  /\ status \in [Jobs -> AllStatus]
  /\ DOMAIN inbox = {"released", "ended", "killed", "other"}
  /\ inbox.ended \subseteq InStatus("done") \cup InStatus("killed")
  /\ inbox.released \in Seq(Jobs) /\ Distinct(inbox.released)
  /\ \A i \in DOMAIN inbox.released : status[inbox.released[i]] = "released"

\* The scheduler has the machines of the jobs that run, and of those of which it
\* has not been told that they ended.
OnTheirMachines ==
  /\ DOMAIN alg.allocations = InStatus("running") \cup inbox.ended
  /\ \A j \in InStatus("running") : alg.allocations[j] = on[j]

\* The jobs that wait do so once.
InLine ==
  /\ alg.pending \in Seq(Jobs) /\ Distinct(alg.pending)
  /\ \A i \in DOMAIN alg.pending :
       status[alg.pending[i]] = "queued" /\ alg.pending[i] # alg.priority
  /\ alg.priority # None => alg.priority \in InStatus("queued")

RepairTimers == {t \in timers : t.forWhat = "REPAIR_DONE"}

\* The job has been, is or is going to be killed, or the scheduler will be told
\* that it ended.
Doomed(j) ==
  \/ j \in alg.my_kill_jobs /\ inbox.other = TRUE
  \/ \E k \in killing : j \in k
  \/ j \in inbox.ended

\* When a repair is done no job is on the machine.
RepairsEnd ==
  ~alg.mistaken =>
    /\ \A j \in DOMAIN alg.allocations : alg.allocations[j] \cap alg.repair # {} => Doomed(j)
    /\ \A t \in RepairTimers :
         /\ t.about \in alg.repair
         /\ t.date \in Int
         /\ t.date > clock
              \/ \A j \in DOMAIN alg.allocations : t.about \notin alg.allocations[j]
    /\ \A t, u \in RepairTimers : t.about = u.about => t = u

FastInv == Messages /\ Sound(alg) /\ OnTheirMachines /\ InLine /\ RepairsEnd
-----------------------------------------------------------------------------
(* The loops, as instances of Folding; the invariants of the loops are      *)
(* stated further below, where they are needed.                             *)

\* A loop that ends jobs: the jobs that are left to end hold what they held.
FinishPass(c, a, j) == Finish(a, j)
FinishLoop(c, i, a) ==
  /\ Sound(a) /\ a.mistaken = c.mistaken
  /\ DOMAIN a.allocations = c.jobs \ {c.ended[k] : k \in 1..i}
  /\ \A j \in DOMAIN a.allocations : a.allocations[j] = c.held[j]
  /\ a.pending = c.pending /\ a.priority = c.priority /\ a.repair = c.repair
  /\ a.my_kill_jobs \cup {c.ended[k] : k \in 1..i} = c.kills \cup {c.ended[k] : k \in 1..i}
FL == INSTANCE Folding WITH Step <- FinishPass, Inv <- FinishLoop
-----------------------------------------------------------------------------
(* Finite sets of numbers.                                                  *)

\* Sets of machines are finite sets of numbers.
LEMMA MachinesFinite ==
  ASSUME NEW A, A \subseteq Machines
  PROVE  IsFiniteSet(A) /\ Cardinality(A) \in Nat /\ A \subseteq Int
BY PlatformAssumption, FS_Subset, FS_CardinalityType

\* Sets of jobs are finite sets of numbers.
LEMMA JobsFinite ==
  ASSUME NEW A, A \subseteq Jobs
  PROVE  IsFiniteSet(A) /\ Cardinality(A) \in Nat /\ A \subseteq Int
BY PlatformAssumption, FS_Subset, FS_CardinalityType

\* Finite sets are the same in the instances of Folding.
LEMMA SameSets ==
  /\ \A S : FL!Cardinality(S) = Cardinality(S)
  /\ \A S : FL!IsFiniteSet(S) <=> IsFiniteSet(S)
<1>1. ASSUME NEW S PROVE FL!Cardinality(S) = Cardinality(S)
  BY DEF FL!Cardinality, Cardinality
<1>2. ASSUME NEW S PROVE FL!IsFiniteSet(S) <=> IsFiniteSet(S)
  BY DEF FL!IsFiniteSet, IsFiniteSet
<1> QED BY <1>1, <1>2

\* IntervalSet::left returns as many machines as it is asked for.
LEMMA LeftOfIs ==
  ASSUME NEW A \in SUBSET Int, IsFiniteSet(A), NEW n \in Nat, n <= Cardinality(A)
  PROVE  LeftOf(A, n) \subseteq A /\ Cardinality(LeftOf(A, n)) = n
<1>1. FL!IsFiniteSet(A) /\ n <= FL!Cardinality(A)
  BY SameSets
<1>2. PICK B : FL!Leftmost(A, n, B)
  BY <1>1, FL!LeftmostExist
<1>3. /\ B \in SUBSET A /\ Cardinality(B) = n
      /\ \A x \in B, y \in A \ B : x < y
  BY <1>2, SameSets DEF FL!Leftmost
<1> QED BY <1>3 DEF LeftOf

\* Each element of S is in the list q once, and nothing else is.
ListsOnce(S, q) ==
  /\ q \in Seq(S) /\ Distinct(q)
  /\ \A x \in S : \E i \in DOMAIN q : q[i] = x

\* A set of identifiers in increasing order: each of them once.
LEMMA AscendingIs ==
  ASSUME NEW S \in SUBSET Int, IsFiniteSet(S)
  PROVE  ListsOnce(S, Ascending(S))
<1> DEFINE ahead == [x \in S |-> {y \in S : y < x}]
<1>1. \A x \in S : ahead[x] \subseteq S \ {x}
  OBVIOUS
<1>2. \A x, y \in S : x \in ahead[y] => ahead[x] \subseteq ahead[y]
  <2>. SUFFICES ASSUME NEW x \in S, NEW y \in S, NEW z \in S, x < y, z < x
                PROVE  z < y
    OBVIOUS
  <2> x \in Int /\ y \in Int /\ z \in Int
    OBVIOUS
  <2> QED OBVIOUS
<1>3. \A x, y \in S : x # y => x \in ahead[y] \/ y \in ahead[x]
  OBVIOUS
<1>4. FL!Orders(S, ahead)
  BY <1>1, <1>2, <1>3 DEF FL!Orders
<1>5. FL!Lists(S, ahead, FL!Ranked(S, ahead))
  <2>1. FL!IsFiniteSet(S)
    BY SameSets
  <2> HIDE DEF ahead
  <2> QED BY <1>4, <2>1, FL!RankedIs
<1>6. Listed(S, ahead) = FL!Ranked(S, ahead)
  <2> HIDE DEF ahead
  <2> QED BY SameSets DEF Listed, FL!Ranked
<1> QED BY <1>5, <1>6 DEF Ascending, ListsOnce, Distinct, FL!Lists, FL!ListsOnce,
              FL!Distinct
-----------------------------------------------------------------------------
(* The jobs and their machines when a job gets an allocation or loses it.   *)

\* b is a with the allocation ms for job j.
HasPut(a, j, ms, b) ==
  /\ DOMAIN b.allocations = DOMAIN a.allocations \cup {j}
  /\ \A k \in DOMAIN a.allocations : b.allocations[k] = a.allocations[k]
  /\ b.allocations[j] = ms
  /\ SharePacked(j) =>
       /\ Packed(b) = Packed(a) \cup {j} /\ Whole(b) = Whole(a)
       /\ WholeMachines(b) = WholeMachines(a)
       /\ \A m : PackedOn(b, m) = IF m \in ms THEN PackedOn(a, m) \cup {j}
                                  ELSE PackedOn(a, m)
  /\ ~SharePacked(j) =>
       /\ Packed(b) = Packed(a) /\ Whole(b) = Whole(a) \cup {j}
       /\ WholeMachines(b) = WholeMachines(a) \cup ms
       /\ \A m : PackedOn(b, m) = PackedOn(a, m)

\* b is a without the allocation of job j.
HasErased(a, j, b) ==
  /\ DOMAIN b.allocations = DOMAIN a.allocations \ {j}
  /\ \A k \in DOMAIN b.allocations : b.allocations[k] = a.allocations[k]
  /\ SharePacked(j) =>
       /\ Packed(b) = Packed(a) \ {j} /\ Whole(b) = Whole(a)
       /\ WholeMachines(b) = WholeMachines(a)
       /\ \A m : PackedOn(b, m) = PackedOn(a, m) \ {j}
  /\ ~SharePacked(j) =>
       /\ Packed(b) = Packed(a) /\ Whole(b) = Whole(a) \ {j}
       /\ \A m : m \in WholeMachines(b) <=>
                   \E k \in Whole(a) \ {j} : m \in a.allocations[k]
       /\ \A m : PackedOn(b, m) = PackedOn(a, m)

\* What the cores in use become when a job is given machines.
LEMMA AfterPut ==
  ASSUME NEW a, NEW j, j \notin DOMAIN a.allocations, NEW ms, NEW b,
         b.allocations = Put(a.allocations, j, ms)
  PROVE  HasPut(a, j, ms, b)
<1> DEFINE A == a.allocations  B == b.allocations
<1>1. /\ DOMAIN B = DOMAIN A \cup {j} /\ B[j] = ms
      /\ \A k \in DOMAIN A : B[k] = A[k]
  BY DEF Put
<1> HIDE DEF A, B
<1>2. ASSUME SharePacked(j)
      PROVE  /\ Packed(b) = Packed(a) \cup {j} /\ Whole(b) = Whole(a)
             /\ WholeMachines(b) = WholeMachines(a)
             /\ \A m : PackedOn(b, m) = IF m \in ms THEN PackedOn(a, m) \cup {j}
                                        ELSE PackedOn(a, m)
  <2>1. Packed(b) = Packed(a) \cup {j} /\ Whole(b) = Whole(a)
    BY <1>1, <1>2 DEF Packed, Whole, A, B
  <2>2. \A k \in Whole(a) : b.allocations[k] = a.allocations[k]
    BY <1>1 DEF Whole, A, B
  <2>3. WholeMachines(b) = WholeMachines(a)
    BY <2>1, <2>2 DEF WholeMachines
  <2>4. ASSUME NEW m
        PROVE  PackedOn(b, m) = IF m \in ms THEN PackedOn(a, m) \cup {j} ELSE PackedOn(a, m)
    <3>1. \A k \in Packed(a) : b.allocations[k] = a.allocations[k]
      BY <1>1 DEF Packed, A, B
    <3>2. b.allocations[j] = ms
      BY <1>1 DEF B
    <3> QED BY <2>1, <3>1, <3>2 DEF PackedOn
  <2> QED BY <2>1, <2>3, <2>4
<1>3. ASSUME ~SharePacked(j)
      PROVE  /\ Packed(b) = Packed(a) /\ Whole(b) = Whole(a) \cup {j}
             /\ WholeMachines(b) = WholeMachines(a) \cup ms
             /\ \A m : PackedOn(b, m) = PackedOn(a, m)
  <2>1. Packed(b) = Packed(a) /\ Whole(b) = Whole(a) \cup {j}
    BY <1>1, <1>3 DEF Packed, Whole, A, B
  <2>2. /\ \A k \in Whole(a) : b.allocations[k] = a.allocations[k]
        /\ \A k \in Packed(a) : b.allocations[k] = a.allocations[k]
        /\ b.allocations[j] = ms
    BY <1>1 DEF Whole, Packed, A, B
  <2>3. WholeMachines(b) = WholeMachines(a) \cup ms
    BY <2>1, <2>2 DEF WholeMachines
  <2> QED BY <2>1, <2>2, <2>3 DEF PackedOn
<1> QED BY <1>1, <1>2, <1>3 DEF A, B, HasPut

\* What the cores in use become when a job loses its machines.
LEMMA AfterErase ==
  ASSUME NEW a, NEW j \in DOMAIN a.allocations, NEW b,
         b.allocations = Erase(a.allocations, j)
  PROVE  HasErased(a, j, b)
<1> DEFINE A == a.allocations  B == b.allocations
<1>1. /\ DOMAIN B = DOMAIN A \ {j}
      /\ \A k \in DOMAIN B : B[k] = A[k]
  BY DEF Erase
<1> HIDE DEF A, B
<1>2. ASSUME SharePacked(j)
      PROVE  /\ Packed(b) = Packed(a) \ {j} /\ Whole(b) = Whole(a)
             /\ WholeMachines(b) = WholeMachines(a)
             /\ \A m : PackedOn(b, m) = PackedOn(a, m) \ {j}
  <2>1. Packed(b) = Packed(a) \ {j} /\ Whole(b) = Whole(a)
    BY <1>1, <1>2 DEF Packed, Whole, A, B
  <2>2. /\ \A k \in Whole(a) : b.allocations[k] = a.allocations[k]
        /\ \A k \in Packed(b) : b.allocations[k] = a.allocations[k]
    BY <1>1, <2>1 DEF Whole, Packed, A, B
  <2>3. WholeMachines(b) = WholeMachines(a)
    BY <2>1, <2>2 DEF WholeMachines
  <2> QED BY <2>1, <2>2, <2>3 DEF PackedOn
<1>3. ASSUME ~SharePacked(j)
      PROVE  /\ Packed(b) = Packed(a) /\ Whole(b) = Whole(a) \ {j}
             /\ \A m : m \in WholeMachines(b) <=>
                         \E k \in Whole(a) \ {j} : m \in a.allocations[k]
             /\ \A m : PackedOn(b, m) = PackedOn(a, m)
  <2>1. Packed(b) = Packed(a) /\ Whole(b) = Whole(a) \ {j}
    BY <1>1, <1>3 DEF Packed, Whole, A, B
  <2>2. /\ \A k \in Whole(b) : b.allocations[k] = a.allocations[k]
        /\ \A k \in Packed(b) : b.allocations[k] = a.allocations[k]
    BY <1>1, <2>1 DEF Whole, Packed, A, B
  <2>3. \A m : m \in WholeMachines(b) <=> \E k \in Whole(a) \ {j} : m \in a.allocations[k]
    BY <2>1, <2>2 DEF WholeMachines
  <2> QED BY <2>1, <2>2, <2>3 DEF PackedOn
<1> QED BY <1>1, <1>2, <1>3 DEF A, B, HasErased
-----------------------------------------------------------------------------
(* A job is started.                                                        *)

\* One of the machines of a set that is not empty.
LEMMA LeftOne ==
  ASSUME NEW A, A \subseteq Machines, A # {}
  PROVE  \E m \in A : LeftOf(A, 1) = {m}
<1>1. IsFiniteSet(A) /\ Cardinality(A) \in Nat /\ A \in SUBSET Int
  BY MachinesFinite
<1>2. Cardinality(A) # 0
  BY <1>1, FS_EmptySet
<1>3. LeftOf(A, 1) \subseteq A /\ Cardinality(LeftOf(A, 1)) = 1
  BY <1>1, <1>2, LeftOfIs
<1>4. IsFiniteSet(LeftOf(A, 1))
  BY <1>1, <1>3, FS_Subset
<1>5. PICK m : LeftOf(A, 1) = {m}
  BY <1>3, <1>4, FS_Singleton
<1> QED BY <1>3, <1>5

\* The types of the books.
LEMMA BooksTypes ==
  ASSUME NEW a, Books(a)
  PROVE  /\ a.available \subseteq Machines /\ a.heldback \subseteq Machines
         /\ a.core_machines \subseteq Machines /\ WholeMachines(a) \subseteq Machines
         /\ a.nb_available \in Nat /\ a.unavailable \subseteq Machines
<1>1. /\ a.available \subseteq Machines /\ a.heldback \subseteq Machines
      /\ a.core_machines \subseteq Machines /\ a.unavailable \subseteq Machines
  BY DEF Books, FreeOnes, OutOfUse, CoresLeft
<1>2. WholeMachines(a) \subseteq Machines
  BY DEF Books, Kept, WholeMachines, Whole
<1>3. a.nb_available \in Nat
  BY <1>1, MachinesFinite DEF Books, FreeOnes
<1> QED BY <1>1, <1>2, <1>3

\* Where a job is started: on as many free machines as it asked for, or on a
\* core of a heldback machine, of a shared machine or of a free one.
LEMMA SpotIs ==
  ASSUME NEW a, Books(a), NEW j \in Jobs, Fits(a, j), NEW s, s = SpotFor(a, j)
  PROVE  \/ /\ ~SharePacked(j) /\ s.kind = "whole"
            /\ s.machines \subseteq a.available
            /\ Cardinality(s.machines) = nb_requested_resources[j]
         \/ SharePacked(j) /\ s.kind = "heldback" /\ \E m \in a.heldback : s.machines = {m}
         \/ SharePacked(j) /\ s.kind = "core" /\ \E m \in a.core_machines : s.machines = {m}
         \/ /\ SharePacked(j) /\ s.kind = "new_core_machine"
            /\ \E m \in a.available : s.machines = {m}
<1>0. s.kind # "none"
  BY DEF Fits
<1>1. CASE ~SharePacked(j)
  <2>1. s = WholeSpot(a, j)
    BY <1>1 DEF SpotFor
  <2>2. nb_requested_resources[j] <= a.nb_available
    BY <2>1, <1>0 DEF WholeSpot, Spot
  <2>3. s.kind = "whole" /\ s.machines = FirstOf(a.available, nb_requested_resources[j])
    BY <2>1, <2>2 DEF WholeSpot, Spot
  <2>4. /\ a.available \in SUBSET Int /\ IsFiniteSet(a.available)
        /\ nb_requested_resources[j] \in Nat
        /\ nb_requested_resources[j] <= Cardinality(a.available)
    BY <2>2, BooksTypes, MachinesFinite, PlatformAssumption DEF Books, FreeOnes
  <2> QED BY <1>1, <2>3, <2>4, LeftOfIs DEF FirstOf
<1>2. CASE SharePacked(j)
  <2>1. s = SharedSpot(a)
    BY <1>2 DEF SpotFor
  <2>2. ASSUME NEW M, M \subseteq Machines, WithFreeCore(a, M) # {}
        PROVE  \E m \in M : WithFreeCore(a, M) = {m}
    <3> DEFINE free == {m \in M : a.cores[m] >= 1}
    <3>1. WithFreeCore(a, M) = LeftOf(free, 1) /\ free # {}
      BY <2>2 DEF WithFreeCore
    <3>2. free \subseteq Machines
      BY <2>2
    <3>3. PICK m \in free : LeftOf(free, 1) = {m}
      <4> HIDE DEF free
      <4> QED BY <3>1, <3>2, LeftOne
    <3> QED BY <3>1, <3>3
  <2>3. CASE WithFreeCore(a, a.heldback) # {}
    <3>1. s = Spot("heldback", WithFreeCore(a, a.heldback))
      BY <2>1, <2>3 DEF SharedSpot
    <3> QED BY <1>2, <3>1, <2>2, <2>3, BooksTypes DEF Spot
  <2>4. CASE WithFreeCore(a, a.heldback) = {} /\ WithFreeCore(a, a.core_machines) # {}
    <3>1. s = Spot("core", WithFreeCore(a, a.core_machines))
      BY <2>1, <2>4 DEF SharedSpot
    <3> QED BY <1>2, <3>1, <2>2, <2>4, BooksTypes DEF Spot
  <2>5. CASE WithFreeCore(a, a.heldback) = {} /\ WithFreeCore(a, a.core_machines) = {}
    <3>1. s = IF a.nb_available > 0 THEN Spot("new_core_machine", LeftOf(a.available, 1))
              ELSE Spot("none", {})
      BY <2>1, <2>5 DEF SharedSpot
    <3>2. a.nb_available > 0
      BY <3>1, <1>0 DEF Spot
    <3>3. a.available # {}
      BY <3>2, FS_EmptySet DEF Books, FreeOnes
    <3>4. \E m \in a.available : LeftOf(a.available, 1) = {m}
      BY <3>3, LeftOne, BooksTypes
    <3> QED BY <1>2, <3>1, <3>2, <3>4 DEF Spot
  <2> QED BY <2>3, <2>4, <2>5
<1> QED BY <1>1, <1>2

\* b is a after job j was booked on the machines of the spot s.
IsBooked(a, j, s, b) ==
  /\ DOMAIN b = AlgFields
  /\ b.heldback = a.heldback /\ b.unavailable = a.unavailable /\ b.repair = a.repair
  /\ b.pending = a.pending /\ b.priority = a.priority
  /\ b.my_kill_jobs = a.my_kill_jobs /\ b.mistaken = a.mistaken
  /\ b.running = a.running \cup {j}
  /\ b.allocations = Put(a.allocations, j, s.machines)
  /\ b.core_machines = IF s.kind = "new_core_machine"
                       THEN a.core_machines \cup s.machines ELSE a.core_machines
  /\ b.cores = [m \in Machines |-> IF SharePacked(j) /\ m \in s.machines
                                   THEN a.cores[m] - 1 ELSE a.cores[m]]
  /\ s.kind = "whole" =>
       /\ b.nb_available = a.nb_available - nb_requested_resources[j]
       /\ b.available = IF nb_requested_resources[j] > 0
                        THEN a.available \ s.machines ELSE a.available
  /\ s.kind = "new_core_machine" =>
       /\ b.nb_available = a.nb_available - 1
       /\ b.available = a.available \ s.machines
  /\ s.kind \in {"heldback", "core"} =>
       /\ b.nb_available = a.nb_available - 0 /\ b.available = a.available

\* Booked gives the job the place SpotFor has found.
LEMMA BookedIs ==
  ASSUME NEW a, DOMAIN a = AlgFields, NEW j
  PROVE  IsBooked(a, j, SpotFor(a, j), Booked(a, j))
BY DEF Booked, AlgFields, IsBooked

\* The books stay right, and nothing else changes.
LEMMA BookedKeepsBooks ==
  ASSUME config \in Simulations, NEW a, Books(a), NEW j \in Jobs,
         j \notin DOMAIN a.allocations, Fits(a, j), NEW b, b = Booked(a, j)
  PROVE  /\ Books(b)
         /\ b.allocations = Put(a.allocations, j, SpotFor(a, j).machines)
         /\ b.allocations[j] \cap a.repair = {}
         /\ b.repair = a.repair /\ b.pending = a.pending /\ b.priority = a.priority
<1> DEFINE s == SpotFor(a, j)  ms == s.machines
<1>0. DOMAIN a = AlgFields /\ Kept(a)
  BY DEF Books, Kept, Fields
<1>1. IsBooked(a, j, s, b)
  BY <1>0, BookedIs
<1> USE DEF IsBooked
<1>2. \/ /\ ~SharePacked(j) /\ s.kind = "whole"
         /\ ms \subseteq a.available /\ Cardinality(ms) = nb_requested_resources[j]
      \/ SharePacked(j) /\ s.kind = "heldback" /\ \E m \in a.heldback : ms = {m}
      \/ SharePacked(j) /\ s.kind = "core" /\ \E m \in a.core_machines : ms = {m}
      \/ SharePacked(j) /\ s.kind = "new_core_machine" /\ \E m \in a.available : ms = {m}
  BY SpotIs
<1>3. /\ a.available \subseteq Machines /\ a.heldback \subseteq Machines
      /\ a.core_machines \subseteq Machines /\ a.unavailable \subseteq Machines
      /\ a.nb_available \in Nat /\ nb_requested_resources[j] \in Nat
      /\ nb_requested_resources[j] > 0
  BY BooksTypes, PlatformAssumption, SimulationAssumption
<1>4. ms \subseteq Machines
  BY <1>2, <1>3
<1> HIDE DEF s
<1>5. HasPut(a, j, ms, b)
  BY <1>0, <1>1, AfterPut
<1> USE DEF HasPut
<1>6. Kept(b)
  <2>1. b.allocations \in [DOMAIN b.allocations -> SUBSET Machines]
    <3>1. b.allocations = [k \in DOMAIN a.allocations \cup {j} |-> b.allocations[k]]
      BY <1>1 DEF Put
    <3>2. \A k \in DOMAIN a.allocations \cup {j} : b.allocations[k] \in SUBSET Machines
      BY <1>0, <1>4, <1>5 DEF Kept, Fields
    <3> QED BY <3>1, <3>2, <1>5
  <2>2. Fcfs => b.running = DOMAIN b.allocations
    BY <1>0, <1>1, <1>5 DEF Kept, Fields
  <2> QED BY <2>1, <2>2, <1>0, <1>1, <1>5 DEF Kept, Fields
<1>7. OutOfUse(b)
  BY <1>1 DEF Books, OutOfUse
<1>8. FreeOnes(b)
  <2>1. CASE ~SharePacked(j)
    <3>1. ms \subseteq a.available /\ Cardinality(ms) = nb_requested_resources[j]
      BY <1>2, <2>1
    <3>2. s.kind = "whole"
      BY <1>2, <2>1
    <3>3. Cardinality(a.available \ ms) = Cardinality(a.available) - Cardinality(ms)
      <4>1. IsFiniteSet(a.available) /\ a.available \cap ms = ms
        BY <1>3, <3>1, MachinesFinite
      <4> QED BY <4>1, FS_Difference
    <3>4. b.available = a.available \ ms
      BY <1>1, <1>3, <3>2
    <3>5. b.nb_available = Cardinality(b.available)
      BY <1>1, <3>1, <3>2, <3>3, <3>4 DEF Books, FreeOnes
    <3>6. b.core_machines = a.core_machines
      BY <1>1, <3>2
    <3> QED BY <1>1, <1>5, <2>1, <3>4, <3>5, <3>6 DEF Books, FreeOnes
  <2>2. CASE s.kind \in {"heldback", "core"}
    <3>1. /\ SharePacked(j) /\ b.available = a.available
          /\ b.nb_available = a.nb_available /\ b.core_machines = a.core_machines
      BY <1>1, <1>2, <1>3, <2>2
    <3> QED BY <1>1, <1>5, <3>1 DEF Books, FreeOnes
  <2>3. CASE s.kind = "new_core_machine"
    <3>1. PICK m \in a.available : SharePacked(j) /\ ms = {m}
      BY <1>2, <2>3
    <3>2. /\ b.nb_available = a.nb_available - 1 /\ b.available = a.available \ {m}
          /\ b.core_machines = a.core_machines \cup {m}
      BY <1>1, <2>3, <3>1
    <3>3. Cardinality(a.available \ {m}) = Cardinality(a.available) - 1
      BY <1>3, <3>1, MachinesFinite, FS_RemoveElement
    <3> QED BY <1>1, <1>5, <3>1, <3>2, <3>3 DEF Books, FreeOnes
  <2> QED BY <1>2, <2>1, <2>2, <2>3
<1>9. WholeAlone(b)
  <2>1. \A k \in Whole(a) : b.allocations[k] = a.allocations[k]
    BY <1>5 DEF Whole
  <2>2. \A k \in Whole(a) : a.allocations[k] \cap a.available = {}
    BY DEF Books, FreeOnes, WholeMachines
  <2>3. a.available \cap (a.core_machines \cup a.heldback) = {}
    BY DEF Books, FreeOnes, OutOfUse
  <2>4. CASE ~SharePacked(j)
    <3>1. ms \subseteq a.available /\ Cardinality(ms) = nb_requested_resources[j]
          /\ b.core_machines = a.core_machines
      BY <1>1, <1>2, <2>4
    <3>2. ASSUME NEW k \in Whole(b)
          PROVE  /\ Cardinality(b.allocations[k]) = nb_requested_resources[k]
                 /\ b.allocations[k] \cap (b.core_machines \cup b.heldback) = {}
      <4>1. CASE k = j
        BY <1>1, <1>5, <2>3, <3>1, <4>1
      <4>2. CASE k \in Whole(a)
        BY <1>1, <2>1, <3>1, <4>2 DEF Books, WholeAlone
      <4> QED BY <1>5, <2>4, <4>1, <4>2
    <3>3. ASSUME NEW k \in Whole(b), NEW l \in Whole(b), k # l
          PROVE  b.allocations[k] \cap b.allocations[l] = {}
      <4>1. CASE k = j
        BY <1>5, <2>1, <2>2, <2>4, <3>1, <3>3, <4>1
      <4>2. CASE l = j
        BY <1>5, <2>1, <2>2, <2>4, <3>1, <3>3, <4>2
      <4>3. CASE k # j /\ l # j
        BY <1>5, <2>1, <2>4, <3>3, <4>3 DEF Books, WholeAlone
      <4> QED BY <4>1, <4>2, <4>3
    <3> QED BY <3>2, <3>3 DEF WholeAlone
  <2>5. CASE SharePacked(j)
    <3>1. Whole(b) = Whole(a)
      BY <1>5, <2>5
    <3>2. b.core_machines \subseteq a.core_machines \cup a.available
      BY <1>1, <1>2, <2>5
    <3> QED BY <1>1, <2>1, <2>2, <3>1, <3>2 DEF Books, WholeAlone
  <2> QED BY <2>4, <2>5
<1>10. CoresLeft(b)
  <2>1. \A k \in Packed(a) : b.allocations[k] = a.allocations[k]
    BY <1>5 DEF Packed
  <2>2. /\ a.core_machines \subseteq b.core_machines
        /\ b.core_machines \subseteq Machines \ b.unavailable
    BY <1>1, <1>2, <1>3 DEF Books, CoresLeft, FreeOnes
  <2>3. ASSUME NEW k \in Packed(b)
        PROVE  \E m \in b.core_machines \cup b.heldback : b.allocations[k] = {m}
    <3>1. CASE k \in Packed(a)
      BY <1>1, <2>1, <2>2, <3>1 DEF Books, CoresLeft
    <3>2. CASE SharePacked(j) /\ k = j
      BY <1>1, <1>2, <1>5, <3>2
    <3> QED BY <1>5, <3>1, <3>2
  <2>4. ASSUME NEW m \in b.core_machines PROVE PackedOn(b, m) # {}
    <3>1. CASE m \in a.core_machines
      BY <1>5, <3>1 DEF Books, CoresLeft
    <3>2. CASE m \notin a.core_machines
      <4>1. SharePacked(j) /\ m \in ms
        BY <1>1, <1>2, <3>2
      <4> QED BY <1>5, <4>1
    <3> QED BY <3>1, <3>2
  <2>5. a.cores \in [Machines -> Int]
    BY DEF Books, CoresLeft
  <2>6. b.cores \in [Machines -> Int]
    BY <1>1, <2>5
  <2>7. ASSUME NEW m \in Machines
        PROVE  b.cores[m] = Cores - Cardinality(PackedOn(b, m))
    <3>1. a.cores[m] = Cores - Cardinality(PackedOn(a, m))
      BY DEF Books, CoresLeft
    <3>2. IsFiniteSet(PackedOn(a, m)) /\ Cardinality(PackedOn(a, m)) \in Nat
      BY <1>0, JobsFinite DEF PackedOn, Packed, Kept, Fields
    <3>3. j \notin PackedOn(a, m)
      BY DEF PackedOn, Packed
    <3>4. CASE SharePacked(j) /\ m \in ms
      <4>1. Cardinality(PackedOn(b, m)) = Cardinality(PackedOn(a, m)) + 1
        BY <1>5, <3>2, <3>3, <3>4, FS_AddElement
      <4>2. b.cores[m] = a.cores[m] - 1
        BY <1>1, <3>4
      <4> QED BY <3>1, <3>2, <4>1, <4>2, FastAssumption
    <3>5. CASE ~(SharePacked(j) /\ m \in ms)
      <4>1. PackedOn(b, m) = PackedOn(a, m) /\ b.cores[m] = a.cores[m]
        BY <1>1, <1>5, <3>5
      <4> QED BY <3>1, <4>1
    <3> QED BY <3>4, <3>5
  <2> QED BY <2>2, <2>3, <2>4, <2>6, <2>7 DEF CoresLeft
<1>11. ms \cap a.repair = {}
  BY <1>2 DEF Books, FreeOnes, OutOfUse, CoresLeft
<1> QED BY <1>1, <1>5, <1>6, <1>7, <1>8, <1>9, <1>10, <1>11 DEF Books, s
-----------------------------------------------------------------------------
\* Whatever the books, the fields are kept, and so are books that are right.
LEMMA BookedKeepsSound ==
  ASSUME config \in Simulations, NEW a, Sound(a), NEW j \in Jobs,
         j \notin DOMAIN a.allocations, Fits(a, j), NEW b, b = Booked(a, j)
  PROVE  /\ Sound(b) /\ b.mistaken = a.mistaken
         /\ b.allocations = Put(a.allocations, j, SpotFor(a, j).machines)
         /\ ~a.mistaken => b.allocations[j] \cap a.repair = {}
         /\ b.repair = a.repair /\ b.pending = a.pending /\ b.priority = a.priority
<1>1. IsBooked(a, j, SpotFor(a, j), b)
  BY BookedIs DEF Sound, Fields
<1>2. /\ b.mistaken = a.mistaken
      /\ b.allocations = Put(a.allocations, j, SpotFor(a, j).machines)
      /\ b.repair = a.repair /\ b.pending = a.pending /\ b.priority = a.priority
  BY <1>1 DEF IsBooked
<1>3. Fields(b)
  <2>1. DOMAIN b.allocations = DOMAIN a.allocations \cup {j}
    BY <1>2 DEF Put
  <2> QED BY <1>1, <2>1 DEF IsBooked, Sound, Fields
<1>4. ~a.mistaken => Books(b) /\ b.allocations[j] \cap a.repair = {}
  BY BookedKeepsBooks DEF Sound
<1> QED BY <1>2, <1>3, <1>4 DEF Sound
-----------------------------------------------------------------------------
(* A job has ended.                                                         *)

\* b is a after the end of job j, up to the free machines and the cores.
IsWithout(a, j, b) ==
  /\ DOMAIN b = AlgFields
  /\ b.heldback = a.heldback /\ b.unavailable = a.unavailable /\ b.repair = a.repair
  /\ b.pending = a.pending /\ b.priority = a.priority
  /\ b.my_kill_jobs \cup {j} = a.my_kill_jobs \cup {j} /\ b.mistaken = a.mistaken
  /\ b.running = a.running \ {j}
  /\ b.allocations = Erase(a.allocations, j)

SameMachines(b, c) ==
  /\ b.available = c.available /\ b.nb_available = c.nb_available
  /\ b.core_machines = c.core_machines /\ b.cores = c.cores

\* A job that ends leaves the books.
LEMMA FinishIs ==
  ASSUME NEW a, DOMAIN a = AlgFields, NEW j
  PROVE  IsWithout(a, j, Finish(a, j))
<1>1. CASE SharePacked(j)
  <2> DEFINE m == CHOOSE x \in a.allocations[j] : TRUE
  <2>1. FinishShared(a, j) =
          LET b == [a EXCEPT !.cores[m] = @ + 1]
          IN IF FreeAgain(a, m)
             THEN [b EXCEPT !.core_machines = @ \ {m}, !.available = @ \cup {m},
                            !.nb_available = @ + 1]
             ELSE b
    BY DEF FinishShared
  <2> HIDE DEF m
  <2> QED BY <1>1, <2>1 DEF Finish, IsWithout, AlgFields
<1>2. CASE ~SharePacked(j)
  BY <1>2 DEF Finish, FinishAmongRepairs, FinishWhole, IsWithout, AlgFields
<1> QED BY <1>1, <1>2

\* With share packing the machines are the same whichever way it ends.
LEMMA FinishSharedIs ==
  ASSUME NEW a, DOMAIN a = AlgFields, NEW j, SharePacked(j)
  PROVE  SameMachines(Finish(a, j), FinishShared(a, j))
<1> DEFINE m == CHOOSE x \in a.allocations[j] : TRUE
<1>1. FinishShared(a, j) =
        LET b == [a EXCEPT !.cores[m] = @ + 1]
        IN IF FreeAgain(a, m)
           THEN [b EXCEPT !.core_machines = @ \ {m}, !.available = @ \cup {m},
                          !.nb_available = @ + 1]
           ELSE b
  BY DEF FinishShared
<1> HIDE DEF m
<1> QED BY <1>1 DEF Finish, SameMachines, AlgFields

\* A job that does not share machines gives back those that work.
LEMMA FinishWholeBooks ==
  ASSUME config \in Simulations, NEW a, Books(a), NEW j \in DOMAIN a.allocations,
         ~SharePacked(j), NEW b, b = Finish(a, j)
  PROVE  FreeOnes(b) /\ WholeAlone(b) /\ CoresLeft(b)
<1> DEFINE ms == a.allocations[j]  back == ms \ a.unavailable
<1>0. DOMAIN a = AlgFields /\ Kept(a) /\ j \in Jobs /\ ms \subseteq Machines
  BY DEF Books, Kept, Fields
<1>1. IsWithout(a, j, b)
  BY <1>0, FinishIs
<1>2. HasErased(a, j, b)
  BY <1>0, <1>1, AfterErase DEF IsWithout
<1>3. /\ b.cores = a.cores /\ b.core_machines = a.core_machines
      /\ b.available = IF config.variant = "fcfs_fast2"
                       THEN (a.available \cup back) \ a.unavailable
                       ELSE a.available \cup ms
      /\ b.nb_available = IF config.variant = "fcfs_fast2"
                          THEN a.nb_available + Cardinality(back)
                          ELSE a.nb_available + nb_requested_resources[j]
  BY <1>0 DEF Finish, FinishAmongRepairs, FinishWhole, AlgFields
<1>4. j \in Whole(a) /\ ms \subseteq WholeMachines(a)
  BY DEF Whole, WholeMachines
<1>5. /\ ms \cap (a.core_machines \cup a.heldback) = {}
      /\ \A k \in Whole(a) \ {j} : ms \cap a.allocations[k] = {}
      /\ Cardinality(ms) = nb_requested_resources[j]
  BY <1>4 DEF Books, WholeAlone
<1> HIDE DEF ms
<1>6. /\ b.available = a.available \cup back
      /\ b.nb_available = a.nb_available + Cardinality(back)
  <2>1. CASE config.variant = "fcfs_fast2"
    BY <1>3, <2>1 DEF Books, FreeOnes
  <2>2. CASE config.variant # "fcfs_fast2"
    <3>1. back = ms
      BY <1>5, <2>2 DEF Books, OutOfUse
    <3> QED BY <1>3, <1>5, <2>2, <3>1
  <2> QED BY <2>1, <2>2
<1>7. FreeOnes(b)
  <2>1. a.available \cap back = {}
    BY <1>4 DEF Books, FreeOnes
  <2>2. IsFiniteSet(a.available) /\ IsFiniteSet(back)
    BY <1>0, BooksTypes, MachinesFinite
  <2>3. Cardinality(a.available \cup back) = Cardinality(a.available) + Cardinality(back)
    <3>1. Cardinality(a.available \cup back)
            = Cardinality(a.available) + Cardinality(back) - Cardinality(a.available \cap back)
      BY <2>2, FS_Union
    <3>2. Cardinality(a.available) \in Nat /\ Cardinality(back) \in Nat
      BY <2>2, FS_CardinalityType
    <3>3. Cardinality(a.available \cap back) = 0
      BY <2>1, FS_EmptySet
    <3> HIDE DEF back
    <3> QED BY <3>1, <3>2, <3>3
  <2>4. WholeMachines(b) = WholeMachines(a) \ ms
    <3>1. ASSUME NEW m PROVE m \in WholeMachines(b) <=> m \in WholeMachines(a) \ ms
      <4>1. m \in WholeMachines(b) <=> \E k \in Whole(a) \ {j} : m \in a.allocations[k]
        BY <1>2 DEF HasErased
      <4>2. m \in WholeMachines(a) <=> \E k \in Whole(a) : m \in a.allocations[k]
        BY DEF WholeMachines
      <4> QED BY <4>1, <4>2, <1>4, <1>5 DEF ms
    <3> QED BY <3>1
  <2>5. b.available = Machines \ (b.core_machines \cup WholeMachines(b) \cup b.unavailable)
    <3>1. a.available = Machines \ (a.core_machines \cup WholeMachines(a) \cup a.unavailable)
      BY DEF Books, FreeOnes
    <3> QED BY <3>1, <1>0, <1>1, <1>3, <1>4, <1>5, <1>6, <2>4 DEF IsWithout
  <2>6. b.nb_available = Cardinality(b.available)
    BY <1>6, <2>3 DEF Books, FreeOnes
  <2> QED BY <2>5, <2>6 DEF FreeOnes
<1>8. WholeAlone(b)
  <2>1. Whole(b) = Whole(a) \ {j} /\ \A k \in Whole(b) : b.allocations[k] = a.allocations[k]
    BY <1>2 DEF HasErased, Whole
  <2> QED BY <1>1, <1>3, <2>1 DEF Books, WholeAlone, IsWithout
<1>9. CoresLeft(b)
  <2>1. /\ Packed(b) = Packed(a) /\ \A m : PackedOn(b, m) = PackedOn(a, m)
        /\ \A k \in Packed(b) : b.allocations[k] = a.allocations[k]
    BY <1>2 DEF HasErased, Packed
  <2> QED BY <1>1, <1>3, <2>1 DEF Books, CoresLeft, IsWithout
<1> QED BY <1>7, <1>8, <1>9

\* A job that shares a machine gives back its core; the machine is free again
\* when it was the last one there.
LEMMA FinishSharedBooks ==
  ASSUME config \in Simulations, NEW a, Books(a), NEW j \in DOMAIN a.allocations,
         SharePacked(j), NEW b, b = Finish(a, j)
  PROVE  FreeOnes(b) /\ WholeAlone(b) /\ CoresLeft(b)
<1>0. DOMAIN a = AlgFields /\ Kept(a) /\ j \in Packed(a)
  BY DEF Books, Kept, Fields, Packed
<1>1. IsWithout(a, j, b)
  BY <1>0, FinishIs
<1>2. HasErased(a, j, b)
  BY <1>0, <1>1, AfterErase DEF IsWithout
<1>3. PICK m \in a.core_machines \cup a.heldback : a.allocations[j] = {m}
  BY <1>0 DEF Books, CoresLeft
<1>4. m \in Machines /\ m \notin WholeMachines(a) /\ a.unavailable = a.heldback
  <2>1. m \in Machines
    BY <1>3, BooksTypes
  <2>2. m \notin WholeMachines(a)
    BY <1>3 DEF Books, WholeAlone, WholeMachines
  <2> QED BY <2>1, <2>2 DEF Books, OutOfUse, SharePacked
<1>5. a.cores \in [Machines -> Int] /\ a.cores[m] = Cores - Cardinality(PackedOn(a, m))
  BY <1>4 DEF Books, CoresLeft
<1>6. b.cores = [a.cores EXCEPT ![m] = @ + 1]
  <2>1. (CHOOSE x \in a.allocations[j] : TRUE) = m
    BY <1>3
  <2>2. FinishShared(a, j).cores = [a.cores EXCEPT ![m] = @ + 1]
    BY <1>0, <2>1 DEF FinishShared, AlgFields
  <2> QED BY <1>0, <2>2, FinishSharedIs DEF SameMachines
<1>7. /\ b.available = IF FreeAgain(a, m) THEN a.available \cup {m} ELSE a.available
      /\ b.nb_available = IF FreeAgain(a, m) THEN a.nb_available + 1 ELSE a.nb_available
      /\ b.core_machines = IF FreeAgain(a, m) THEN a.core_machines \ {m} ELSE a.core_machines
  <2>1. (CHOOSE x \in a.allocations[j] : TRUE) = m
    BY <1>3
  <2> DEFINE c == FinishShared(a, j)
  <2>2. /\ c.available = IF FreeAgain(a, m) THEN a.available \cup {m} ELSE a.available
        /\ c.nb_available = IF FreeAgain(a, m) THEN a.nb_available + 1 ELSE a.nb_available
        /\ c.core_machines = IF FreeAgain(a, m) THEN a.core_machines \ {m}
                             ELSE a.core_machines
    BY <1>0, <2>1 DEF FinishShared, AlgFields
  <2>3. /\ b.available = c.available /\ b.nb_available = c.nb_available
        /\ b.core_machines = c.core_machines
    BY <1>0, FinishSharedIs DEF SameMachines
  <2> QED BY <2>2, <2>3
<1>8. /\ IsFiniteSet(PackedOn(a, m)) /\ Cardinality(PackedOn(a, m)) \in Nat
      /\ j \in PackedOn(a, m)
  BY <1>0, <1>3, JobsFinite DEF PackedOn, Packed, Kept, Fields
<1>9. /\ PackedOn(b, m) = PackedOn(a, m) \ {j}
      /\ Cardinality(PackedOn(b, m)) = Cardinality(PackedOn(a, m)) - 1
      /\ \A x \in Machines \ {m} : PackedOn(b, x) = PackedOn(a, x)
  <2>1. \A x : PackedOn(b, x) = PackedOn(a, x) \ {j}
    BY <1>2 DEF HasErased
  <2>2. \A x \in Machines \ {m} : j \notin PackedOn(a, x)
    BY <1>3 DEF PackedOn
  <2>3. PackedOn(b, m) = PackedOn(a, m) \ {j}
    BY <2>1
  <2>4. Cardinality(PackedOn(b, m)) = Cardinality(PackedOn(a, m)) - 1
    BY <1>8, <2>3, FS_RemoveElement
  <2>5. ASSUME NEW x \in Machines \ {m} PROVE PackedOn(b, x) = PackedOn(a, x)
    <3>1. PackedOn(b, x) = PackedOn(a, x) \ {j} /\ j \notin PackedOn(a, x)
      BY <2>1, <2>2
    <3> QED BY <3>1
  <2> QED BY <2>3, <2>4, <2>5
<1>10. FreeAgain(a, m) <=> m \notin a.heldback /\ PackedOn(b, m) = {}
  <2>1. a.cores[m] + 1 = Cores <=> Cardinality(PackedOn(b, m)) = 0
    BY <1>5, <1>8, <1>9, FastAssumption
  <2>2. IsFiniteSet(PackedOn(b, m))
    BY <1>8, <1>9, FS_Subset
  <2>3. Cardinality(PackedOn(b, m)) = 0 <=> PackedOn(b, m) = {}
    BY <2>2, FS_EmptySet
  <2> QED BY <2>1, <2>3 DEF FreeAgain
<1>11. FreeOnes(b)
  <2>1. WholeMachines(b) = WholeMachines(a)
    BY <1>2 DEF HasErased
  <2>2. CASE FreeAgain(a, m)
    <3>1. m \in a.core_machines /\ m \notin a.unavailable /\ m \notin a.available
      BY <1>3, <1>4, <1>10, <2>2 DEF Books, FreeOnes
    <3>2. Cardinality(a.available \cup {m}) = Cardinality(a.available) + 1
      BY <3>1, BooksTypes, MachinesFinite, FS_AddElement
    <3>3. /\ b.available = a.available \cup {m} /\ b.nb_available = a.nb_available + 1
          /\ b.core_machines = a.core_machines \ {m} /\ b.unavailable = a.unavailable
      BY <1>1, <1>7, <2>2 DEF IsWithout
    <3> QED BY <1>4, <2>1, <3>1, <3>2, <3>3 DEF Books, FreeOnes
  <2>3. CASE ~FreeAgain(a, m)
    <3>1. /\ b.available = a.available /\ b.nb_available = a.nb_available
          /\ b.core_machines = a.core_machines /\ b.unavailable = a.unavailable
      BY <1>1, <1>7, <2>3 DEF IsWithout
    <3> QED BY <2>1, <3>1 DEF Books, FreeOnes
  <2> QED BY <2>2, <2>3
<1>12. WholeAlone(b)
  <2>1. Whole(b) = Whole(a) /\ \A k \in Whole(b) : b.allocations[k] = a.allocations[k]
    BY <1>2 DEF HasErased, Whole
  <2>2. b.core_machines \subseteq a.core_machines
    BY <1>7
  <2> QED BY <1>1, <2>1, <2>2 DEF Books, WholeAlone, IsWithout
<1>13. CoresLeft(b)
  <2>1. b.core_machines \subseteq Machines \ b.unavailable
    BY <1>1, <1>7 DEF Books, CoresLeft, IsWithout
  <2>2. ASSUME NEW k \in Packed(b)
        PROVE  \E x \in b.core_machines \cup b.heldback : b.allocations[k] = {x}
    <3>1. k \in Packed(a) /\ k # j /\ b.allocations[k] = a.allocations[k]
      BY <1>2 DEF HasErased, Packed
    <3>2. PICK x \in a.core_machines \cup a.heldback : a.allocations[k] = {x}
      BY <3>1 DEF Books, CoresLeft
    <3>3. x \in b.core_machines \cup b.heldback
      <4>1. CASE x \in a.heldback
        BY <1>1, <4>1 DEF IsWithout
      <4>2. CASE x # m /\ x \in a.core_machines
        BY <1>7, <4>2
      <4>3. CASE x = m /\ x \in a.core_machines
        <5>1. k \in PackedOn(b, m)
          BY <1>9, <3>1, <3>2, <4>3 DEF PackedOn
        <5> QED BY <1>7, <1>10, <4>3, <5>1
      <4> QED BY <4>1, <4>2, <4>3
    <3> QED BY <3>1, <3>2, <3>3
  <2>3. ASSUME NEW x \in b.core_machines PROVE PackedOn(b, x) # {}
    <3>1. x \in a.core_machines /\ x \in Machines /\ x \notin a.heldback
      BY <1>4, <1>7, <2>1 DEF Books, CoresLeft
    <3>2. CASE x = m
      BY <1>7, <1>10, <3>1, <3>2
    <3>3. CASE x # m
      BY <1>9, <3>1, <3>3 DEF Books, CoresLeft
    <3> QED BY <3>2, <3>3
  <2>4. b.cores \in [Machines -> Int]
    <3>1. a.cores[m] + 1 \in Int
      BY <1>4, <1>5
    <3> QED BY <1>5, <1>6, <3>1
  <2>5. ASSUME NEW x \in Machines
        PROVE  b.cores[x] = Cores - Cardinality(PackedOn(b, x))
    <3>1. CASE x = m
      <4>1. b.cores[m] = a.cores[m] + 1
        BY <1>4, <1>5, <1>6
      <4>2. Cores \in Int
        BY FastAssumption
      <4>3. b.cores[m] = Cores - Cardinality(PackedOn(b, m))
        BY <1>5, <1>8, <1>9, <4>1, <4>2
      <4> QED BY <3>1, <4>3
    <3>2. CASE x # m
      <4>1. b.cores[x] = a.cores[x]
        BY <1>5, <1>6, <3>2
      <4> QED BY <1>9, <3>2, <4>1 DEF Books, CoresLeft
    <3> QED BY <3>1, <3>2
  <2> QED BY <2>1, <2>2, <2>3, <2>4, <2>5 DEF CoresLeft
<1> QED BY <1>11, <1>12, <1>13

\* The books balance when a job has ended.
LEMMA FinishKeepsBooks ==
  ASSUME config \in Simulations, NEW a, Books(a), NEW j \in DOMAIN a.allocations
  PROVE  Books(Finish(a, j)) /\ IsWithout(a, j, Finish(a, j))
<1> DEFINE b == Finish(a, j)
<1>0. DOMAIN a = AlgFields /\ Kept(a)
  BY DEF Books, Kept, Fields
<1>1. IsWithout(a, j, b)
  BY <1>0, FinishIs
<1>2. HasErased(a, j, b)
  BY <1>0, <1>1, AfterErase DEF IsWithout
<1>3. FreeOnes(b) /\ WholeAlone(b) /\ CoresLeft(b)
  BY FinishWholeBooks, FinishSharedBooks
<1> HIDE DEF b
<1>4. b.allocations \in [DOMAIN b.allocations -> SUBSET Machines]
  <2>1. b.allocations = [k \in DOMAIN a.allocations \ {j} |-> a.allocations[k]]
    BY <1>1 DEF IsWithout, Erase
  <2> QED BY <1>0, <2>1 DEF Kept, Fields
<1>5. Kept(b)
  BY <1>0, <1>1, <1>2, <1>4 DEF Kept, Fields, IsWithout, HasErased
<1>6. OutOfUse(b)
  BY <1>1 DEF Books, OutOfUse, IsWithout
<1> QED BY <1>1, <1>3, <1>5, <1>6 DEF Books, b

\* Whatever the books, the fields are kept.
LEMMA FinishKeepsSound ==
  ASSUME config \in Simulations, NEW a, Sound(a), NEW j \in DOMAIN a.allocations
  PROVE  Sound(Finish(a, j)) /\ IsWithout(a, j, Finish(a, j))
<1> DEFINE b == Finish(a, j)
<1>1. IsWithout(a, j, b)
  BY FinishIs DEF Sound, Fields
<1>2. ~a.mistaken => Books(b)
  BY FinishKeepsBooks DEF Sound
<1> HIDE DEF b
<1>3. DOMAIN b.allocations = DOMAIN a.allocations \ {j}
  BY <1>1 DEF IsWithout, Erase
<1> QED BY <1>1, <1>2, <1>3 DEF IsWithout, Sound, Fields, b
-----------------------------------------------------------------------------
(* A decision in progress.                                                  *)

DecisionFields == {"alg", "executed", "rejected", "kill", "calls", "submit", "finished"}

\* The scheduler of the decision D has the machines of the jobs that run and of
\* those that the decision starts, which waited and are not rejected as well; of
\* the jobs on a machine under repair none is left to live.
Deciding(D) ==
  /\ DOMAIN D = DecisionFields /\ D.calls = << >>
  /\ Sound(D.alg) /\ D.alg.repair = alg.repair /\ D.alg.mistaken = alg.mistaken
  /\ DOMAIN D.alg.allocations = InStatus("running") \cup DOMAIN D.executed
  /\ \A j \in InStatus("running") : D.alg.allocations[j] = on[j]
  /\ \A j \in DOMAIN D.executed : D.executed[j] = D.alg.allocations[j]
  /\ DOMAIN D.executed \subseteq InStatus("queued") \cup InStatus("released")
  /\ D.rejected \subseteq InStatus("released") \ DOMAIN D.executed
  /\ \A j \in DOMAIN D.alg.allocations :
       D.alg.allocations[j] \cap alg.repair # {} /\ ~alg.mistaken =>
         j \in InStatus("running") /\ (j \in D.kill \/ \E k \in killing : j \in k)

\* A job that waits, up to what is decided so far.
Waits(D, j) ==
  /\ j \in InStatus("queued") \cup InStatus("released")
  /\ j \notin DOMAIN D.executed /\ j \notin D.rejected

\* The jobs of the list q wait, each of them once, apart from the priority job.
Line(D, q) ==
  /\ q \in Seq(Jobs) /\ Distinct(q)
  /\ \A i \in DOMAIN q : Waits(D, q[i]) /\ q[i] # D.alg.priority

PriorityWaits(D) == D.alg.priority # None => Waits(D, D.alg.priority)

Queued(D) == Deciding(D) /\ Line(D, D.alg.pending) /\ PriorityWaits(D)

\* b has the same books as a.
SameBooks(b, a) ==
  /\ DOMAIN b = AlgFields
  /\ b.available = a.available /\ b.nb_available = a.nb_available
  /\ b.heldback = a.heldback /\ b.unavailable = a.unavailable /\ b.repair = a.repair
  /\ b.core_machines = a.core_machines /\ b.cores = a.cores
  /\ b.allocations = a.allocations /\ b.mistaken = a.mistaken
  /\ Fcfs => b.running = a.running

\* The books balance as long as none of their fields changes.
LEMMA SameBooksKeep ==
  ASSUME NEW a, Sound(a), NEW b, SameBooks(b, a)
  PROVE  Sound(b)
<1>1. Fields(b)
  BY DEF Sound, Fields, SameBooks
<1> SUFFICES ASSUME ~b.mistaken PROVE Books(b)
  BY <1>1 DEF Sound
<1>2. Books(a)
  BY DEF Sound, SameBooks
<1>3. Packed(b) = Packed(a) /\ Whole(b) = Whole(a) /\ WholeMachines(b) = WholeMachines(a)
      /\ \A m : PackedOn(b, m) = PackedOn(a, m)
  BY DEF SameBooks, Packed, Whole, WholeMachines, PackedOn
<1>4. Kept(b) /\ OutOfUse(b) /\ FreeOnes(b)
  BY <1>1, <1>2, <1>3 DEF Books, SameBooks, Kept, OutOfUse, FreeOnes
<1>5. WholeAlone(b) /\ CoresLeft(b)
  BY <1>2, <1>3 DEF Books, SameBooks, WholeAlone, CoresLeft
<1> QED BY <1>4, <1>5 DEF Books

\* E is D but for the queue, the priority job and the flags.
SameDecisions(E, D) ==
  /\ DOMAIN E = DecisionFields /\ SameBooks(E.alg, D.alg)
  /\ E.executed = D.executed /\ E.rejected = D.rejected
  /\ E.kill = D.kill /\ E.calls = D.calls

\* A queue is sound as long as none of the fields it depends on changes.
LEMMA SameDecisionsKeep ==
  ASSUME NEW D, Deciding(D), NEW E, SameDecisions(E, D)
  PROVE  Deciding(E) /\ \A j : Waits(E, j) <=> Waits(D, j)
<1>1. Sound(E.alg)
  BY SameBooksKeep DEF Deciding, SameDecisions
<1> QED BY <1>1 DEF Deciding, SameDecisions, SameBooks, Waits

\* E is D with job j started.
HasStarted(E, D, j) ==
  /\ Deciding(E)
  /\ E.alg.pending = D.alg.pending /\ E.alg.priority = D.alg.priority
  /\ E.kill = D.kill /\ E.rejected = D.rejected
  /\ \A k : Waits(E, k) <=> Waits(D, k) /\ k # j

\* Only a job that waits is started.
LEMMA StartDecides ==
  ASSUME config \in Simulations, NEW D, Deciding(D), NEW j, Waits(D, j), Fits(D.alg, j)
  PROVE  HasStarted(Start(D, j), D, j)
<1> DEFINE a == D.alg  ms == SpotFor(a, j).machines  b == Booked(a, j)  E == Start(D, j)
<1>1. j \in Jobs /\ j \notin DOMAIN a.allocations /\ j \notin InStatus("running")
  BY DEF Deciding, Waits, InStatus
<1>2. /\ Sound(b) /\ b.allocations = Put(a.allocations, j, ms)
      /\ ~a.mistaken => b.allocations[j] \cap a.repair = {}
      /\ b.repair = a.repair /\ b.pending = a.pending /\ b.priority = a.priority
      /\ b.mistaken = a.mistaken
  <2>1. Sound(a)
    BY DEF Deciding
  <2> HIDE DEF b, a
  <2>2. b = b
    OBVIOUS
  <2> QED BY <1>1, <2>1, BookedKeepsSound DEF a, b
<1> HIDE DEF ms, b
<1>3. /\ DOMAIN E = DecisionFields /\ E.alg = b /\ E.executed = Put(D.executed, j, ms)
      /\ E.rejected = D.rejected /\ E.kill = D.kill /\ E.calls = D.calls
  BY DEF Deciding, Start, Execute, DecisionFields, b, ms
<1>4. /\ DOMAIN E.executed = DOMAIN D.executed \cup {j} /\ E.executed[j] = ms
      /\ \A k \in DOMAIN D.executed \ {j} : E.executed[k] = D.executed[k]
  BY <1>3 DEF Put
<1>5. /\ DOMAIN b.allocations = DOMAIN a.allocations \cup {j} /\ b.allocations[j] = ms
      /\ \A k \in DOMAIN a.allocations \ {j} : b.allocations[k] = a.allocations[k]
  BY <1>2 DEF Put
<1> HIDE DEF E
<1>6. Deciding(E)
  <2>1. \A k \in InStatus("running") : E.alg.allocations[k] = on[k]
    BY <1>1, <1>3, <1>5 DEF Deciding
  <2>2. \A k \in DOMAIN E.executed : E.executed[k] = E.alg.allocations[k]
    BY <1>3, <1>4, <1>5 DEF Deciding
  <2>3. \A k \in DOMAIN E.alg.allocations :
          E.alg.allocations[k] \cap alg.repair # {} /\ ~alg.mistaken
            => k \in InStatus("running") /\ (k \in E.kill \/ \E l \in killing : k \in l)
    <3>. TAKE k \in DOMAIN E.alg.allocations
    <3>1. CASE k = j
      BY <1>2, <1>3, <3>1 DEF Deciding
    <3>2. CASE k # j
      BY <1>3, <1>5, <3>2 DEF Deciding
    <3> QED BY <3>1, <3>2
  <2>4. /\ DOMAIN E.alg.allocations = InStatus("running") \cup DOMAIN E.executed
        /\ DOMAIN E.executed \subseteq InStatus("queued") \cup InStatus("released")
        /\ E.rejected \subseteq InStatus("released") \ DOMAIN E.executed
    BY <1>3, <1>4, <1>5 DEF Deciding, Waits
  <2> QED BY <1>2, <1>3, <2>1, <2>2, <2>3, <2>4 DEF Deciding
<1>7. \A k : Waits(E, k) <=> Waits(D, k) /\ k # j
  BY <1>3, <1>4 DEF Waits
<1> QED BY <1>2, <1>3, <1>6, <1>7 DEF HasStarted, E
-----------------------------------------------------------------------------
(* The jobs that have ended.                                                *)

\* One of the jobs that have ended gives back its machines.
LEMMA FinishPassKeeps ==
  ASSUME config \in Simulations, NEW c, NEW n, Distinct(c.ended), DOMAIN c.ended = 1..n,
         n \in Nat, \A k \in 1..n : c.ended[k] \in c.jobs,
         NEW i \in 1..n, NEW a, FinishLoop(c, i - 1, a)
  PROVE  FinishLoop(c, i, FinishPass(c, a, c.ended[i]))
<1> DEFINE j == c.ended[i]  b == Finish(a, j)
           before == {c.ended[k] : k \in 1..(i - 1)}
           upto == {c.ended[k] : k \in 1..i}
<1>1. /\ Sound(a) /\ DOMAIN a.allocations = c.jobs \ before /\ a.mistaken = c.mistaken
      /\ \A k \in DOMAIN a.allocations : a.allocations[k] = c.held[k]
      /\ a.pending = c.pending /\ a.priority = c.priority /\ a.repair = c.repair
      /\ a.my_kill_jobs \cup before = c.kills \cup before
  BY DEF FinishLoop
<1>2. j \in c.jobs /\ j \notin before
  <2>1. \A k \in 1..(i - 1) : k \in DOMAIN c.ended /\ i \in DOMAIN c.ended /\ k # i
    OBVIOUS
  <2> QED BY <2>1 DEF Distinct
<1>3. upto = before \cup {j}
  <2>1. 1..i = 1..(i - 1) \cup {i}
    OBVIOUS
  <2> QED BY <2>1
<1> HIDE DEF before, upto
<1>4. j \in DOMAIN a.allocations
  BY <1>1, <1>2
<1>5. Sound(b) /\ IsWithout(a, j, b)
  BY <1>1, <1>4, FinishKeepsSound
<1>6. HasErased(a, j, b)
  BY <1>4, <1>5, AfterErase DEF IsWithout
<1> HIDE DEF b
<1>7. /\ DOMAIN b.allocations = c.jobs \ upto
      /\ \A k \in DOMAIN b.allocations : b.allocations[k] = c.held[k]
  BY <1>1, <1>3, <1>6 DEF HasErased
<1>8. /\ b.pending = c.pending /\ b.priority = c.priority /\ b.repair = c.repair
      /\ b.mistaken = c.mistaken
      /\ b.my_kill_jobs \cup upto = c.kills \cup upto
  <2>1. b.my_kill_jobs \cup {j} = a.my_kill_jobs \cup {j}
    BY <1>5 DEF IsWithout
  <2>2. b.my_kill_jobs \cup upto = a.my_kill_jobs \cup upto
    BY <2>1, <1>3
  <2> QED BY <1>1, <1>3, <1>5, <2>2 DEF IsWithout
<1> QED BY <1>5, <1>7, <1>8 DEF FinishLoop, FinishPass, b, upto

\* After the loop over the jobs that have ended only the jobs that run are left.
LEMMA EndsAreHandled ==
  ASSUME FastInv, NEW a, a = FoldLeft(Finish, alg, Ascending(inbox.ended))
  PROVE  /\ Sound(a) /\ DOMAIN a.allocations = InStatus("running")
         /\ a.mistaken = alg.mistaken
         /\ \A j \in DOMAIN a.allocations : a.allocations[j] = alg.allocations[j]
         /\ a.pending = alg.pending /\ a.priority = alg.priority /\ a.repair = alg.repair
         /\ a.my_kill_jobs \cup inbox.ended = alg.my_kill_jobs \cup inbox.ended
<1> DEFINE q == Ascending(inbox.ended)
           c == [jobs |-> DOMAIN alg.allocations, ended |-> q, held |-> alg.allocations,
                 pending |-> alg.pending, priority |-> alg.priority,
                 repair |-> alg.repair, mistaken |-> alg.mistaken,
                 kills |-> alg.my_kill_jobs]
<1>1. inbox.ended \subseteq Jobs
  BY DEF FastInv, Messages, InStatus
<1>2. ListsOnce(inbox.ended, q)
  BY <1>1, JobsFinite, AscendingIs
<1> HIDE DEF q
<1>3. /\ q \in Seq(inbox.ended) /\ Distinct(q) /\ Len(q) \in Nat /\ DOMAIN q = 1..Len(q)
      /\ \A k \in 1..Len(q) : q[k] \in inbox.ended
  BY <1>2 DEF ListsOnce
<1>4. {q[k] : k \in 1..Len(q)} = inbox.ended
  BY <1>2, <1>3 DEF ListsOnce
<1>5. /\ c.jobs = DOMAIN alg.allocations /\ c.ended = q /\ c.held = alg.allocations
      /\ c.pending = alg.pending /\ c.priority = alg.priority
      /\ c.repair = alg.repair /\ c.kills = alg.my_kill_jobs
      /\ c.mistaken = alg.mistaken
  OBVIOUS
<1>6. FL!Folded(c, alg, q) = FoldLeft(Finish, alg, q)
  BY DEF FinishPass, FL!Folded, FoldLeft, MapThenFoldSet, FL!FoldLeft, FL!MapThenFoldSet,
         FL!Max, Max
<1> HIDE DEF c
<1>7. FinishLoop(c, 0, alg)
  <2>1. {c.ended[k] : k \in 1..0} = {}
    OBVIOUS
  <2> QED BY <2>1, <1>5 DEF FinishLoop, FastInv
<1>8. ASSUME NEW i \in 1..Len(q), NEW r, FinishLoop(c, i - 1, r)
      PROVE  FinishLoop(c, i, FinishPass(c, r, q[i]))
  <2>1. \A k \in 1..Len(q) : c.ended[k] \in c.jobs
    BY <1>3, <1>5 DEF FastInv, OnTheirMachines
  <2>2. config \in Simulations
    BY DEF FastInv, Messages
  <2> QED BY <1>3, <1>5, <1>8, <2>1, <2>2, FinishPassKeeps
<1>9. FinishLoop(c, Len(q), FL!Folded(c, alg, q))
  <2>1. \A i \in 1..Len(q) : \A r : FinishLoop(c, i - 1, r)
           => FinishLoop(c, i, FinishPass(c, r, q[i]))
    BY <1>8
  <2> QED BY <1>3, <1>7, <2>1, FL!LoopInvariant
<1>10. FinishLoop(c, Len(q), a)
  BY <1>6, <1>9 DEF q
<1>11. InStatus("running") = DOMAIN alg.allocations \ inbox.ended
  BY DEF FastInv, Messages, OnTheirMachines, InStatus
<1> QED BY <1>4, <1>5, <1>10, <1>11 DEF FinishLoop

\* The decision before any job is started.
Started(D) ==
  handle_resubmission(handle_new_jobs_to_kill(handle_newly_finished_jobs(Begin(D))))

\* The queue at the beginning of make_decisions.
LEMMA BeforeStarting ==
  ASSUME FastInv, NEW D, D = Started(alg)
  PROVE  /\ Queued(D) /\ D.executed = NoJobs /\ D.rejected = {}
         /\ D.alg.pending = alg.pending /\ D.alg.priority = alg.priority
         /\ \A i \in DOMAIN inbox.released : Waits(D, inbox.released[i])
<1> DEFINE a == FoldLeft(Finish, alg, Ascending(inbox.ended))
<1>1. /\ Sound(a) /\ DOMAIN a.allocations = InStatus("running")
      /\ a.mistaken = alg.mistaken
      /\ \A j \in DOMAIN a.allocations : a.allocations[j] = alg.allocations[j]
      /\ a.pending = alg.pending /\ a.priority = alg.priority /\ a.repair = alg.repair
      /\ a.my_kill_jobs \cup inbox.ended = alg.my_kill_jobs \cup inbox.ended
  <2>1. a = a
    OBVIOUS
  <2> HIDE DEF a
  <2> QED BY <2>1, EndsAreHandled DEF a
<1>2. handle_newly_finished_jobs(Begin(alg)) = [Begin(alg) EXCEPT !.alg = a]
  BY DEF handle_newly_finished_jobs, Begin
<1> HIDE DEF a
<1> DEFINE b == [a EXCEPT !.my_kill_jobs = {}]
<1>3. /\ DOMAIN D = DecisionFields /\ D.alg = b /\ D.calls = << >>
      /\ D.executed = NoJobs /\ D.rejected = {} /\ D.kill = a.my_kill_jobs
  BY <1>2 DEF Started, Begin, handle_new_jobs_to_kill, handle_resubmission, DecisionFields
<1>4. DOMAIN a = AlgFields
  BY <1>1 DEF Sound, Fields
<1>5. SameBooks(b, a) /\ b.pending = a.pending /\ b.priority = a.priority
  BY <1>4 DEF SameBooks, AlgFields
<1>6. Sound(b)
  BY <1>1, <1>5, SameBooksKeep
<1> HIDE DEF b
<1>7. DOMAIN D.executed = {}
  BY <1>3 DEF NoJobs
<1>8. ASSUME NEW j \in DOMAIN b.allocations, b.allocations[j] \cap alg.repair # {},
             ~alg.mistaken
      PROVE  j \in InStatus("running") /\ (j \in D.kill \/ \E k \in killing : j \in k)
  <2>1. j \in InStatus("running") /\ alg.allocations[j] \cap alg.repair # {}
    BY <1>1, <1>5, <1>8 DEF SameBooks
  <2>2. j \in DOMAIN alg.allocations /\ j \notin inbox.ended
    BY <2>1 DEF FastInv, OnTheirMachines, Messages, InStatus
  <2>3. Doomed(j)
    BY <1>8, <2>1, <2>2 DEF FastInv, RepairsEnd
  <2> QED BY <1>1, <1>3, <2>1, <2>2, <2>3 DEF Doomed
<1>9. Deciding(D)
  <2>1. /\ D.alg.repair = alg.repair /\ D.alg.allocations = a.allocations
        /\ D.alg.mistaken = alg.mistaken
    BY <1>1, <1>3, <1>5 DEF SameBooks
  <2>2. \A j \in InStatus("running") : D.alg.allocations[j] = on[j]
    BY <1>1, <2>1 DEF FastInv, OnTheirMachines
  <2>3. DOMAIN D.alg.allocations = InStatus("running") \cup DOMAIN D.executed
    BY <1>1, <1>7, <2>1
  <2>4. D.rejected \subseteq InStatus("released") \ DOMAIN D.executed
    BY <1>3
  <2> QED BY <1>3, <1>6, <1>7, <1>8, <2>1, <2>2, <2>3, <2>4 DEF Deciding
<1>10. \A j \in InStatus("queued") \cup InStatus("released") : Waits(D, j)
  BY <1>3, <1>7 DEF Waits
<1>11. D.alg.pending = alg.pending /\ D.alg.priority = alg.priority
  BY <1>1, <1>3, <1>5
<1>12. Line(D, D.alg.pending) /\ PriorityWaits(D)
  <2>1. \A i \in DOMAIN alg.pending : alg.pending[i] \in InStatus("queued")
    <3>1. \A i \in DOMAIN alg.pending : alg.pending[i] \in Jobs
      BY DEF FastInv, InLine
    <3> QED BY <3>1 DEF FastInv, InLine, InStatus
  <2>2. alg.priority # None => alg.priority \in InStatus("queued")
    BY DEF FastInv, InLine
  <2> QED BY <1>10, <1>11, <2>1, <2>2 DEF Line, PriorityWaits, FastInv, InLine
<1>13. \A i \in DOMAIN inbox.released : Waits(D, inbox.released[i])
  <2>1. \A i \in DOMAIN inbox.released : inbox.released[i] \in InStatus("released")
    <3>1. \A i \in DOMAIN inbox.released : inbox.released[i] \in Jobs
      BY DEF FastInv, Messages
    <3> QED BY <3>1 DEF FastInv, Messages, InStatus
  <2> QED BY <1>10, <2>1
<1> QED BY <1>3, <1>9, <1>11, <1>12, <1>13 DEF Queued
-----------------------------------------------------------------------------
(* Traversals of the queue.                                                 *)

\* R is reached after i jobs of c.queue: each of them was started or is left, in
\* the order of the queue, and the other jobs that waited still wait.
Traversed(c, i, R) ==
  /\ "d" \in DOMAIN R /\ "left" \in DOMAIN R
  /\ Deciding(R.d) /\ R.d.alg.priority = c.priority
  /\ Line(R.d, R.left)
  /\ \A k \in DOMAIN R.left : \E l \in 1..i : R.left[k] = c.queue[l]
  /\ \A j \in c.waits \ {c.queue[l] : l \in 1..i} : Waits(R.d, j)

\* What such a loop starts from: the queue, the priority job and the jobs that
\* wait in the decision D.
Waiting(D) == {j \in Jobs : Waits(D, j)}
Queue(D) == [queue |-> D.alg.pending, priority |-> D.alg.priority, waits |-> Waiting(D)]

\* The job at position i is left, or started if it fits.
LeavesOne(R, j, S) ==
  /\ "d" \in DOMAIN S /\ "left" \in DOMAIN S
  /\ \/ S.d = R.d /\ S.left = Append(R.left, j)
     \/ Fits(R.d.alg, j) /\ S.d = Start(R.d, j) /\ S.left = R.left

\* The list q with the job j behind.
LEMMA LineAppend ==
  ASSUME NEW D, NEW q, Line(D, q), NEW j, Waits(D, j), j # D.alg.priority,
         \A k \in DOMAIN q : q[k] # j
  PROVE  /\ Line(D, Append(q, j))
         /\ \A x : (\E k \in DOMAIN Append(q, j) : Append(q, j)[k] = x)
                     <=> x = j \/ \E k \in DOMAIN q : q[k] = x
<1>1. q \in Seq(Jobs) /\ j \in Jobs
  BY DEF Line, Waits, InStatus
<1> DEFINE r == Append(q, j)  n == Len(q)
<1>2. /\ r \in Seq(Jobs) /\ DOMAIN r = 1..(n + 1) /\ DOMAIN q = 1..n /\ n \in Nat
      /\ r[n + 1] = j /\ \A k \in 1..n : r[k] = q[k]
  BY <1>1
<1> HIDE DEF r, n
<1>3. \A k \in 1..(n + 1) : k = n + 1 \/ k \in 1..n
  BY <1>2
<1>4. Distinct(r)
  BY <1>2, <1>3 DEF Distinct, Line
<1>5. \A k \in DOMAIN r : Waits(D, r[k]) /\ r[k] # D.alg.priority
  BY <1>2, <1>3 DEF Line
<1>6. n + 1 \in DOMAIN r /\ \A k \in DOMAIN q : k \in DOMAIN r
  BY <1>2
<1>7. \A x : (\E k \in DOMAIN r : r[k] = x) <=> x = j \/ \E k \in DOMAIN q : q[k] = x
  BY <1>2, <1>3, <1>6
<1> QED BY <1>2, <1>4, <1>5, <1>7 DEF Line, r

\* One job more of a traversal of the queue.
LEMMA TraversalGoesOn ==
  ASSUME config \in Simulations, NEW c, NEW n \in Nat, DOMAIN c.queue = 1..n,
         Distinct(c.queue), \A k \in 1..n : c.queue[k] \in c.waits /\ c.queue[k] # c.priority,
         NEW i \in 1..n, NEW R, Traversed(c, i - 1, R), NEW S, LeavesOne(R, c.queue[i], S)
  PROVE  Traversed(c, i, S)
<1> DEFINE j == c.queue[i]
           before == {c.queue[l] : l \in 1..(i - 1)}
           upto == {c.queue[l] : l \in 1..i}
<1>1. j \in c.waits /\ j # c.priority /\ j \notin before
  <2>1. \A k \in 1..(i - 1) : k \in DOMAIN c.queue /\ i \in DOMAIN c.queue /\ k # i
    OBVIOUS
  <2> QED BY <2>1 DEF Distinct
<1>2. /\ upto = before \cup {j} /\ \A l \in 1..(i - 1) : l \in 1..i
      /\ i \in 1..i
  <2>1. 1..i = 1..(i - 1) \cup {i}
    OBVIOUS
  <2> QED BY <2>1
<1>3. Waits(R.d, j)
  BY <1>1 DEF Traversed
<1>4. \A k \in DOMAIN R.left : R.left[k] # j
  BY <1>1 DEF Traversed
<1>5. CASE S.d = R.d /\ S.left = Append(R.left, j)
  <2>1. /\ Line(R.d, S.left)
        /\ \A x : (\E k \in DOMAIN S.left : S.left[k] = x)
                    <=> x = j \/ \E k \in DOMAIN R.left : R.left[k] = x
    <3> Line(R.d, R.left) /\ R.d.alg.priority = c.priority
      BY DEF Traversed
    <3> HIDE DEF j
    <3> QED BY <1>1, <1>3, <1>4, <1>5, LineAppend
  <2>2. \A k \in DOMAIN S.left : \E l \in 1..i : S.left[k] = c.queue[l]
    <3>. TAKE k \in DOMAIN S.left
    <3>1. S.left[k] = j \/ \E m \in DOMAIN R.left : R.left[m] = S.left[k]
      BY <2>1
    <3> QED BY <3>1, <1>2 DEF Traversed
  <2> QED BY <1>2, <1>5, <2>1, <2>2 DEF Traversed, LeavesOne
<1>6. CASE Fits(R.d.alg, j) /\ S.d = Start(R.d, j) /\ S.left = R.left
  <2>1. HasStarted(S.d, R.d, j)
    <3> HIDE DEF j
    <3> QED BY <1>3, <1>6, StartDecides DEF Traversed
  <2>2. Line(S.d, S.left)
    BY <1>4, <1>6, <2>1 DEF Line, HasStarted, Traversed
  <2>3. \A x \in c.waits \ upto : Waits(S.d, x)
    BY <1>2, <2>1 DEF HasStarted, Traversed
  <2>4. \A k \in DOMAIN S.left : \E l \in 1..i : S.left[k] = c.queue[l]
    BY <1>2, <1>6 DEF Traversed
  <2> QED BY <2>1, <2>2, <2>3, <2>4 DEF Traversed, LeavesOne, HasStarted
<1> QED BY <1>5, <1>6 DEF LeavesOne

\* The jobs that wait and are not in the queue.
Outside(D) ==
  {j \in Jobs : Waits(D, j) /\ j # D.alg.priority
                /\ \A k \in DOMAIN D.alg.pending : D.alg.pending[k] # j}

\* E comes after D, and the jobs outside of the queue have not been touched.
Follows(E, D) == Queued(E) /\ Outside(D) \subseteq Outside(E)

\* A traversal starts with the whole queue in front of it.
LEMMA TraversalBegins ==
  ASSUME NEW D, Queued(D), NEW R, "d" \in DOMAIN R, "left" \in DOMAIN R,
         R.d = D, R.left = << >>
  PROVE  /\ Traversed(Queue(D), 0, R)
         /\ DOMAIN D.alg.pending = 1..Len(D.alg.pending) /\ Len(D.alg.pending) \in Nat
         /\ D.alg.pending \in Seq(Jobs) /\ Distinct(D.alg.pending)
         /\ \A k \in 1..Len(D.alg.pending) :
              Queue(D).queue[k] \in Queue(D).waits /\ Queue(D).queue[k] # Queue(D).priority
<1> DEFINE c == Queue(D)
<1>1. c.queue = D.alg.pending /\ c.priority = D.alg.priority /\ c.waits = Waiting(D)
  BY DEF Queue
<1> HIDE DEF c
<1>2. /\ DOMAIN D.alg.pending = 1..Len(D.alg.pending) /\ Len(D.alg.pending) \in Nat
      /\ D.alg.pending \in Seq(Jobs) /\ Distinct(D.alg.pending)
  BY DEF Queued, Line
<1>3. Line(R.d, R.left) /\ \A k \in DOMAIN R.left : FALSE
  BY DEF Line, Distinct
<1>4. \A j \in Waiting(D) : Waits(R.d, j)
  BY DEF Waiting
<1>5. Traversed(c, 0, R)
  BY <1>1, <1>3, <1>4 DEF Traversed, Queued
<1>6. \A k \in 1..Len(D.alg.pending) : c.queue[k] \in c.waits /\ c.queue[k] # c.priority
  BY <1>1, <1>2 DEF Queued, Line, Waiting, Waits, InStatus
<1> QED BY <1>2, <1>5, <1>6 DEF c

\* A traversal that is over has the queue it leaves.
LEMMA TraversalEnds ==
  ASSUME NEW D, Queued(D), NEW R, Traversed(Queue(D), Len(D.alg.pending), R),
         NEW E, E = [R.d EXCEPT !.alg.pending = R.left]
  PROVE  /\ Follows(E, D) /\ E.alg.priority = D.alg.priority /\ E.alg.pending = R.left
         /\ SameBooks(E.alg, R.d.alg)
<1> DEFINE c == Queue(D)
<1>1. c.queue = D.alg.pending /\ c.priority = D.alg.priority /\ c.waits = Waiting(D)
  BY DEF Queue
<1> HIDE DEF c
<1>2. Traversed(c, Len(D.alg.pending), R)
  BY DEF c
<1>3. DOMAIN R.d = DecisionFields /\ DOMAIN R.d.alg = AlgFields
  BY <1>2 DEF Traversed, Deciding, Sound, Fields
<1>4. SameDecisions(E, R.d) /\ E.alg.pending = R.left /\ E.alg.priority = c.priority
  BY <1>2, <1>3 DEF SameDecisions, SameBooks, DecisionFields, AlgFields, Traversed
<1>5. Deciding(E) /\ \A j : Waits(E, j) <=> Waits(R.d, j)
  BY <1>2, <1>4, SameDecisionsKeep DEF Traversed
<1>6. Line(E, E.alg.pending)
  BY <1>2, <1>4, <1>5 DEF Line, Traversed
<1>7. DOMAIN D.alg.pending = 1..Len(D.alg.pending)
  BY DEF Queued, Line
<1>8. \A j \in Waiting(D) : (\A k \in DOMAIN D.alg.pending : D.alg.pending[k] # j)
                              => Waits(E, j)
  BY <1>1, <1>2, <1>5, <1>7 DEF Traversed
<1>9. PriorityWaits(E)
  <2>1. D.alg.priority # None => D.alg.priority \in Waiting(D)
    BY DEF Queued, PriorityWaits, Waiting, Waits, InStatus
  <2>2. \A k \in DOMAIN D.alg.pending : D.alg.pending[k] # D.alg.priority
    BY DEF Queued, Line
  <2> QED BY <1>1, <1>4, <1>8, <2>1, <2>2 DEF PriorityWaits
<1>10. Outside(D) \subseteq Outside(E)
  <2>1. \A k \in DOMAIN E.alg.pending : \E l \in DOMAIN D.alg.pending :
          E.alg.pending[k] = D.alg.pending[l]
    BY <1>1, <1>2, <1>4, <1>7 DEF Traversed
  <2>2. \A j \in Outside(D) : j \in Waiting(D)
    BY DEF Outside, Waiting
  <2> QED BY <1>1, <1>4, <1>8, <2>1, <2>2 DEF Outside
<1> QED BY <1>1, <1>4, <1>5, <1>6, <1>9, <1>10 DEF Queued, Follows, SameDecisions

\* Backfilling.
BackfillPass(c, R, j) == BackfillOne(R, j)
BackfillLoop(c, i, R) == Traversed(c, i, R)
BL == INSTANCE Folding WITH Step <- BackfillPass, Inv <- BackfillLoop

\* Backfilling takes jobs out of the queue and keeps the order of the others.
LEMMA BackfillKeeps ==
  ASSUME config \in Simulations, NEW D, Queued(D)
  PROVE  Follows(Backfill(D), D)
<1> DEFINE c == Queue(D)  q == D.alg.pending  first == [d |-> D, left |-> << >>]
           E == FoldLeft(BackfillOne, first, q)
<1>1. c.queue = q
  BY DEF Queue
<1>2. first.d = D /\ first.left = << >> /\ "d" \in DOMAIN first /\ "left" \in DOMAIN first
  OBVIOUS
<1>3. BL!Folded(c, first, q) = E
  BY DEF BackfillPass, BL!Folded, FoldLeft, MapThenFoldSet, BL!FoldLeft,
         BL!MapThenFoldSet, BL!Max, Max
<1>4. Backfill(D) = [E.d EXCEPT !.alg.pending = E.left]
  BY DEF Backfill
<1> HIDE DEF c, q, first, E
<1>5. /\ Traversed(c, 0, first)
      /\ DOMAIN q = 1..Len(q) /\ Len(q) \in Nat /\ q \in Seq(Jobs) /\ Distinct(q)
      /\ \A k \in 1..Len(q) : c.queue[k] \in c.waits /\ c.queue[k] # c.priority
  BY <1>2, TraversalBegins DEF c, q
<1>6. ASSUME NEW i \in 1..Len(q), NEW R, Traversed(c, i - 1, R)
      PROVE  Traversed(c, i, BackfillPass(c, R, q[i]))
  <2> DEFINE S == BackfillPass(c, R, q[i])
  <2>1. "d" \in DOMAIN R /\ "left" \in DOMAIN R
    BY <1>6 DEF Traversed
  <2>2. LeavesOne(R, q[i], S)
    BY <2>1 DEF BackfillPass, BackfillOne, LeavesOne, MayStart
  <2> HIDE DEF S
  <2>3. Traversed(c, i, S)
    BY <1>1, <1>5, <1>6, <2>2, TraversalGoesOn
  <2> QED BY <2>3 DEF S
<1>7. BackfillLoop(c, Len(q), BL!Folded(c, first, q))
  <2>1. \A i \in 1..Len(q) : \A R : BackfillLoop(c, i - 1, R)
          => BackfillLoop(c, i, BackfillPass(c, R, q[i]))
    BY <1>6 DEF BackfillLoop
  <2>2. BackfillLoop(c, 0, first)
    BY <1>5 DEF BackfillLoop
  <2> QED BY <1>5, <2>1, <2>2, BL!LoopInvariant
<1>8. Traversed(Queue(D), Len(D.alg.pending), E)
  BY <1>3, <1>7 DEF BackfillLoop, c, q
<1> QED BY <1>4, <1>8, TraversalEnds

\* A share-packed job that finds no core means that no job fits.
LEMMA NothingFits ==
  ASSUME NEW a, Sound(a), NEW j, SharePacked(j), ~Fits(a, j), NEW k \in Jobs
  PROVE  ~Fits(a, k)
<1>0. Books(a)
  BY DEF Sound, Fields, SharePacked
<1>1. SharedSpot(a).kind = "none"
  BY DEF Fits, SpotFor
<1>2. /\ WithFreeCore(a, a.heldback) = {} /\ WithFreeCore(a, a.core_machines) = {}
      /\ ~(a.nb_available > 0)
  BY <1>1 DEF SharedSpot, Spot
<1>3. a.nb_available \in Nat /\ nb_requested_resources[k] \in Nat
      /\ nb_requested_resources[k] > 0
  BY <1>0, BooksTypes, PlatformAssumption, SimulationAssumption
<1>4. ~(nb_requested_resources[k] <= a.nb_available)
  BY <1>2, <1>3
<1>5. WholeSpot(a, k).kind = "none"
  BY <1>4 DEF WholeSpot, Spot
<1> QED BY <1>1, <1>5 DEF Fits, SpotFor

\* The list q is the end of the first n entries of p.
EndOf(p, n, q) ==
  Len(q) \in 0..n /\ \A k \in 1..Len(q) : q[k] = p[n - Len(q) + k]

\* The jobs that are left follow those that were started, because none fits any
\* more once a job is left.
InOrder(c, i, R) ==
  /\ "stop" \in DOMAIN R
  /\ EndOf(c.queue, i, R.left)
  /\ R.left # << >> => R.stop = TRUE \/ \A j \in Jobs : ~Fits(R.d.alg, j)

ExecutePass(c, R, j) == ExecuteOne(R, j)
ExecuteLoop(c, i, R) == Traversed(c, i, R) /\ InOrder(c, i, R) /\ R.stop \in BOOLEAN
XL == INSTANCE Folding WITH Step <- ExecutePass, Inv <- ExecuteLoop

\* One pass of the loop that starts jobs up to the next priority job.
LEMMA ExecutePassKeeps ==
  ASSUME config \in Simulations, NEW c, NEW n \in Nat, DOMAIN c.queue = 1..n,
         Distinct(c.queue), \A k \in 1..n : c.queue[k] \in c.waits /\ c.queue[k] # c.priority,
         NEW i \in 1..n, NEW R, ExecuteLoop(c, i - 1, R)
  PROVE  ExecuteLoop(c, i, ExecutePass(c, R, c.queue[i]))
<1> DEFINE j == c.queue[i]  S == ExecuteOne(R, j)
<1> SUFFICES ExecuteLoop(c, i, S)
  BY DEF ExecutePass
<1>0. j \in c.waits /\ j \notin {c.queue[l] : l \in 1..(i - 1)}
  <2>1. \A k \in 1..(i - 1) : k \in DOMAIN c.queue /\ i \in DOMAIN c.queue /\ k # i
    OBVIOUS
  <2> QED BY <2>1 DEF Distinct
<1>1. "d" \in DOMAIN R /\ "left" \in DOMAIN R /\ "stop" \in DOMAIN R /\ R.stop \in BOOLEAN
      /\ DOMAIN S = DOMAIN R
  BY DEF ExecuteLoop, Traversed, InOrder, ExecuteOne
<1>2. \/ S.d = R.d /\ S.left = Append(R.left, j) /\ S.stop = TRUE
      \/ /\ R.stop = FALSE /\ Fits(R.d.alg, j)
         /\ S.d = Start(R.d, j) /\ S.left = R.left /\ S.stop = R.stop
      \/ /\ SharePacked(j) /\ ~Fits(R.d.alg, j)
         /\ S.d = R.d /\ S.left = Append(R.left, j) /\ S.stop = R.stop
  <2>1. CASE R.stop \/ Blocks(R.d.alg, j)
    <3>1. S = [R EXCEPT !.stop = TRUE, !.left = Append(@, j)]
      BY <2>1 DEF ExecuteOne
    <3> QED BY <3>1, <1>1
  <2>2. CASE ~(R.stop \/ Blocks(R.d.alg, j)) /\ Fits(R.d.alg, j)
    <3>1. S = [R EXCEPT !.d = Start(@, j)]
      BY <2>2 DEF ExecuteOne
    <3> QED BY <3>1, <1>1, <2>2
  <2>3. CASE ~(R.stop \/ Blocks(R.d.alg, j)) /\ ~Fits(R.d.alg, j)
    <3>1. S = [R EXCEPT !.left = Append(@, j)]
      BY <2>3 DEF ExecuteOne
    <3> QED BY <3>1, <1>1, <2>3 DEF Blocks
  <2> QED BY <2>1, <2>2, <2>3
<1> HIDE DEF S
<1>3. LeavesOne(R, j, S)
  BY <1>1, <1>2 DEF LeavesOne
<1>4. Traversed(c, i, S)
  BY <1>3, TraversalGoesOn DEF ExecuteLoop
<1>5. R.left \in Seq(Jobs) /\ j \in Jobs
  <2>1. Waits(R.d, j)
    BY <1>0 DEF ExecuteLoop, Traversed
  <2> QED BY <2>1 DEF ExecuteLoop, Traversed, Line, Waits, InStatus
<1>8. ASSUME S.left = Append(R.left, j)
      PROVE  EndOf(c.queue, i, S.left)
  <2> DEFINE m == Len(R.left)
  <2>1. m \in 0..(i - 1) /\ \A k \in 1..m : R.left[k] = c.queue[(i - 1) - m + k]
    BY DEF ExecuteLoop, InOrder, EndOf
  <2>2. /\ Len(S.left) = m + 1 /\ m \in Nat
        /\ S.left[m + 1] = j /\ \A k \in 1..m : S.left[k] = R.left[k]
    BY <1>5, <1>8
  <2> HIDE DEF m
  <2>3. ASSUME NEW k \in 1..(m + 1) PROVE S.left[k] = c.queue[i - (m + 1) + k]
    <3>1. CASE k = m + 1
      <4>1. i - (m + 1) + k = i
        BY <2>2, <3>1
      <4> QED BY <2>2, <3>1, <4>1
    <3>2. CASE k \in 1..m
      <4>1. i - (m + 1) + k = (i - 1) - m + k
        BY <2>2
      <4> QED BY <2>1, <2>2, <3>2, <4>1
    <3> QED BY <2>2, <3>1, <3>2
  <2>4. m + 1 \in 0..i
    BY <2>1
  <2> QED BY <2>2, <2>3, <2>4 DEF EndOf
<1>9. CASE S.d = R.d /\ S.left = Append(R.left, j) /\ S.stop = TRUE
  BY <1>1, <1>4, <1>8, <1>9 DEF ExecuteLoop, InOrder
<1>10. CASE /\ SharePacked(j) /\ ~Fits(R.d.alg, j)
            /\ S.d = R.d /\ S.left = Append(R.left, j) /\ S.stop = R.stop
  <2>1. \A k \in Jobs : ~Fits(S.d.alg, k)
    <3> HIDE DEF j
    <3> QED BY <1>10, NothingFits DEF ExecuteLoop, Traversed, Deciding
  <2> QED BY <1>1, <1>4, <1>8, <1>10, <2>1 DEF ExecuteLoop, InOrder
<1>11. CASE /\ R.stop = FALSE /\ Fits(R.d.alg, j)
            /\ S.d = Start(R.d, j) /\ S.left = R.left /\ S.stop = R.stop
  <2>1. R.left = << >>
    BY <1>5, <1>11 DEF ExecuteLoop, InOrder
  <2>2. EndOf(c.queue, i, S.left)
    BY <1>11, <2>1 DEF EndOf
  <2> QED BY <1>1, <1>4, <1>11, <2>1, <2>2 DEF ExecuteLoop, InOrder
<1> QED BY <1>2, <1>9, <1>10, <1>11

\* The jobs of the queue are started in order, up to the first that does not fit.
LEMMA ExecuteKeeps ==
  ASSUME config \in Simulations, NEW D, Queued(D), NEW G, G = ExecuteQueue(D)
  PROVE  /\ Follows(G, D) /\ G.alg.priority = D.alg.priority
         /\ EndOf(D.alg.pending, Len(D.alg.pending), G.alg.pending)
         /\ ToSet(G.alg.pending) \subseteq ToSet(D.alg.pending)
<1> DEFINE c == Queue(D)  q == D.alg.pending
           first == [d |-> D, left |-> << >>, stop |-> FALSE]
           E == FoldLeft(ExecuteOne, first, q)
<1>1. c.queue = q
  BY DEF Queue
<1>2. /\ first.d = D /\ first.left = << >> /\ first.stop = FALSE
      /\ "d" \in DOMAIN first /\ "left" \in DOMAIN first /\ "stop" \in DOMAIN first
  OBVIOUS
<1>3. XL!Folded(c, first, q) = E
  BY DEF ExecutePass, XL!Folded, FoldLeft, MapThenFoldSet, XL!FoldLeft,
         XL!MapThenFoldSet, XL!Max, Max
<1>4. G = [E.d EXCEPT !.alg.pending = E.left]
  BY DEF ExecuteQueue
<1> HIDE DEF c, q, first, E
<1>5. /\ Traversed(c, 0, first)
      /\ DOMAIN q = 1..Len(q) /\ Len(q) \in Nat /\ q \in Seq(Jobs) /\ Distinct(q)
      /\ \A k \in 1..Len(q) : c.queue[k] \in c.waits /\ c.queue[k] # c.priority
  BY <1>2, TraversalBegins DEF c, q
<1>6. ExecuteLoop(c, 0, first)
  <2>1. EndOf(c.queue, 0, first.left)
    BY <1>2 DEF EndOf
  <2> QED BY <1>2, <1>5, <2>1 DEF ExecuteLoop, InOrder
<1>7. ExecuteLoop(c, Len(q), XL!Folded(c, first, q))
  <2>1. \A i \in 1..Len(q) : \A R : ExecuteLoop(c, i - 1, R)
          => ExecuteLoop(c, i, ExecutePass(c, R, q[i]))
    BY <1>1, <1>5, ExecutePassKeeps
  <2> QED BY <1>5, <1>6, <2>1, XL!LoopInvariant
<1>8. Traversed(Queue(D), Len(D.alg.pending), E) /\ EndOf(q, Len(q), E.left)
  BY <1>1, <1>3, <1>7 DEF ExecuteLoop, InOrder, c, q
<1>9. /\ Follows(G, D) /\ G.alg.priority = D.alg.priority /\ G.alg.pending = E.left
  <2>1. Traversed(Queue(D), Len(D.alg.pending), E)
    BY <1>8
  <2>2. /\ Follows(G, D) /\ G.alg.priority = D.alg.priority /\ G.alg.pending = E.left
        /\ SameBooks(G.alg, E.d.alg)
    BY <1>4, <2>1, TraversalEnds
  <2> QED BY <2>2
<1>10. \A j \in ToSet(G.alg.pending) : j \in ToSet(D.alg.pending)
  BY <1>1, <1>5, <1>8, <1>9 DEF Traversed, ToSet, c, q
<1> QED BY <1>8, <1>9, <1>10 DEF q
-----------------------------------------------------------------------------
(* A job outside of the queue is started, becomes the priority job, or is   *)
(* put in the queue; the job at the head of the queue is taken out of it.   *)

\* Starting a job that is not in the queue.
LEMMA StartOutside ==
  ASSUME config \in Simulations, NEW D, Queued(D), NEW j \in Outside(D), Fits(D.alg, j),
         NEW E, E = Start(D, j)
  PROVE  /\ Queued(E) /\ Outside(D) \ {j} \subseteq Outside(E)
         /\ E.alg.pending = D.alg.pending /\ E.alg.priority = D.alg.priority
<1>1. HasStarted(E, D, j)
  BY StartDecides DEF Queued, Outside
<1>2. Line(E, E.alg.pending)
  BY <1>1 DEF HasStarted, Line, Queued, Outside
<1>3. PriorityWaits(E)
  BY <1>1 DEF HasStarted, PriorityWaits, Queued, Outside
<1>4. Outside(D) \ {j} \subseteq Outside(E)
  BY <1>1 DEF HasStarted, Outside
<1> QED BY <1>1, <1>2, <1>3, <1>4 DEF Queued, HasStarted

\* Making a job that is not in the queue the priority job.
LEMMA PriorityOutside ==
  ASSUME NEW D, Queued(D), NEW j \in Outside(D), D.alg.priority = None,
         NEW E, E = BecomePriority(D, j)
  PROVE  /\ Queued(E) /\ Outside(D) \ {j} \subseteq Outside(E)
         /\ E.alg.pending = D.alg.pending /\ E.alg.priority = j
<1>1. DOMAIN D = DecisionFields /\ DOMAIN D.alg = AlgFields
  BY DEF Queued, Deciding, Sound, Fields
<1>2. SameDecisions(E, D) /\ E.alg.pending = D.alg.pending /\ E.alg.priority = j
  BY <1>1 DEF BecomePriority, SameDecisions, SameBooks, DecisionFields, AlgFields
<1>3. Deciding(E) /\ \A k : Waits(E, k) <=> Waits(D, k)
  BY <1>2, SameDecisionsKeep DEF Queued
<1>4. Line(E, E.alg.pending)
  BY <1>2, <1>3 DEF Line, Queued, Outside
<1>5. PriorityWaits(E)
  BY <1>2, <1>3 DEF PriorityWaits, Outside
<1>6. Outside(D) \ {j} \subseteq Outside(E)
  BY <1>2, <1>3 DEF Outside
<1> QED BY <1>2, <1>3, <1>4, <1>5, <1>6 DEF Queued

\* The list r has the entries of q and the job j.
Adds(r, q, j) ==
  \A x : (\E k \in DOMAIN r : r[k] = x) <=> x = j \/ \E k \in DOMAIN q : q[k] = x

\* The list q with the job j in front.
LEMMA LineAhead ==
  ASSUME NEW D, NEW q, Line(D, q), NEW j, Waits(D, j), j # D.alg.priority,
         \A k \in DOMAIN q : q[k] # j, NEW r, r = <<j>> \o q
  PROVE  /\ Line(D, r)
         /\ Adds(r, q, j)
<1>1. q \in Seq(Jobs) /\ j \in Jobs
  BY DEF Line, Waits, InStatus
<1> DEFINE n == Len(q)
<1>2. /\ r \in Seq(Jobs) /\ DOMAIN r = 1..(n + 1) /\ DOMAIN q = 1..n /\ n \in Nat
      /\ r[1] = j /\ \A k \in 1..n : r[k + 1] = q[k]
  BY <1>1
<1> HIDE DEF n
<1>3. \A k \in DOMAIN r : k = 1 \/ \E m \in DOMAIN q : k = m + 1 /\ r[k] = q[m]
  <2>. SUFFICES ASSUME NEW k \in 1..(n + 1), k # 1
                PROVE  \E m \in DOMAIN q : k = m + 1 /\ r[k] = q[m]
    BY <1>2
  <2>1. k - 1 \in 1..n /\ (k - 1) + 1 = k
    BY <1>2
  <2>2. r[(k - 1) + 1] = q[k - 1]
    BY <1>2, <2>1
  <2> QED BY <1>2, <2>1, <2>2
<1>4. Distinct(r)
  <2>. SUFFICES ASSUME NEW k \in DOMAIN r, NEW l \in DOMAIN r, r[k] = r[l]
                PROVE  k = l
    BY DEF Distinct
  <2>1. CASE k = 1 /\ l = 1
    BY <2>1
  <2>2. CASE k # 1
    <3>1. PICK m \in DOMAIN q : k = m + 1 /\ r[k] = q[m]
      BY <1>3, <2>2
    <3>2. l # 1
      BY <1>2, <3>1
    <3>3. PICK o \in DOMAIN q : l = o + 1 /\ r[l] = q[o]
      BY <1>3, <3>2
    <3> QED BY <3>1, <3>3 DEF Line, Distinct
  <2>3. CASE l # 1 /\ k = 1
    <3>1. PICK o \in DOMAIN q : l = o + 1 /\ r[l] = q[o]
      BY <1>3, <2>3
    <3> QED BY <1>2, <2>3, <3>1
  <2> QED BY <2>1, <2>2, <2>3
<1>5. \A k \in DOMAIN r : Waits(D, r[k]) /\ r[k] # D.alg.priority
  <2>. TAKE k \in DOMAIN r
  <2>1. CASE k = 1
    BY <1>2, <2>1
  <2>2. CASE k # 1
    BY <1>3, <2>2 DEF Line
  <2> QED BY <2>1, <2>2
<1>6. 1 \in DOMAIN r /\ \A k \in DOMAIN q : k + 1 \in DOMAIN r /\ r[k + 1] = q[k]
  BY <1>2
<1>7. ASSUME NEW x
      PROVE  (\E k \in DOMAIN r : r[k] = x) <=> x = j \/ \E k \in DOMAIN q : q[k] = x
  <2>1. ASSUME NEW k \in DOMAIN r, r[k] = x PROVE x = j \/ \E m \in DOMAIN q : q[m] = x
    <3>1. CASE k = 1
      BY <1>2, <2>1, <3>1
    <3>2. CASE k # 1
      BY <1>3, <2>1, <3>2
    <3> QED BY <3>1, <3>2
  <2>2. x = j => \E k \in DOMAIN r : r[k] = x
    BY <1>2, <1>6
  <2>3. (\E m \in DOMAIN q : q[m] = x) => \E k \in DOMAIN r : r[k] = x
    BY <1>6
  <2> QED BY <2>1, <2>2, <2>3
<1> QED BY <1>2, <1>4, <1>5, <1>7 DEF Line, Adds

\* Appending a job that is not in the queue.
LEMMA EnqueueOutside ==
  ASSUME NEW D, Queued(D), NEW j \in Outside(D), NEW E, E = Enqueue(D, j)
  PROVE  /\ Queued(E) /\ Outside(D) \ {j} \subseteq Outside(E)
         /\ E.alg.priority = D.alg.priority
         /\ Adds(E.alg.pending, D.alg.pending, j)
<1>1. DOMAIN D = DecisionFields /\ DOMAIN D.alg = AlgFields
  BY DEF Queued, Deciding, Sound, Fields
<1> DEFINE q == D.alg.pending
<1>2. /\ SameDecisions(E, D) /\ E.alg.priority = D.alg.priority
      /\ E.alg.pending = Append(q, j) \/ E.alg.pending = <<j>> \o q
  BY <1>1 DEF Enqueue, SameDecisions, SameBooks, DecisionFields, AlgFields
<1>3. Deciding(E) /\ \A k : Waits(E, k) <=> Waits(D, k)
  BY <1>2, SameDecisionsKeep DEF Queued
<1>4. /\ Line(D, E.alg.pending)
      /\ Adds(E.alg.pending, q, j)
  <2>1. Line(D, q) /\ Waits(D, j) /\ j # D.alg.priority /\ \A k \in DOMAIN q : q[k] # j
    BY DEF Queued, Outside
  <2> HIDE DEF q
  <2>2. CASE E.alg.pending = Append(q, j)
    BY <2>1, <2>2, LineAppend DEF Adds
  <2>3. CASE E.alg.pending = <<j>> \o q
    BY <2>1, <2>3, LineAhead
  <2> QED BY <1>2, <2>2, <2>3
<1>5. Line(E, E.alg.pending)
  BY <1>2, <1>3, <1>4 DEF Line
<1>6. PriorityWaits(E)
  BY <1>2, <1>3 DEF PriorityWaits, Queued
<1>7. Outside(D) \ {j} \subseteq Outside(E)
  BY <1>2, <1>3, <1>4 DEF Outside, Adds
<1> QED BY <1>2, <1>3, <1>4, <1>5, <1>6, <1>7 DEF Queued

\* E is D with the queue without its head.
WithoutHead(E, D) == E = [D EXCEPT !.alg.pending = Tail(@)]

\* The job at the head of the queue is outside when the queue loses it.
LEMMA HeadOutside ==
  ASSUME NEW D, Queued(D), D.alg.pending # << >>,
         NEW E, WithoutHead(E, D)
  PROVE  /\ Queued(E) /\ Outside(D) \subseteq Outside(E) /\ D.alg.pending[1] \in Outside(E)
         /\ D.alg.pending[1] \notin Outside(D)
         /\ E.alg.pending = Tail(D.alg.pending) /\ E.alg.priority = D.alg.priority
<1>1. DOMAIN D = DecisionFields /\ DOMAIN D.alg = AlgFields
  BY DEF Queued, Deciding, Sound, Fields
<1> DEFINE q == D.alg.pending  n == Len(q)
<1>2. /\ SameDecisions(E, D) /\ E.alg.priority = D.alg.priority /\ E.alg.pending = Tail(q)
  BY <1>1 DEF SameDecisions, SameBooks, DecisionFields, AlgFields, WithoutHead
<1>3. Deciding(E) /\ \A k : Waits(E, k) <=> Waits(D, k)
  BY <1>2, SameDecisionsKeep DEF Queued
<1>4. q \in Seq(Jobs) /\ Distinct(q) /\ q # << >>
  BY DEF Queued, Line
<1> DEFINE r == Tail(q)
<1>5. /\ n \in Nat /\ n > 0 /\ DOMAIN q = 1..n /\ DOMAIN r = 1..(n - 1) /\ r \in Seq(Jobs)
      /\ \A k \in 1..(n - 1) : r[k] = q[k + 1]
  BY <1>4
<1> HIDE DEF r, n, q
<1>6. \A k \in 1..(n - 1) : k + 1 \in 1..n /\ k + 1 # 1
  BY <1>5
<1>7. Distinct(r)
  <2>. SUFFICES ASSUME NEW k \in 1..(n - 1), NEW l \in 1..(n - 1), r[k] = r[l]
                PROVE  k = l
    BY <1>5 DEF Distinct
  <2>1. k + 1 = l + 1
    BY <1>4, <1>5, <1>6 DEF Distinct
  <2>2. k \in Int /\ l \in Int
    BY <1>5
  <2> QED BY <2>1, <2>2
<1>8. 1 \in DOMAIN q /\ \A k \in DOMAIN r : r[k] # q[1]
  <2>1. 1 \in DOMAIN q
    BY <1>5
  <2>2. ASSUME NEW k \in 1..(n - 1) PROVE r[k] # q[1]
    <3>1. r[k] = q[k + 1] /\ k + 1 \in DOMAIN q /\ k + 1 # 1
      BY <1>5, <1>6
    <3> QED BY <1>4, <2>1, <3>1 DEF Distinct
  <2> QED BY <1>5, <2>1, <2>2
<1>9. \A k \in DOMAIN r : \E l \in DOMAIN q : r[k] = q[l]
  BY <1>5, <1>6
<1>10. \A l \in DOMAIN q : Waits(D, q[l]) /\ q[l] # D.alg.priority /\ q[l] \in Jobs
  BY <1>4, <1>5 DEF Queued, Line, q
<1>11. E.alg.pending = r
  BY <1>2 DEF r
<1>12. Line(E, r) /\ PriorityWaits(E)
  BY <1>2, <1>3, <1>5, <1>7, <1>9, <1>10 DEF Line, PriorityWaits, Queued
<1>13. Outside(D) \subseteq Outside(E) /\ q[1] \in Outside(E) /\ q[1] \notin Outside(D)
  BY <1>2, <1>3, <1>8, <1>9, <1>10, <1>11 DEF Outside, q
<1> QED BY <1>2, <1>3, <1>11, <1>12, <1>13 DEF Queued, r, q

\* The jobs of the queue are started in order, until one does not fit: it becomes
\* the priority job.  So far i of them have been looked at.
WaitPass(c, R, j) == ExecuteOrWait(R, j)
WaitLoop(c, i, R) ==
  /\ Queued(R) /\ c.outside \subseteq Outside(R)
  /\ R.alg.priority = None =>
       /\ Len(R.alg.pending) = Len(c.queue) - i
       /\ \A k \in 1..Len(R.alg.pending) : R.alg.pending[k] = c.queue[k + i]
WL == INSTANCE Folding WITH Step <- WaitPass, Inv <- WaitLoop

\* One pass of the loop in which jobs only wait.
LEMMA WaitPassKeeps ==
  ASSUME config \in Simulations, NEW c, NEW n \in Nat, Len(c.queue) = n,
         NEW i \in 1..n, NEW R, WaitLoop(c, i - 1, R), NEW S, S = WaitPass(c, R, c.queue[i])
  PROVE  WaitLoop(c, i, S)
<1> DEFINE j == c.queue[i]  q == R.alg.pending  B == [R EXCEPT !.alg.pending = Tail(@)]
<1>1. CASE R.alg.priority # None
  BY <1>1 DEF WaitLoop, WaitPass, ExecuteOrWait
<1>2. CASE R.alg.priority = None
  <2>1. Queued(R) /\ q \in Seq(Jobs) /\ Len(q) = n - (i - 1)
        /\ (\A k \in 1..Len(q) : q[k] = c.queue[k + (i - 1)]) /\ c.outside \subseteq Outside(R)
    BY <1>2 DEF WaitLoop, Queued, Line
  <2>2. Len(q) \in Nat /\ Len(q) > 0 /\ q # << >> /\ 1 \in 1..Len(q)
    BY <2>1
  <2>3. q[1] = j
    <3>1. q[1] = c.queue[1 + (i - 1)] /\ 1 + (i - 1) = i
      BY <2>1, <2>2
    <3> QED BY <3>1
  <2>4. /\ Queued(B) /\ Outside(R) \subseteq Outside(B) /\ q[1] \in Outside(B)
        /\ q[1] \notin Outside(R)
        /\ B.alg.pending = Tail(q) /\ B.alg.priority = R.alg.priority
    <3>1. WithoutHead(B, R)
      BY DEF WithoutHead
    <3> HIDE DEF B
    <3> QED BY <2>1, <2>2, <3>1, HeadOutside
  <2>5. /\ Len(Tail(q)) = n - i
        /\ \A k \in 1..Len(Tail(q)) : Tail(q)[k] = c.queue[k + i]
    <3>1. Len(Tail(q)) = n - i /\ n - i \in Nat
      BY <2>1, <2>2
    <3>2. ASSUME NEW k \in 1..Len(Tail(q)) PROVE Tail(q)[k] = c.queue[k + i]
      <4>1. k \in Nat /\ k + 1 \in 1..Len(q) /\ (k + 1) + (i - 1) = k + i
        BY <2>1, <2>2, <3>1
      <4>2. Tail(q)[k] = q[k + 1]
        BY <2>1, <2>2
      <4> QED BY <2>1, <4>1, <4>2
    <3> QED BY <3>1, <3>2
  <2>6. S = IF Fits(R.alg, j) THEN Start(B, j) ELSE BecomePriority(B, j)
    BY <1>2 DEF WaitPass, ExecuteOrWait
  <2>7. Fits(R.alg, j) <=> Fits(B.alg, j)
    <3>1. DOMAIN R = DecisionFields /\ DOMAIN R.alg = AlgFields
      BY <2>1 DEF Queued, Deciding, Sound, Fields
    <3>2. /\ B.alg.heldback = R.alg.heldback /\ B.alg.core_machines = R.alg.core_machines
          /\ B.alg.nb_available = R.alg.nb_available /\ B.alg.cores = R.alg.cores
          /\ B.alg.available = R.alg.available
      BY <3>1 DEF DecisionFields, AlgFields
    <3>3. \A M : WithFreeCore(B.alg, M) = WithFreeCore(R.alg, M)
      BY <3>2 DEF WithFreeCore
    <3> HIDE DEF B, j
    <3>4. SharedSpot(B.alg) = SharedSpot(R.alg)
      BY <3>2, <3>3 DEF SharedSpot
    <3>5. WholeSpot(B.alg, j) = WholeSpot(R.alg, j)
      BY <3>2 DEF WholeSpot
    <3> QED BY <3>4, <3>5 DEF Fits, SpotFor
  <2> HIDE DEF B, j, q
  <2>8. j \in Outside(B) /\ c.outside \subseteq Outside(B) \ {j}
    BY <2>1, <2>3, <2>4
  <2>9. CASE Fits(B.alg, j)
    <3>1. S = Start(B, j)
      BY <2>6, <2>7, <2>9
    <3>2. /\ Queued(S) /\ Outside(B) \ {j} \subseteq Outside(S)
          /\ S.alg.pending = B.alg.pending /\ S.alg.priority = B.alg.priority
      BY <2>4, <2>8, <2>9, <3>1, StartOutside
    <3> QED BY <2>4, <2>5, <2>8, <3>2 DEF WaitLoop, q
  <2>10. CASE ~Fits(B.alg, j)
    <3>1. S = BecomePriority(B, j)
      BY <2>6, <2>7, <2>10
    <3>2. /\ Queued(S) /\ Outside(B) \ {j} \subseteq Outside(S)
          /\ S.alg.pending = B.alg.pending /\ S.alg.priority = j
      BY <1>2, <2>4, <2>8, <3>1, PriorityOutside
    <3>3. j # None
      BY <2>8, FastAssumption DEF Outside
    <3> QED BY <2>8, <3>2, <3>3 DEF WaitLoop
  <2> QED BY <2>9, <2>10
<1> QED BY <1>1, <1>2

\* Without a priority job the queue is started from its head to the next one.
LEMMA ExecuteToPriorityKeeps ==
  ASSUME config \in Simulations, NEW D, Queued(D), D.alg.priority = None
  PROVE  Follows(ExecuteToPriority(D), D)
<1> DEFINE q == D.alg.pending  c == [queue |-> q, outside |-> Outside(D)]
           E == ExecuteToPriority(D)
<1>1. c.queue = q /\ c.outside = Outside(D)
  OBVIOUS
<1>2. WL!Folded(c, D, q) = E
  BY DEF WaitPass, ExecuteToPriority, WL!Folded, FoldLeft, MapThenFoldSet, WL!FoldLeft,
         WL!MapThenFoldSet, WL!Max, Max
<1> HIDE DEF c, E
<1>3. q \in Seq(Jobs) /\ Len(q) \in Nat
  BY DEF Queued, Line
<1>4. WaitLoop(c, 0, D)
  <2>1. Len(q) = Len(q) - 0 /\ \A k \in 1..Len(q) : k + 0 = k
    BY <1>3
  <2> QED BY <1>1, <2>1 DEF WaitLoop
<1> HIDE DEF q
<1>5. \A i \in 1..Len(q) : \A R : WaitLoop(c, i - 1, R) => WaitLoop(c, i, WaitPass(c, R, q[i]))
  BY <1>1, <1>3, WaitPassKeeps
<1>6. WaitLoop(c, Len(q), WL!Folded(c, D, q))
  BY <1>3, <1>4, <1>5, WL!LoopInvariant
<1> QED BY <1>1, <1>2, <1>6 DEF WaitLoop, Follows, E

\* The priority job is started, and the jobs behind it.
LEMMA StartPriorityKeeps ==
  ASSUME config \in Simulations, ~Fcfs, NEW D, Queued(D), D.alg.priority # None
  PROVE  Follows(StartPriority(D), D)
<1> DEFINE p == D.alg.priority  S == Start(D, p)
           E == [S EXCEPT !.alg.priority = None,
                          !.alg.running = IF SharePacked(p) THEN @ ELSE @ \ {p}]
<1>1. CASE ~Fits(D.alg, p)
  <2>1. StartPriority(D) = D
    BY <1>1 DEF StartPriority
  <2> QED BY <2>1 DEF Follows
<1>2. CASE Fits(D.alg, p)
  <2>1. StartPriority(D) = ExecuteToPriority(E)
    BY <1>2 DEF StartPriority
  <2>2. Waits(D, p)
    BY DEF Queued, PriorityWaits
  <2>3. HasStarted(S, D, p)
    <3> HIDE DEF p
    <3> QED BY <1>2, <2>2, StartDecides DEF Queued
  <2> HIDE DEF S
  <2>4. DOMAIN S = DecisionFields /\ DOMAIN S.alg = AlgFields
    BY <2>3 DEF HasStarted, Deciding, Sound, Fields
  <2>5. SameDecisions(E, S) /\ E.alg.priority = None /\ E.alg.pending = S.alg.pending
    BY <2>4 DEF SameDecisions, SameBooks, DecisionFields, AlgFields
  <2> HIDE DEF E
  <2>6. Deciding(E) /\ \A k : Waits(E, k) <=> Waits(D, k) /\ k # p
    BY <2>3, <2>5, SameDecisionsKeep DEF HasStarted
  <2>7. E.alg.pending = D.alg.pending
    BY <2>3, <2>5 DEF HasStarted
  <2>8. Line(E, E.alg.pending) /\ PriorityWaits(E)
    <3>1. \A k \in DOMAIN D.alg.pending : D.alg.pending[k] # None
      BY FastAssumption DEF Queued, Line
    <3> QED BY <2>5, <2>6, <2>7, <3>1 DEF Line, PriorityWaits, Queued
  <2>9. Outside(D) \subseteq Outside(E)
    BY <2>5, <2>6, <2>7, FastAssumption DEF Outside
  <2>10. Follows(ExecuteToPriority(E), E)
    BY <2>5, <2>6, <2>8, ExecuteToPriorityKeeps DEF Queued
  <2> QED BY <2>1, <2>9, <2>10 DEF Follows
<1> QED BY <1>1, <1>2
-----------------------------------------------------------------------------
(* The jobs that have been released.                                        *)

\* The job x is in the queue.
InQueue(D, x) == \E k \in DOMAIN D.alg.pending : D.alg.pending[k] = x

\* Rejecting a job that is not in the queue.
LEMMA RejectOutside ==
  ASSUME NEW D, Queued(D), NEW j \in Outside(D), status[j] = "released",
         NEW E, E = [D EXCEPT !.rejected = @ \cup {j}]
  PROVE  /\ Queued(E) /\ Outside(D) \ {j} \subseteq Outside(E)
         /\ \A x : InQueue(E, x) <=> InQueue(D, x)
<1>1. DOMAIN D = DecisionFields
  BY DEF Queued, Deciding
<1>2. /\ DOMAIN E = DecisionFields /\ E.alg = D.alg /\ E.executed = D.executed
      /\ E.kill = D.kill /\ E.calls = D.calls /\ E.rejected = D.rejected \cup {j}
  BY <1>1 DEF DecisionFields
<1>3. j \in InStatus("released") \ DOMAIN D.executed
  BY DEF Outside, Waits, InStatus
<1>4. Deciding(E)
  BY <1>2, <1>3 DEF Deciding, Queued
<1>5. \A k : Waits(E, k) <=> Waits(D, k) /\ k # j
  BY <1>2 DEF Waits
<1>6. Line(E, E.alg.pending) /\ PriorityWaits(E)
  BY <1>2, <1>5 DEF Queued, Line, PriorityWaits, Outside
<1>7. Outside(D) \ {j} \subseteq Outside(E)
  BY <1>2, <1>5 DEF Outside
<1> QED BY <1>2, <1>4, <1>6, <1>7 DEF Queued, InQueue

\* The job j is started, rejected, made the priority job or put in the queue.
ReleasePass(c, D, j) == ReleaseOne(D, j)

\* What becomes of a released job: rejected, started, priority job or queued.
LEMMA ReleaseOutside ==
  ASSUME config \in Simulations, NEW D, Queued(D), NEW j \in Outside(D),
         status[j] = "released", NEW E, E = ReleaseOne(D, j)
  PROVE  /\ Queued(E) /\ Outside(D) \ {j} \subseteq Outside(E)
         /\ \A x : x # j => (InQueue(E, x) <=> InQueue(D, x))
<1>1. CASE E = [D EXCEPT !.rejected = @ \cup {j}]
  BY <1>1, RejectOutside
<1>2. CASE Fits(D.alg, j) /\ E = Start(D, j)
  BY <1>2, StartOutside DEF InQueue
<1>3. CASE D.alg.priority = None /\ E = BecomePriority(D, j)
  BY <1>3, PriorityOutside DEF InQueue
<1>4. CASE E = Enqueue(D, j)
  BY <1>4, EnqueueOutside DEF InQueue, Adds
<1> QED BY <1>1, <1>2, <1>3, <1>4 DEF ReleaseOne, FcfsReleased, EasyReleased, MayStart

\* The jobs that follow the first i of the list c.released are still outside of
\* the queue, and the other jobs have not entered or left it.
ReleaseLoop(c, i, D) ==
  /\ Queued(D)
  /\ \A k \in (i + 1)..Len(c.released) : c.released[k] \in Outside(D)
  /\ \A x : x \notin ToSet(c.released) => (InQueue(D, x) <=> InQueue(c.first, x))
RL == INSTANCE Folding WITH Step <- ReleasePass, Inv <- ReleaseLoop

\* The released jobs, in the order of their submission.
LEMMA ReleasesKeep ==
  ASSUME FastInv, NEW D, Queued(D),
         \A k \in DOMAIN inbox.released : inbox.released[k] \in Outside(D),
         NEW E, E = handle_newly_released_jobs(D)
  PROVE  /\ Queued(E)
         /\ \A x : x \notin ToSet(inbox.released) => (InQueue(E, x) <=> InQueue(D, x))
<1> DEFINE q == inbox.released  c == [released |-> q, first |-> D]
<1>1. c.released = q /\ c.first = D
  OBVIOUS
<1>2. RL!Folded(c, D, q) = E
  BY DEF ReleasePass, handle_newly_released_jobs, RL!Folded, FoldLeft, MapThenFoldSet,
         RL!FoldLeft, RL!MapThenFoldSet, RL!Max, Max
<1> HIDE DEF c
<1>3. /\ config \in Simulations /\ q \in Seq(Jobs) /\ Distinct(q)
      /\ DOMAIN q = 1..Len(q) /\ Len(q) \in Nat
      /\ \A k \in DOMAIN q : status[q[k]] = "released"
  BY DEF FastInv, Messages
<1>4. ReleaseLoop(c, 0, D)
  <2>1. \A k \in (0 + 1)..Len(q) : k \in DOMAIN q
    BY <1>3
  <2> QED BY <1>1, <2>1 DEF ReleaseLoop
<1>5. ASSUME NEW i \in 1..Len(q), NEW R, ReleaseLoop(c, i - 1, R)
      PROVE  ReleaseLoop(c, i, ReleasePass(c, R, q[i]))
  <2> DEFINE S == ReleaseOne(R, q[i])
  <2> HIDE DEF q
  <2>1. Queued(R) /\ \A k \in ((i - 1) + 1)..Len(q) : q[k] \in Outside(R)
    BY <1>1, <1>5 DEF ReleaseLoop
  <2>2. i \in ((i - 1) + 1)..Len(q) /\ i \in DOMAIN q
    BY <1>3
  <2>3. q[i] \in Outside(R) /\ status[q[i]] = "released"
    BY <1>3, <2>1, <2>2
  <2>4. /\ Queued(S) /\ Outside(R) \ {q[i]} \subseteq Outside(S)
        /\ \A x : x # q[i] => (InQueue(S, x) <=> InQueue(R, x))
    BY <1>3, <2>1, <2>3, ReleaseOutside
  <2> HIDE DEF S
  <2>5. ASSUME NEW k \in (i + 1)..Len(q) PROVE q[k] \in Outside(S)
    <3>1. k \in ((i - 1) + 1)..Len(q) /\ k \in DOMAIN q /\ k # i
      BY <1>3
    <3>2. q[k] # q[i]
      BY <1>3, <2>2, <3>1 DEF Distinct
    <3> QED BY <2>1, <2>4, <3>1, <3>2
  <2>6. q[i] \in ToSet(q)
    BY <2>2 DEF ToSet
  <2>7. \A x : x \notin ToSet(q) => (InQueue(S, x) <=> InQueue(c.first, x))
    BY <1>1, <1>5, <2>4, <2>6 DEF ReleaseLoop
  <2> QED BY <1>1, <2>4, <2>5, <2>7 DEF ReleaseLoop, ReleasePass, S
<1>6. ReleaseLoop(c, Len(q), RL!Folded(c, D, q))
  <2>1. \A i \in 1..Len(q) : \A R : ReleaseLoop(c, i - 1, R)
           => ReleaseLoop(c, i, ReleasePass(c, R, q[i]))
    BY <1>5
  <2> HIDE DEF q
  <2> QED BY <1>3, <1>4, <2>1, RL!LoopInvariant
<1> QED BY <1>1, <1>2, <1>6 DEF ReleaseLoop
-----------------------------------------------------------------------------
(* The decision.                                                            *)

\* The list r is the end of the list q, which is the end of the list p.
LEMMA EndOfEnd ==
  ASSUME NEW p \in Seq(Jobs), NEW q \in Seq(Jobs), NEW r \in Seq(Jobs),
         EndOf(p, Len(p), q), EndOf(q, Len(q), r)
  PROVE  EndOf(p, Len(p), r)
<1> DEFINE l == Len(p)  m == Len(q)  n == Len(r)
<1>1. /\ l \in Nat /\ m \in 0..l /\ n \in 0..m
      /\ \A k \in 1..m : q[k] = p[l - m + k]
      /\ \A k \in 1..n : r[k] = q[m - n + k]
  BY DEF EndOf
<1> HIDE DEF l, m, n
<1>2. ASSUME NEW k \in 1..n PROVE r[k] = p[l - n + k]
  <2>1. m - n + k \in 1..m /\ l - m + (m - n + k) = l - n + k
    BY <1>1
  <2>2. q[m - n + k] = p[l - m + (m - n + k)]
    BY <1>1, <2>1
  <2> QED BY <1>1, <2>1, <2>2
<1>3. n \in 0..l
  BY <1>1
<1> QED BY <1>2, <1>3 DEF EndOf, l, n

\* The jobs of the queue that are started are those at its head.
InTurn(D) == EndOf(alg.pending, Len(alg.pending), D.alg.pending)

\* The jobs that wait are handled before those that have been released.
BeforeReleases ==
  handle_ended_job_execution(handle_machines_coming_available(Started(alg)))

\* The released jobs are not in the queue when they are handled.
LEMMA BeforeReleasesKeep ==
  ASSUME FastInv, NEW D, D = BeforeReleases
  PROVE  /\ Queued(D) /\ \A k \in DOMAIN inbox.released : inbox.released[k] \in Outside(D)
         /\ Fcfs => InTurn(D)
<1> DEFINE F == Started(alg)  A == handle_machines_coming_available(F)
<1>1. /\ Queued(F) /\ F.alg.pending = alg.pending /\ F.alg.priority = alg.priority
      /\ \A i \in DOMAIN inbox.released : Waits(F, inbox.released[i])
  <2> HIDE DEF F
  <2>1. F = Started(alg)
    BY DEF F
  <2> QED BY <2>1, BeforeStarting
<1> HIDE DEF F
<1>2. config \in Simulations /\ alg.pending \in Seq(Jobs)
  BY DEF FastInv, Messages, InLine
<1>3. \A k \in DOMAIN inbox.released : inbox.released[k] \in Outside(F)
  <2>. TAKE k \in DOMAIN inbox.released
  <2>1. status[inbox.released[k]] = "released" /\ inbox.released[k] \in Jobs
    BY DEF FastInv, Messages
  <2>2. \A i \in DOMAIN alg.pending : alg.pending[i] # inbox.released[k]
    BY <2>1 DEF FastInv, InLine
  <2>3. alg.priority # inbox.released[k]
    <3>1. inbox.released[k] # None
      BY <2>1, FastAssumption
    <3> QED BY <2>1, <3>1 DEF FastInv, InLine, InStatus
  <2> QED BY <1>1, <2>1, <2>2, <2>3 DEF Outside
<1>4. InTurn(F)
  BY <1>1, <1>2 DEF InTurn, EndOf
<1>5. ASSUME NEW X, Follows(X, F), Fcfs => InTurn(X), NEW Y, Y = ExecuteQueue(X), Fcfs
      PROVE  Follows(Y, F) /\ InTurn(Y)
  <2>1. Queued(X) /\ Outside(F) \subseteq Outside(X)
    BY <1>5 DEF Follows
  <2>2. /\ Follows(Y, X) /\ EndOf(X.alg.pending, Len(X.alg.pending), Y.alg.pending)
    BY <1>2, <1>5, <2>1, ExecuteKeeps
  <2>3. X.alg.pending \in Seq(Jobs) /\ Y.alg.pending \in Seq(Jobs)
    BY <2>1, <2>2 DEF Follows, Queued, Line
  <2>4. InTurn(Y)
    BY <1>2, <1>5, <2>2, <2>3, EndOfEnd DEF InTurn
  <2> QED BY <2>1, <2>2, <2>4 DEF Follows
<1>6. Follows(F, F)
  BY <1>1 DEF Follows
<1>7. Follows(A, F) /\ (Fcfs => InTurn(A))
  <2>1. CASE A = F
    BY <1>4, <1>6, <2>1
  <2>2. CASE A = ExecuteQueue(F) /\ config.variant = "fcfs_fast2"
    <3>1. Fcfs
      BY <2>2 DEF Fcfs
    <3> HIDE DEF A
    <3> QED BY <1>4, <1>5, <1>6, <2>2, <3>1
  <2> QED BY <2>1, <2>2 DEF handle_machines_coming_available
<1> HIDE DEF A
<1>8. D = handle_ended_job_execution(A)
  BY DEF BeforeReleases, A, F
<1>9. Follows(D, F) /\ (Fcfs => InTurn(D))
  <2>1. CASE D = A
    BY <1>7, <2>1
  <2>2. CASE D = ExecuteQueue(A) /\ Fcfs
    BY <1>5, <1>7, <2>2
  <2>3. CASE D = Backfill(StartPriority(A)) /\ ~Fcfs /\ A.alg.priority # None
    <3>1. Queued(A)
      BY <1>7 DEF Follows
    <3>2. Follows(StartPriority(A), A)
      BY <1>2, <2>3, <3>1, StartPriorityKeeps
    <3>3. Follows(D, StartPriority(A))
      BY <1>2, <2>3, <3>2, BackfillKeeps DEF Follows
    <3> QED BY <1>7, <2>3, <3>2, <3>3 DEF Follows
  <2> QED BY <1>8, <2>1, <2>2, <2>3 DEF handle_ended_job_execution
<1> QED BY <1>3, <1>9 DEF Follows

\* The whole decision: every job that waits does so once, and where jobs wait in
\* turn those that have been started are the first of the queue.
LEMMA DecisionKeeps ==
  ASSUME FastInv
  PROVE  /\ Queued(Decision)
         /\ Fcfs => \E q \in Seq(Jobs) : EndOf(alg.pending, Len(alg.pending), q)
                       /\ \A x : x \notin ToSet(inbox.released) =>
                            (InQueue(Decision, x) <=> \E k \in DOMAIN q : q[k] = x)
<1> DEFINE B == BeforeReleases  E == handle_newly_released_jobs(B)
           G == FinishSubmitting(E)
<1>1. /\ Queued(B) /\ \A k \in DOMAIN inbox.released : inbox.released[k] \in Outside(B)
      /\ Fcfs => InTurn(B)
  <2> HIDE DEF B
  <2>1. B = BeforeReleases
    BY DEF B
  <2> QED BY <2>1, BeforeReleasesKeep
<1>2. Decision = [G EXCEPT !.alg.recently_available = FALSE]
  BY DEF Decision, BeforeReleases, Started
<1> HIDE DEF B
<1>3. /\ Queued(E)
      /\ \A x : x \notin ToSet(inbox.released) => (InQueue(E, x) <=> InQueue(B, x))
  <2> HIDE DEF E
  <2>1. E = handle_newly_released_jobs(B)
    BY DEF E
  <2> QED BY <1>1, <2>1, ReleasesKeep
<1> HIDE DEF E
<1>4. DOMAIN E = DecisionFields /\ DOMAIN E.alg = AlgFields
  BY <1>3 DEF Queued, Deciding, Sound, Fields
<1>5. /\ SameDecisions(G, E) /\ G.alg.pending = E.alg.pending
      /\ G.alg.priority = E.alg.priority
  BY <1>4 DEF FinishSubmitting, SameDecisions, SameBooks, DecisionFields, AlgFields
<1> HIDE DEF G
<1>6. DOMAIN G = DecisionFields /\ DOMAIN G.alg = AlgFields
  BY <1>5 DEF SameDecisions, SameBooks
<1>7. /\ SameDecisions(Decision, G) /\ Decision.alg.pending = G.alg.pending
      /\ Decision.alg.priority = G.alg.priority
  BY <1>2, <1>6 DEF SameDecisions, SameBooks, DecisionFields, AlgFields
<1>8. /\ Deciding(G) /\ \A j : Waits(G, j) <=> Waits(E, j)
  BY <1>3, <1>5, SameDecisionsKeep DEF Queued
<1>9. /\ Deciding(Decision) /\ \A j : Waits(Decision, j) <=> Waits(E, j)
  BY <1>7, <1>8, SameDecisionsKeep
<1>10. Decision.alg.pending = E.alg.pending /\ Decision.alg.priority = E.alg.priority
  BY <1>5, <1>7
<1>11. Queued(Decision)
  BY <1>3, <1>9, <1>10 DEF Queued, Line, PriorityWaits
<1>12. ASSUME Fcfs
       PROVE  \E q \in Seq(Jobs) : EndOf(alg.pending, Len(alg.pending), q)
                 /\ \A x : x \notin ToSet(inbox.released) =>
                      (InQueue(Decision, x) <=> \E k \in DOMAIN q : q[k] = x)
  <2>1. B.alg.pending \in Seq(Jobs)
    BY <1>1 DEF Queued, Line
  <2> QED BY <1>1, <1>3, <1>10, <1>12, <2>1 DEF InTurn, InQueue
<1> QED BY <1>11, <1>12
-----------------------------------------------------------------------------
(* The steps.                                                               *)

\* What the next books are, in terms of the record x.
LEMMA SoundNext ==
  ASSUME NEW x, Sound(x), config' = config, alg' = x
  PROVE  Sound(alg)'
<1>1. (Fcfs' <=> Fcfs) /\ HeldBack' = HeldBack
  BY DEF Fcfs, HeldBack
<1>2. Packed(alg)' = Packed(x) /\ Whole(alg)' = Whole(x)
  BY DEF Packed, Whole, SharePacked
<1>3. WholeMachines(alg)' = WholeMachines(x)
  BY <1>2 DEF WholeMachines
<1>4. \A m : PackedOn(alg, m)' = PackedOn(x, m)
  BY <1>2 DEF PackedOn
<1>5. Fields(alg)'
  BY <1>1 DEF Sound, Fields
<1>6. ASSUME Books(x) PROVE Books(alg)'
  <2>1. Kept(alg)' /\ OutOfUse(alg)' /\ FreeOnes(alg)'
    BY <1>1, <1>3, <1>5, <1>6 DEF Books, Kept, OutOfUse, FreeOnes
  <2>2. WholeAlone(alg)' /\ CoresLeft(alg)'
    BY <1>2, <1>4, <1>6 DEF Books, WholeAlone, CoresLeft
  <2> QED BY <2>1, <2>2 DEF Books
<1> QED BY <1>5, <1>6 DEF Sound

\* At first every machine is free, but for those that are held back.
LEMMA BooksInit ==
  ASSUME Init
  PROVE  FastInv
<1>1. /\ config \in Simulations /\ clock = 0 /\ inbox = NoEvents /\ alg = NewScheduler
      /\ status = [j \in Jobs |-> IF j \in config.workload THEN "todo" ELSE "none"]
  BY DEF Init, BatsimInit
<1>2. \A t \in timers : t.forWhat \in config.generators
  BY DEF Init, BatsimInit
<1>3. RepairTimers = {}
  BY <1>1, <1>2, SimulationAssumption DEF RepairTimers
<1>4. Messages
  <2>1. /\ inbox.released = << >> /\ inbox.ended = {}
        /\ DOMAIN inbox = {"released", "ended", "killed", "other"}
    BY <1>1 DEF NoEvents
  <2>2. status \in [Jobs -> AllStatus]
    BY <1>1 DEF AllStatus
  <2> QED BY <1>1, <2>1, <2>2 DEF Messages, Distinct
<1>5. /\ DOMAIN alg = AlgFields
      /\ alg.available = Machines \ HeldBack
      /\ alg.nb_available = Cardinality(Machines) - config.holdback
      /\ alg.heldback = HeldBack /\ alg.unavailable = HeldBack /\ alg.repair = {}
      /\ alg.core_machines = {} /\ alg.cores = FreeCores /\ alg.allocations = NoJobs
      /\ alg.running = {} /\ alg.pending = << >> /\ alg.priority = None
      /\ alg.mistaken = FALSE
  BY <1>1 DEF NewScheduler, AlgFields
<1>6. DOMAIN alg.allocations = {} /\ InStatus("running") = {}
  BY <1>1, <1>5 DEF NoJobs, InStatus
<1>7. HeldBack \subseteq Machines /\ Cardinality(HeldBack) = config.holdback
  <2>1. config.holdback \in Nat /\ config.holdback <= Cardinality(Machines)
    <3>1. config.holdback \in Nat /\ config.holdback < Cardinality(Machines)
      BY <1>1, FastAssumption
    <3> QED BY <3>1, MachinesFinite
  <2> QED BY <2>1, MachinesFinite, LeftOfIs DEF HeldBack
<1>8. Packed(alg) = {} /\ Whole(alg) = {} /\ WholeMachines(alg) = {}
      /\ \A m : PackedOn(alg, m) = {}
  BY <1>6 DEF Packed, Whole, WholeMachines, PackedOn
<1>9. Kept(alg)
  <2>1. alg.allocations \in [{} -> SUBSET Machines]
    BY <1>5 DEF NoJobs
  <2> QED BY <1>5, <1>6, <2>1 DEF Kept, Fields
<1>10. OutOfUse(alg)
  BY <1>5, <1>7 DEF OutOfUse
<1>11. FreeOnes(alg)
  <2>1. Cardinality(Machines \ HeldBack)
          = Cardinality(Machines) - Cardinality(Machines \cap HeldBack)
    BY MachinesFinite, FS_Difference
  <2>2. Machines \cap HeldBack = HeldBack
    BY <1>7
  <2>3. Cardinality(Machines \ HeldBack) = Cardinality(Machines) - config.holdback
    BY <1>7, <2>1, <2>2
  <2> QED BY <1>5, <1>8, <2>3 DEF FreeOnes
<1>12. WholeAlone(alg) /\ CoresLeft(alg)
  <2>1. \A m \in Machines : alg.cores[m] = Cores /\ Cores \in Int
    BY <1>5, FastAssumption DEF FreeCores
  <2>2. alg.cores \in [Machines -> Int]
    BY <1>5, FastAssumption DEF FreeCores
  <2>3. Cardinality({}) = 0
    BY FS_EmptySet
  <2>4. ASSUME NEW m \in Machines PROVE alg.cores[m] = Cores - Cardinality(PackedOn(alg, m))
    <3>1. PackedOn(alg, m) = {}
      BY <1>8
    <3>2. Cardinality(PackedOn(alg, m)) = 0
      BY <2>3, <3>1
    <3> QED BY <2>1, <3>2
  <2>5. WholeAlone(alg)
    BY <1>8 DEF WholeAlone
  <2> QED BY <1>5, <1>8, <2>2, <2>4, <2>5 DEF CoresLeft
<1>13. OnTheirMachines /\ InLine
  BY <1>1, <1>5, <1>6 DEF OnTheirMachines, InLine, NoEvents, Distinct
<1>14. RepairsEnd
  BY <1>3, <1>6 DEF RepairsEnd
<1> QED BY <1>4, <1>9, <1>10, <1>11, <1>12, <1>13, <1>14 DEF FastInv, Sound, Books, Kept

\* The message is answered.
LEMMA DecisionStep ==
  ASSUME FastInv, make_decisions
  PROVE  FastInv'
<1> DEFINE D == Decision
<1>1. Queued(D)
  BY DecisionKeeps
<1>2. alg' = D.alg /\ Reply(D)
  BY DEF make_decisions
<1> HIDE DEF D
<1>3. /\ DOMAIN D = DecisionFields /\ D.calls = << >>
      /\ Sound(D.alg) /\ D.alg.repair = alg.repair /\ D.alg.mistaken = alg.mistaken
      /\ DOMAIN D.alg.allocations = InStatus("running") \cup DOMAIN D.executed
      /\ \A j \in InStatus("running") : D.alg.allocations[j] = on[j]
      /\ \A j \in DOMAIN D.executed : D.executed[j] = D.alg.allocations[j]
      /\ DOMAIN D.executed \subseteq InStatus("queued") \cup InStatus("released")
      /\ D.rejected \subseteq InStatus("released") \ DOMAIN D.executed
      /\ \A j \in DOMAIN D.alg.allocations :
           D.alg.allocations[j] \cap alg.repair # {} /\ ~alg.mistaken =>
             j \in InStatus("running") /\ (j \in D.kill \/ \E k \in killing : j \in k)
  BY <1>1 DEF Queued, Deciding
<1>4. /\ config' = config /\ clock' = clock
      /\ inbox' = [NoEvents EXCEPT !.released = Ascending(D.submit \cap InStatus("none"))]
      /\ status' = [j \in Jobs |->
           CASE j \in DOMAIN D.executed -> "running"
             [] j \in D.rejected -> "rejected"
             [] j \in D.submit /\ status[j] = "none" -> "released"
             [] status[j] = "released" /\ j \notin DOMAIN D.executed \cup D.rejected -> "queued"
             [] OTHER -> status[j]]
      /\ on' = [j \in Jobs |-> IF j \in DOMAIN D.executed THEN D.executed[j] ELSE on[j]]
      /\ timers' = timers \cup ToSet(D.calls)
      /\ killing' = IF D.kill = {} THEN killing ELSE killing \cup {D.kill}
  BY <1>2 DEF Reply, ReplySince
<1>5. status \in [Jobs -> AllStatus] /\ config \in Simulations /\ clock \in Nat
  BY DEF FastInv, Messages
<1>6. ASSUME NEW j \in Jobs
      PROVE  /\ status'[j] \in AllStatus
             /\ status'[j] = "running" <=> status[j] = "running" \/ j \in DOMAIN D.executed
             /\ status[j] \in {"queued", "released"} /\ j \notin DOMAIN D.executed
                  /\ j \notin D.rejected => status'[j] = "queued"
             /\ status[j] = "none" /\ j \in D.submit => status'[j] = "released"
  <2>1. status[j] \in AllStatus
    BY <1>5
  <2>2. j \in DOMAIN D.executed => status[j] \in {"queued", "released"}
    BY <1>3 DEF InStatus
  <2>3. j \in D.rejected => status[j] = "released" /\ j \notin DOMAIN D.executed
    BY <1>3 DEF InStatus
  <2>4. status'[j] =
          CASE j \in DOMAIN D.executed -> "running"
            [] j \in D.rejected -> "rejected"
            [] j \in D.submit /\ status[j] = "none" -> "released"
            [] status[j] = "released" /\ j \notin DOMAIN D.executed \cup D.rejected -> "queued"
            [] OTHER -> status[j]
    BY <1>4
  <2>5. CASE j \in DOMAIN D.executed
    <3>1. status'[j] = "running"
      BY <2>3, <2>4, <2>5, <2>2
    <3> QED BY <2>2, <2>5, <3>1 DEF AllStatus
  <2>6. CASE j \notin DOMAIN D.executed /\ j \in D.rejected
    <3>1. status'[j] = "rejected"
      BY <2>3, <2>4, <2>6
    <3> QED BY <2>3, <2>6, <3>1 DEF AllStatus
  <2>7. CASE j \notin DOMAIN D.executed /\ j \notin D.rejected
    BY <2>1, <2>4, <2>7 DEF AllStatus
  <2> QED BY <2>5, <2>6, <2>7
<1>7. /\ inbox'.ended = {} /\ inbox'.released = Ascending(D.submit \cap InStatus("none"))
      /\ DOMAIN inbox' = {"released", "ended", "killed", "other"}
  BY <1>4 DEF NoEvents
<1>8. Messages'
  <2>1. status' \in [Jobs -> AllStatus]
    <3>1. status' = [j \in Jobs |-> status'[j]]
      BY <1>4
    <3> QED BY <1>6, <3>1
  <2> DEFINE new == D.submit \cap InStatus("none")
  <2>2. new \subseteq Jobs
    BY DEF InStatus
  <2>3. ListsOnce(new, Ascending(new))
    <3> HIDE DEF new
    <3> QED BY <2>2, JobsFinite, AscendingIs
  <2>4. \A j \in new : status'[j] = "released"
    BY <1>6 DEF InStatus
  <2> HIDE DEF new
  <2> DEFINE q == Ascending(new)
  <2>5. q \in Seq(new) /\ Distinct(q)
    BY <2>3 DEF ListsOnce
  <2> HIDE DEF q
  <2>6. q \in Seq(Jobs) /\ \A i \in DOMAIN q : status'[q[i]] = "released"
    BY <2>2, <2>4, <2>5
  <2>7. inbox'.released = q
    BY <1>7 DEF q, new
  <2>8. Distinct(inbox.released)'
    BY <2>5, <2>7 DEF Distinct
  <2> QED BY <1>4, <1>5, <1>7, <2>1, <2>6, <2>7, <2>8 DEF Messages
<1>9. Sound(alg)'
  BY <1>2, <1>3, <1>4, SoundNext
<1>10. InStatus("running")' = InStatus("running") \cup DOMAIN D.executed
  <2>1. DOMAIN D.executed \subseteq Jobs
    BY <1>3 DEF InStatus
  <2> QED BY <1>6, <2>1 DEF InStatus
<1>11. OnTheirMachines'
  <2>1. DOMAIN alg'.allocations = InStatus("running")' \cup inbox'.ended
    BY <1>2, <1>3, <1>7, <1>10
  <2>2. \A j \in InStatus("running")' : alg'.allocations[j] = on'[j]
    <3>1. InStatus("running") \subseteq Jobs /\ DOMAIN D.executed \subseteq Jobs
      BY <1>3 DEF InStatus
    <3> QED BY <1>2, <1>3, <1>4, <1>10, <3>1
  <2> QED BY <2>1, <2>2 DEF OnTheirMachines
<1>12. InLine'
  <2>1. /\ Line(D, D.alg.pending) /\ PriorityWaits(D)
    BY <1>1 DEF Queued
  <2>2. \A j : Waits(D, j) => j \in Jobs /\ status'[j] = "queued"
    BY <1>6 DEF Waits, InStatus
  <2>3. \A i \in DOMAIN D.alg.pending :
          status'[D.alg.pending[i]] = "queued" /\ D.alg.pending[i] # D.alg.priority
    BY <2>1, <2>2 DEF Line
  <2>4. D.alg.priority # None => D.alg.priority \in InStatus("queued")'
    BY <2>1, <2>2 DEF PriorityWaits, InStatus
  <2>5. D.alg.pending \in Seq(Jobs) /\ Distinct(D.alg.pending)
    BY <2>1 DEF Line
  <2>6. Distinct(alg.pending)'
    BY <1>2, <2>5 DEF Distinct
  <2> QED BY <1>2, <2>3, <2>4, <2>5, <2>6 DEF InLine
<1>13. RepairsEnd'
  <2> SUFFICES ASSUME ~alg.mistaken PROVE RepairsEnd'
    BY <1>2, <1>3 DEF RepairsEnd
  <2>1. ASSUME NEW j \in DOMAIN alg'.allocations, alg'.allocations[j] \cap alg'.repair # {}
        PROVE  Doomed(j)'
    <3>1. j \in D.kill \/ \E k \in killing : j \in k
      BY <1>2, <1>3, <2>1
    <3>2. killing \subseteq killing' /\ (D.kill # {} => D.kill \in killing')
      BY <1>4
    <3> QED BY <3>1, <3>2 DEF Doomed
  <2>2. timers' = timers
    BY <1>3, <1>4 DEF ToSet
  <2>3. RepairTimers' = RepairTimers
    BY <2>2 DEF RepairTimers
  <2>4. ASSUME NEW t \in RepairTimers
        PROVE  t.date > clock \/ \A j \in DOMAIN alg'.allocations : t.about \notin alg'.allocations[j]
    <3>1. t.about \in alg.repair
      BY DEF FastInv, RepairsEnd
    <3>2. SUFFICES ASSUME \A j \in DOMAIN alg.allocations : t.about \notin alg.allocations[j],
                          NEW j \in DOMAIN alg'.allocations, t.about \in alg'.allocations[j]
                   PROVE  FALSE
      BY DEF FastInv, RepairsEnd
    <3>3. j \in InStatus("running") /\ alg'.allocations[j] = on[j]
      BY <1>2, <1>3, <3>1, <3>2
    <3>4. j \in DOMAIN alg.allocations /\ alg.allocations[j] = on[j]
      BY <3>3 DEF FastInv, OnTheirMachines
    <3> QED BY <3>2, <3>3, <3>4
  <2> QED BY <1>2, <1>3, <1>4, <2>1, <2>3, <2>4 DEF RepairsEnd, FastInv
<1> QED BY <1>8, <1>9, <1>11, <1>12, <1>13 DEF FastInv

\* A doomed job stays doomed when kills are added and the scheduler is going to be
\* told of something.
LEMMA StillDoomed ==
  ASSUME inbox'.other = TRUE, inbox'.ended = inbox.ended, killing' = killing,
         NEW j, Doomed(j), j \in alg.my_kill_jobs => j \in alg'.my_kill_jobs
  PROVE  Doomed(j)'
BY DEF Doomed

\* What a timer that rings leaves alone.
RingKeeps ==
  /\ config' = config /\ clock' = clock /\ status' = status /\ on' = on
  /\ killing' = killing
  /\ DOMAIN inbox' = {"released", "ended", "killed", "other"}
  /\ inbox'.other = TRUE /\ inbox'.ended = inbox.ended
  /\ inbox'.released = inbox.released

\* A timer that rings touches the timers only.
LEMMA RingIs ==
  ASSUME FastInv, NEW t, NEW again, Ring(t, again)
  PROVE  RingKeeps /\ timers' = (timers \ {t}) \cup again
BY DEF FastInv, Messages, Ring, RingKeeps

\* The parts of the invariant that the message and the queue are in.
LEMMA RingMessages ==
  ASSUME FastInv, RingKeeps, alg'.pending = alg.pending, alg'.priority = alg.priority,
         alg'.allocations = alg.allocations
  PROVE  Messages' /\ InLine' /\ OnTheirMachines'
<1>1. Messages'
  BY DEF FastInv, Messages, RingKeeps, InStatus, Distinct
<1>2. InLine'
  BY DEF FastInv, InLine, RingKeeps, InStatus, Distinct
<1>3. OnTheirMachines'
  BY DEF FastInv, OnTheirMachines, RingKeeps, InStatus
<1> QED BY <1>1, <1>2, <1>3

\* The kinds of failures, and the timers that they start.
LEMMA CallIs ==
  ASSUME NEW D, DOMAIN D = DecisionFields, DOMAIN D.alg = AlgFields, NEW forWhat,
         NEW about, NEW date, NEW C, C = CallMeLater(D, forWhat, about, date)
  PROVE  /\ DOMAIN C = DecisionFields /\ SameBooks(C.alg, D.alg)
         /\ C.alg.pending = D.alg.pending /\ C.alg.priority = D.alg.priority
         /\ C.alg.my_kill_jobs = D.alg.my_kill_jobs /\ C.alg.running = D.alg.running
         /\ C.calls = Append(D.calls, [id |-> D.alg.nb_call_me_laters, forWhat |-> forWhat,
                                       about |-> about, date |-> date])
BY DEF CallMeLater, SameBooks, DecisionFields, AlgFields

\* After a failure the scheduler has the same books, or those without a machine
\* that is under repair from now on.
OutForRepair(b, a, m) ==
  /\ DOMAIN b = AlgFields
  /\ b.available = a.available \ {m} /\ b.nb_available = Cardinality(b.available)
  /\ b.heldback = a.heldback /\ b.unavailable = a.unavailable \cup {m}
  /\ b.repair = a.repair \cup {m}
  /\ b.core_machines = a.core_machines /\ b.cores = a.cores
  /\ b.allocations = a.allocations /\ b.running = a.running
  /\ b.mistaken = a.mistaken

\* The books balance when a machine goes out for repair.
LEMMA OutForRepairKeeps ==
  ASSUME config \in Simulations, NEW a, Books(a), NEW m \in Machines, m \notin a.repair,
         config.variant = "fcfs_fast2", ~config.share_packing,
         NEW b, OutForRepair(b, a, m)
  PROVE  Books(b)
<1>1. HeldBack = {}
  <2>1. config.holdback = 0
    BY FastAssumption
  <2>2. LeftOf(Machines, 0) \subseteq Machines /\ Cardinality(LeftOf(Machines, 0)) = 0
    BY MachinesFinite, LeftOfIs
  <2>3. IsFiniteSet(LeftOf(Machines, 0))
    BY <2>2, MachinesFinite
  <2> QED BY <2>1, <2>2, <2>3, FS_EmptySet DEF HeldBack
<1>2. a.heldback = {} /\ m \notin a.unavailable
  BY <1>1 DEF Books, OutOfUse
<1>3. Packed(a) = {} /\ a.core_machines = {}
  BY DEF Packed, SharePacked, PackedOn, Books, CoresLeft
<1>4. Packed(b) = Packed(a) /\ Whole(b) = Whole(a) /\ WholeMachines(b) = WholeMachines(a)
      /\ \A x : PackedOn(b, x) = PackedOn(a, x)
  BY DEF OutForRepair, Packed, Whole, WholeMachines, PackedOn
<1>5. Kept(b) /\ OutOfUse(b)
  BY <1>2 DEF Books, OutForRepair, Kept, Fields, OutOfUse
<1>6. FreeOnes(b)
  BY <1>2, <1>4 DEF Books, OutForRepair, FreeOnes
<1>7. WholeAlone(b)
  BY <1>4 DEF Books, OutForRepair, WholeAlone
<1>8. CoresLeft(b)
  BY <1>3, <1>4 DEF Books, OutForRepair, CoresLeft
<1> QED BY <1>5, <1>6, <1>7, <1>8 DEF Books

\* The repair of the machine m is done.
BackFromRepair(b, a, m) ==
  /\ DOMAIN b = AlgFields
  /\ b.available = a.available \cup {m} /\ b.nb_available = Cardinality(b.available)
  /\ b.heldback = a.heldback /\ b.unavailable = a.unavailable \ {m}
  /\ b.repair = a.repair \ {m}
  /\ b.core_machines = a.core_machines /\ b.cores = a.cores
  /\ b.allocations = a.allocations /\ b.running = a.running
  /\ (b.mistaken => a.mistaken)

\* The books balance when it comes back.
LEMMA BackFromRepairKeeps ==
  ASSUME NEW a, Books(a), NEW m \in a.repair,
         \A j \in DOMAIN a.allocations : m \notin a.allocations[j],
         NEW b, BackFromRepair(b, a, m)
  PROVE  Books(b)
<1>1. m \in Machines /\ m \in a.unavailable /\ m \notin a.heldback
  BY DEF Books, OutOfUse
<1>2. config.variant = "fcfs_fast2" /\ ~config.share_packing
  BY <1>1 DEF Books, OutOfUse
<1>3. Packed(a) = {} /\ a.core_machines = {} /\ m \notin WholeMachines(a)
  BY <1>2 DEF Packed, SharePacked, PackedOn, Books, CoresLeft, WholeMachines, Whole
<1>4. Packed(b) = Packed(a) /\ Whole(b) = Whole(a) /\ WholeMachines(b) = WholeMachines(a)
      /\ \A x : PackedOn(b, x) = PackedOn(a, x)
  BY DEF BackFromRepair, Packed, Whole, WholeMachines, PackedOn
<1>5. Kept(b) /\ OutOfUse(b)
  BY <1>1, <1>2 DEF Books, BackFromRepair, Kept, Fields, OutOfUse
<1>6. FreeOnes(b)
  BY <1>1, <1>3, <1>4 DEF Books, BackFromRepair, FreeOnes
<1>7. WholeAlone(b)
  BY <1>4 DEF Books, BackFromRepair, WholeAlone
<1>8. CoresLeft(b)
  BY <1>3, <1>4 DEF Books, BackFromRepair, CoresLeft
<1> QED BY <1>5, <1>6, <1>7, <1>8 DEF Books

\* A repair can be going on only where machines are not shared.
LEMMA NoSharing ==
  ASSUME FastInv, NEW t \in RepairTimers
  PROVE  ~config.share_packing
<1>1. CASE alg.mistaken
  BY <1>1 DEF FastInv, Sound, Fields
<1>2. CASE ~alg.mistaken
  <2>1. t.about \in alg.repair
    BY <1>2 DEF FastInv, RepairsEnd
  <2> QED BY <1>2, <2>1 DEF FastInv, Sound, Books, OutOfUse
<1> QED BY <1>1, <1>2

\* The end of a repair keeps the invariant: the machine that failed comes back, or
\* the books are given up.
LEMMA RepairDoneStep ==
  ASSUME FastInv, NEW t \in timers, RepairDone(t)
  PROVE  FastInv'
<1>1. RingKeeps /\ timers' = timers \ {t} /\ t.date <= clock /\ t \in RepairTimers
  <2>1. Ring(t, {}) /\ t.forWhat = "REPAIR_DONE"
    BY DEF RepairDone
  <2> QED BY <2>1, RingIs DEF RepairTimers, Ring
<1>2. DOMAIN alg = AlgFields /\ Fields(alg)
  BY DEF FastInv, Sound, Fields
<1>3. /\ DOMAIN alg' = AlgFields
      /\ alg'.pending = alg.pending /\ alg'.priority = alg.priority
      /\ alg'.my_kill_jobs = alg.my_kill_jobs /\ alg'.allocations = alg.allocations
      /\ alg'.running = alg.running
      /\ alg'.mistaken = (alg.mistaken \/ t.id # t.about)
  BY <1>2 DEF RepairDone, AlgFields
<1>4. Messages' /\ InLine' /\ OnTheirMachines'
  BY <1>1, <1>3, RingMessages
<1>5. CASE alg.mistaken \/ t.id # t.about
  <2>1. alg'.mistaken
    BY <1>3, <1>5
  <2>2. ASSUME NEW x, x = alg' PROVE Sound(x)
    <3>1. ~config.share_packing
      BY <1>1, NoSharing
    <3> QED BY <1>2, <1>3, <2>1, <2>2, <3>1 DEF Sound, Fields
  <2>3. Sound(alg)'
    BY <1>1, <2>2, SoundNext DEF RingKeeps
  <2> QED BY <1>4, <2>1, <2>3 DEF FastInv, RepairsEnd
<1>6. CASE ~alg.mistaken /\ t.id = t.about
  <2> DEFINE m == t.about
  <2>1. m \in alg.repair /\ \A j \in DOMAIN alg.allocations : m \notin alg.allocations[j]
    <3>1. t.date \in Int /\ clock \in Int
      BY <1>1, <1>6 DEF FastInv, Messages, RepairsEnd
    <3>2. ~(t.date > clock)
      BY <1>1, <3>1
    <3> QED BY <1>1, <1>6, <3>2 DEF FastInv, RepairsEnd
  <2>2. BackFromRepair(alg', alg, m)
    BY <1>2, <1>3, <1>6 DEF RepairDone, BackFromRepair, AlgFields
  <2>3. ASSUME NEW x, x = alg' PROVE Sound(x)
    <3>1. Books(x)
      BY <1>6, <2>1, <2>2, <2>3, BackFromRepairKeeps DEF FastInv, Sound
    <3> QED BY <3>1 DEF Sound, Books, Kept
  <2>4. Sound(alg)'
    BY <1>1, <2>3, SoundNext DEF RingKeeps
  <2>5. RepairsEnd'
    <3>1. alg'.repair = alg.repair \ {m}
      BY <2>2 DEF BackFromRepair
    <3>2. ASSUME NEW j \in DOMAIN alg'.allocations, alg'.allocations[j] \cap alg'.repair # {}
          PROVE  Doomed(j)'
      <4>1. Doomed(j)
        BY <1>3, <1>6, <3>1, <3>2 DEF FastInv, RepairsEnd
      <4> QED BY <1>1, <1>3, <4>1, StillDoomed DEF RingKeeps
    <3>3. RepairTimers' = RepairTimers \ {t}
      BY <1>1 DEF RepairTimers
    <3>4. \A u \in RepairTimers \ {t} : u.about \in alg.repair \ {m}
      BY <1>1, <1>6 DEF FastInv, RepairsEnd
    <3> QED BY <1>1, <1>3, <1>6, <3>1, <3>2, <3>3, <3>4 DEF FastInv, RepairsEnd, RingKeeps
  <2> QED BY <1>4, <2>4, <2>5 DEF FastInv
<1> QED BY <1>5, <1>6

\* The jobs on a machine that has failed are going to be killed.
LEMMA KillJobsIs ==
  ASSUME NEW a, DOMAIN a = AlgFields, NEW m, NEW b, b = KillJobsOn(a, m)
  PROVE  /\ SameBooks(b, a) /\ b.pending = a.pending /\ b.priority = a.priority
         /\ b.nb_call_me_laters = a.nb_call_me_laters /\ b.running = a.running
         /\ a.my_kill_jobs \subseteq b.my_kill_jobs
         /\ a.running # {} => \A j \in DOMAIN a.allocations :
                                 m \in a.allocations[j] => j \in b.my_kill_jobs
BY DEF KillJobsOn, SameBooks, AlgFields

\* The step of a failure after which the books are the same.
LEMMA SameBooksStep ==
  ASSUME FastInv, RingKeeps, RepairTimers' = RepairTimers, SameBooks(alg', alg),
         alg'.pending = alg.pending, alg'.priority = alg.priority,
         alg.my_kill_jobs \subseteq alg'.my_kill_jobs
  PROVE  FastInv'
<1>1. /\ alg'.allocations = alg.allocations /\ alg'.repair = alg.repair
      /\ alg'.mistaken = alg.mistaken
  BY DEF SameBooks
<1>2. Messages' /\ InLine' /\ OnTheirMachines'
  BY <1>1, RingMessages
<1>3. ASSUME NEW x, x = alg'
      PROVE  Sound(x)
  BY <1>3, SameBooksKeep DEF FastInv
<1>4. Sound(alg)'
  BY <1>3, SoundNext DEF RingKeeps
<1>5. RepairsEnd'
  <2> SUFFICES ASSUME ~alg.mistaken PROVE RepairsEnd'
    BY <1>1 DEF RepairsEnd
  <2>1. ASSUME NEW j \in DOMAIN alg'.allocations, alg'.allocations[j] \cap alg'.repair # {}
        PROVE  Doomed(j)'
    <3>1. Doomed(j)
      BY <1>1, <2>1 DEF FastInv, RepairsEnd
    <3> QED BY <3>1, StillDoomed DEF RingKeeps
  <2> QED BY <1>1, <2>1 DEF FastInv, RepairsEnd, RingKeeps
<1> QED BY <1>2, <1>4, <1>5 DEF FastInv

\* The call of a timer.
TimerCall(id, forWhat, about, date) ==
  [id |-> id, forWhat |-> forWhat, about |-> about, date |-> date]

\* A machine is out for repair: its jobs are going to be killed, and the timer with
\* the number id is about it.
LEMMA RepairStep ==
  ASSUME FastInv, RingKeeps, NEW id, NEW m \in Machines, m \notin alg.repair,
         config.variant = "fcfs_fast2", ~config.share_packing,
         config.repair_time \in Nat, config.repair_time > 0,
         OutForRepair(alg', alg, m),
         RepairTimers' =
           RepairTimers \cup {TimerCall(id, "REPAIR_DONE", m, clock + config.repair_time)},
         alg'.pending = alg.pending, alg'.priority = alg.priority,
         alg.my_kill_jobs \subseteq alg'.my_kill_jobs,
         alg.running # {} => \A j \in DOMAIN alg.allocations :
                               m \in alg.allocations[j] => j \in alg'.my_kill_jobs
  PROVE  FastInv'
<1>1. /\ alg'.allocations = alg.allocations /\ alg'.repair = alg.repair \cup {m}
      /\ alg'.mistaken = alg.mistaken /\ DOMAIN alg' = AlgFields
      /\ alg'.running = alg.running
  BY DEF OutForRepair
<1>2. Messages' /\ InLine' /\ OnTheirMachines'
  BY <1>1, RingMessages
<1>3. ASSUME NEW x, x = alg'
      PROVE  Sound(x)
  <2>1. Fields(x)
    BY <1>1, <1>3 DEF FastInv, Sound, Fields
  <2>2. ~alg.mistaken => Books(x)
    BY <1>3, OutForRepairKeeps DEF FastInv, Messages, Sound
  <2> QED BY <1>1, <1>3, <2>1, <2>2 DEF Sound
<1>4. Sound(alg)'
  BY <1>3, SoundNext DEF RingKeeps
<1>5. RepairsEnd'
  <2> SUFFICES ASSUME ~alg.mistaken PROVE RepairsEnd'
    BY <1>1 DEF RepairsEnd
  <2> DEFINE u == TimerCall(id, "REPAIR_DONE", m, clock + config.repair_time)
  <2>1. ASSUME NEW j \in DOMAIN alg'.allocations, alg'.allocations[j] \cap alg'.repair # {}
        PROVE  Doomed(j)'
    <3>1. CASE alg.allocations[j] \cap alg.repair # {}
      <4>1. Doomed(j)
        BY <1>1, <2>1, <3>1 DEF FastInv, RepairsEnd
      <4> QED BY <4>1, StillDoomed DEF RingKeeps
    <3>2. CASE m \in alg.allocations[j]
      <4>1. alg.running = DOMAIN alg.allocations
        BY DEF FastInv, Sound, Fields, Fcfs
      <4>2. j \in alg'.my_kill_jobs
        BY <1>1, <2>1, <3>2, <4>1
      <4> QED BY <4>2 DEF Doomed, RingKeeps
    <3> QED BY <1>1, <2>1, <3>1, <3>2
  <2>2. u.about = m /\ u.date = clock + config.repair_time
    BY DEF TimerCall
  <2>3. RepairTimers' = RepairTimers \cup {u}
    OBVIOUS
  <2> HIDE DEF u
  <2>4. clock \in Nat
    BY DEF FastInv, Messages
  <2>5. u.date > clock /\ u.date \in Int
    BY <2>2, <2>4
  <2>6. \A t \in RepairTimers : t.about \in alg.repair /\ t.about # m
    BY DEF FastInv, RepairsEnd
  <2>7. \A t, v \in RepairTimers' : t.about = v.about => t = v
    BY <2>2, <2>3, <2>6 DEF FastInv, RepairsEnd
  <2>8. ASSUME NEW t \in RepairTimers'
        PROVE  /\ t.about \in alg'.repair /\ t.date \in Int
               /\ t.date > clock' \/ \A j \in DOMAIN alg'.allocations :
                                       t.about \notin alg'.allocations[j]
    <3>1. CASE t = u
      BY <1>1, <2>2, <2>5, <3>1 DEF RingKeeps
    <3>2. CASE t \in RepairTimers
      BY <1>1, <3>2 DEF FastInv, RepairsEnd, RingKeeps
    <3> QED BY <2>3, <3>1, <3>2
  <2> QED BY <2>1, <2>7, <2>8 DEF RepairsEnd
<1> QED BY <1>2, <1>4, <1>5 DEF FastInv

\* A failure keeps the invariant.
LEMMA FailureStep ==
  ASSUME RepairsAreHandled, FastInv, NEW t \in timers, Failure(t)
  PROVE  FastInv'
<1>1. DOMAIN alg = AlgFields /\ config \in Simulations
  BY DEF FastInv, Sound, Fields, Messages
<1>2. t.forWhat \in {"SMTBF", "FIXED_FAILURE", "MTBF"} /\ config.repair_time \in Nat
      /\ t.forWhat \in config.generators
  BY <1>1, SimulationAssumption DEF Failure
<1>3. CASE Ring(t, {}) /\ UNCHANGED alg
  <2>1. RingKeeps /\ timers' = timers \ {t}
    BY <1>3, RingIs
  <2>2. RepairTimers' = RepairTimers
    BY <1>2, <2>1 DEF RepairTimers
  <2> QED BY <1>1, <1>3, <2>1, <2>2, SameBooksStep DEF SameBooks
<1>4. ASSUME NEW F \in Failures(t.forWhat), NEW d, NEW C,
             C = CallMeLater(F, t.forWhat, 1, d), alg' = C.alg, Ring(t, ToSet(C.calls))
      PROVE  FastInv'
  <2>1. RingKeeps /\ timers' = (timers \ {t}) \cup ToSet(C.calls)
    BY <1>4, RingIs
  <2>2. \/ /\ DOMAIN F = DecisionFields /\ F.calls = << >>
           /\ SameBooks(F.alg, alg)
           /\ F.alg.pending = alg.pending /\ F.alg.priority = alg.priority
           /\ alg.my_kill_jobs \subseteq F.alg.my_kill_jobs
        \/ /\ config.repair_time # 0 /\ t.forWhat # "MTBF"
           /\ \E m \in Machines : F = on_machine_down_for_repair(m) /\ m \notin alg.repair
    <3>1. CASE F = Begin(alg)
      BY <1>1, <3>1 DEF Begin, DecisionFields, SameBooks
    <3>2. ASSUME NEW j, F = [Begin(alg) EXCEPT !.alg.my_kill_jobs = @ \cup {j}]
          PROVE  /\ DOMAIN F = DecisionFields /\ F.calls = << >>
                 /\ SameBooks(F.alg, alg)
                 /\ F.alg.pending = alg.pending /\ F.alg.priority = alg.priority
                 /\ alg.my_kill_jobs \subseteq F.alg.my_kill_jobs
      BY <1>1, <3>2 DEF Begin, DecisionFields, SameBooks, AlgFields
    <3>3. ASSUME NEW m, F = on_machine_instant_down_up(m)
          PROVE  /\ DOMAIN F = DecisionFields /\ F.calls = << >>
                 /\ SameBooks(F.alg, alg)
                 /\ F.alg.pending = alg.pending /\ F.alg.priority = alg.priority
                 /\ alg.my_kill_jobs \subseteq F.alg.my_kill_jobs
      <4>1. /\ DOMAIN F = DecisionFields /\ F.calls = << >>
            /\ F.alg = KillJobsOn(alg, m)
        BY <3>3 DEF on_machine_instant_down_up, Begin, DecisionFields
      <4> QED BY <1>1, <4>1, KillJobsIs
    <3>4. ASSUME NEW m \in Machines, F = on_machine_down_for_repair(m), m \in alg.repair
          PROVE  F = Begin(alg)
      BY <3>4 DEF on_machine_down_for_repair
    <3> QED BY <1>4, <3>1, <3>2, <3>3, <3>4 DEF Failures, on_myKillJob_notify_event
  <2>3. CASE /\ DOMAIN F = DecisionFields /\ F.calls = << >>
             /\ SameBooks(F.alg, alg)
             /\ F.alg.pending = alg.pending /\ F.alg.priority = alg.priority
             /\ alg.my_kill_jobs \subseteq F.alg.my_kill_jobs
    <3> DEFINE call == TimerCall(F.alg.nb_call_me_laters, t.forWhat, 1, d)
    <3>1. DOMAIN F.alg = AlgFields
      BY <2>3 DEF SameBooks
    <3>2. /\ SameBooks(C.alg, F.alg) /\ C.calls = Append(F.calls, call)
          /\ C.alg.pending = F.alg.pending /\ C.alg.priority = F.alg.priority
          /\ C.alg.my_kill_jobs = F.alg.my_kill_jobs
      BY <1>4, <2>3, <3>1, CallIs DEF TimerCall
    <3>3. call.forWhat = t.forWhat
      BY DEF TimerCall
    <3> HIDE DEF call
    <3>4. ToSet(C.calls) = {call}
      BY <2>3, <3>2 DEF ToSet
    <3>5. RepairTimers' = RepairTimers
      BY <1>2, <2>1, <3>3, <3>4 DEF RepairTimers
    <3>6. SameBooks(alg', alg)
      BY <1>4, <2>3, <3>2 DEF SameBooks
    <3> QED BY <1>4, <2>1, <2>3, <3>2, <3>5, <3>6, SameBooksStep
  <2>4. ASSUME NEW m \in Machines, F = on_machine_down_for_repair(m), m \notin alg.repair,
               config.repair_time # 0, t.forWhat # "MTBF"
        PROVE  FastInv'
    <3> DEFINE a == [alg EXCEPT !.available = @ \ {m}, !.unavailable = @ \cup {m},
                                !.repair = @ \cup {m},
                                !.nb_available = Cardinality(alg.available \ {m})]
               B == Begin(a)
               R == CallMeLater(B, "REPAIR_DONE", m, clock + config.repair_time)
               repair == TimerCall(B.alg.nb_call_me_laters, "REPAIR_DONE", m,
                                   clock + config.repair_time)
               call == TimerCall(F.alg.nb_call_me_laters, t.forWhat, 1, d)
    <3>1. config.variant = "fcfs_fast2" /\ ~config.share_packing
      BY <1>1, <1>2, <2>4 DEF RepairsAreHandled
    <3>3. /\ OutForRepair(a, alg, m) /\ a.pending = alg.pending
          /\ a.priority = alg.priority /\ a.my_kill_jobs = alg.my_kill_jobs
          /\ a.nb_call_me_laters = alg.nb_call_me_laters
      BY <1>1 DEF OutForRepair, AlgFields
    <3>4. F = [R EXCEPT !.alg = KillJobsOn(@, m)]
      BY <2>4 DEF on_machine_down_for_repair
    <3> HIDE DEF a
    <3>5. DOMAIN B = DecisionFields /\ B.alg = a /\ B.calls = << >> /\ DOMAIN a = AlgFields
      BY <3>3 DEF Begin, DecisionFields, OutForRepair
    <3> HIDE DEF B
    <3>6. /\ DOMAIN R = DecisionFields /\ SameBooks(R.alg, B.alg)
          /\ R.alg.pending = B.alg.pending /\ R.alg.priority = B.alg.priority
          /\ R.alg.my_kill_jobs = B.alg.my_kill_jobs /\ R.alg.running = B.alg.running
          /\ R.calls = Append(B.calls, repair)
      <4>1. DOMAIN B.alg = AlgFields
        BY <3>5
      <4> QED BY <3>5, <4>1, CallIs DEF TimerCall
    <3> HIDE DEF R
    <3>7. /\ DOMAIN F = DecisionFields /\ F.calls = R.calls
          /\ F.alg = KillJobsOn(R.alg, m)
      BY <3>4, <3>6 DEF DecisionFields
    <3>8. DOMAIN R.alg = AlgFields
      BY <3>6 DEF SameBooks
    <3>9. /\ SameBooks(F.alg, R.alg) /\ F.alg.pending = R.alg.pending
          /\ F.alg.priority = R.alg.priority /\ F.alg.running = R.alg.running
          /\ R.alg.my_kill_jobs \subseteq F.alg.my_kill_jobs
          /\ R.alg.running # {} => \A j \in DOMAIN R.alg.allocations :
                                  m \in R.alg.allocations[j] => j \in F.alg.my_kill_jobs
      BY <3>7, <3>8, KillJobsIs
    <3>10. /\ DOMAIN C = DecisionFields /\ SameBooks(C.alg, F.alg)
           /\ C.alg.pending = F.alg.pending /\ C.alg.priority = F.alg.priority
           /\ C.alg.my_kill_jobs = F.alg.my_kill_jobs /\ C.alg.running = F.alg.running
           /\ C.calls = Append(F.calls, call)
      <4>1. DOMAIN F.alg = AlgFields
        BY <3>9 DEF SameBooks
      <4> QED BY <1>4, <3>7, <4>1, CallIs DEF TimerCall
    <3>11. repair = TimerCall(B.alg.nb_call_me_laters, "REPAIR_DONE", m,
                              clock + config.repair_time)
      OBVIOUS
    <3>12. repair.forWhat = "REPAIR_DONE" /\ call.forWhat = t.forWhat
      BY DEF TimerCall
    <3> HIDE DEF repair, call
    <3>13. ToSet(C.calls) = {repair, call}
      <4>1. C.calls = Append(Append(<< >>, repair), call)
        BY <3>5, <3>6, <3>7, <3>10
      <4>2. DOMAIN C.calls = {1, 2} /\ C.calls[1] = repair /\ C.calls[2] = call
        BY <4>1
      <4> QED BY <4>2 DEF ToSet
    <3>14. RepairTimers' = RepairTimers \cup {repair}
      BY <1>2, <2>1, <3>12, <3>13 DEF RepairTimers
    <3>15. OutForRepair(alg', alg, m)
      BY <1>4, <3>3, <3>5, <3>6, <3>9, <3>10 DEF SameBooks, OutForRepair
    <3>16. config.repair_time > 0
      BY <1>2, <2>4
    <3>17. /\ alg.running # {} => \A j \in DOMAIN alg.allocations :
                               m \in alg.allocations[j] => j \in alg'.my_kill_jobs
      BY <1>4, <3>3, <3>5, <3>6, <3>9, <3>10 DEF SameBooks, OutForRepair
    <3>18. /\ alg'.pending = alg.pending /\ alg'.priority = alg.priority
           /\ alg.my_kill_jobs \subseteq alg'.my_kill_jobs
      BY <1>4, <3>3, <3>5, <3>6, <3>9, <3>10
    <3> QED BY <1>2, <2>1, <2>4, <3>1, <3>11, <3>14, <3>15, <3>16, <3>17, <3>18,
               RepairStep
  <2> QED BY <2>2, <2>3, <2>4
<1> QED BY <1>3, <1>4 DEF Failure

\* The steps of Batsim leave the scheduler alone.
LEMMA BatsimStep ==
  ASSUME FastInv, BatsimNext, UNCHANGED alg
  PROVE  FastInv'
<1> USE DEF InStatus
<1>1. /\ config \in Simulations /\ clock \in Nat /\ status \in [Jobs -> AllStatus]
      /\ DOMAIN inbox = {"released", "ended", "killed", "other"}
      /\ inbox.released \in Seq(Jobs) /\ Distinct(inbox.released)
      /\ \A i \in DOMAIN inbox.released : status[inbox.released[i]] = "released"
      /\ inbox.ended \subseteq InStatus("done") \cup InStatus("killed")
  BY DEF FastInv, Messages
<1>2. ASSUME config' = config
      PROVE  Sound(alg)'
  BY <1>2, SoundNext DEF FastInv
<1>3. ASSUME clock' = clock, timers' = timers, \A j \in DOMAIN alg.allocations :
               Doomed(j) => Doomed(j)'
      PROVE  RepairsEnd'
  BY <1>3 DEF FastInv, RepairsEnd, RepairTimers
<1>4. ASSUME status' = status PROVE InLine'
  BY <1>4 DEF FastInv, InLine, Distinct
<1>5. CASE NoMoreStatic
  <2>1. /\ config' = config /\ clock' = clock /\ status' = status /\ on' = on
        /\ timers' = timers /\ killing' = killing
        /\ inbox'.released = inbox.released /\ inbox'.ended = inbox.ended
        /\ inbox'.other = TRUE /\ DOMAIN inbox' = {"released", "ended", "killed", "other"}
    BY <1>1, <1>5 DEF NoMoreStatic
  <2>2. \A j : Doomed(j) => Doomed(j)'
    BY <2>1 DEF Doomed
  <2>3. Messages'
    BY <1>1, <2>1 DEF Messages, Distinct
  <2>4. OnTheirMachines'
    BY <2>1 DEF FastInv, OnTheirMachines
  <2> QED BY <1>2, <1>3, <1>4, <2>1, <2>2, <2>3, <2>4 DEF FastInv
<1>6. ASSUME NEW j \in Jobs, Submit(j) PROVE FastInv'
  <2>1. /\ config' = config /\ clock' = clock /\ on' = on
        /\ status[j] = "todo" /\ status' = [status EXCEPT ![j] = "released"]
        /\ timers' = timers /\ killing' = killing
        /\ inbox'.released = Append(inbox.released, j) /\ inbox'.ended = inbox.ended
        /\ inbox'.other = inbox.other
        /\ DOMAIN inbox' = {"released", "ended", "killed", "other"}
    BY <1>1, <1>6 DEF Submit
  <2>2. \A k : Doomed(k) => Doomed(k)'
    BY <2>1 DEF Doomed
  <2>3. status' \in [Jobs -> AllStatus]
    BY <1>1, <2>1 DEF AllStatus
  <2>4. /\ status'[j] = "released"
        /\ \A k \in Jobs : status[k] # "todo" => status'[k] = status[k]
    BY <1>1, <2>1
  <2> DEFINE q == inbox.released  r == inbox'.released  n == Len(q)
  <2>5. /\ r \in Seq(Jobs) /\ DOMAIN r = 1..(n + 1) /\ DOMAIN q = 1..n /\ n \in Nat
        /\ r[n + 1] = j /\ (\A k \in 1..n : r[k] = q[k])
    BY <1>1, <2>1
  <2>6. \A k \in 1..n : status[q[k]] = "released" /\ q[k] # j /\ q[k] \in Jobs
    BY <1>1, <2>1, <2>5
  <2>7. Distinct(q)
    BY <1>1
  <2> HIDE DEF q, r, n
  <2>8. \A k \in 1..(n + 1) : k = n + 1 \/ k \in 1..n
    BY <2>5
  <2>9. Distinct(r)
    BY <2>5, <2>6, <2>7, <2>8 DEF Distinct
  <2>10. \A k \in DOMAIN r : status'[r[k]] = "released"
    BY <2>4, <2>5, <2>6, <2>8
  <2>11. InStatus("done")' = InStatus("done") /\ InStatus("killed")' = InStatus("killed")
         /\ InStatus("running")' = InStatus("running")
    BY <2>1, <2>4
  <2>12. Messages'
    <3>1. inbox'.released = r /\ Distinct(inbox.released)'
      BY <2>9 DEF r, Distinct
    <3> QED BY <1>1, <2>1, <2>3, <2>5, <2>10, <2>11, <3>1 DEF Messages
  <2>13. InLine'
    <3>1. \A i \in DOMAIN alg.pending : alg.pending[i] \in Jobs
      BY DEF FastInv, InLine
    <3>2. \A i \in DOMAIN alg.pending : status'[alg.pending[i]] = "queued"
      BY <2>4, <3>1 DEF FastInv, InLine
    <3>3. alg.priority # None => alg.priority \in InStatus("queued")'
      BY <2>4 DEF FastInv, InLine
    <3> QED BY <3>2, <3>3 DEF FastInv, InLine, Distinct
  <2>14. OnTheirMachines'
    BY <2>1, <2>11 DEF FastInv, OnTheirMachines
  <2> QED BY <1>2, <1>3, <2>1, <2>2, <2>12, <2>13, <2>14 DEF FastInv
<1>7. ASSUME NEW j \in Jobs, End(j) PROVE FastInv'
  <2>1. /\ config' = config /\ clock' = clock /\ on' = on
        /\ status[j] = "running" /\ status' = [status EXCEPT ![j] = "done"]
        /\ timers' = timers /\ killing' = killing
        /\ inbox'.released = inbox.released /\ inbox'.ended = inbox.ended \cup {j}
        /\ inbox'.other = inbox.other
        /\ DOMAIN inbox' = {"released", "ended", "killed", "other"}
    BY <1>1, <1>7 DEF End
  <2>2. \A k : Doomed(k) => Doomed(k)'
    BY <2>1 DEF Doomed
  <2>3. status' \in [Jobs -> AllStatus]
    BY <1>1, <2>1 DEF AllStatus
  <2>4. /\ status'[j] = "done"
        /\ \A k \in Jobs \ {j} : status'[k] = status[k]
    BY <1>1, <2>1
  <2>5. InStatus("running")' = InStatus("running") \ {j}
        /\ InStatus("done") \cup {j} \subseteq InStatus("done")'
        /\ InStatus("killed") \subseteq InStatus("killed")'
    BY <2>1, <2>4
  <2>6. Messages'
    <3>1. \A i \in DOMAIN inbox.released : status'[inbox.released[i]] = "released"
      <4>1. \A i \in DOMAIN inbox.released : inbox.released[i] \in Jobs \ {j}
        BY <1>1, <2>1
      <4> QED BY <1>1, <2>4, <4>1
    <3>2. Distinct(inbox.released)'
      BY <1>1, <2>1 DEF Distinct
    <3> QED BY <1>1, <2>1, <2>3, <2>5, <3>1, <3>2 DEF Messages
  <2>7. InLine'
    <3>1. \A i \in DOMAIN alg.pending : alg.pending[i] \in Jobs \ {j}
      BY <2>1 DEF FastInv, InLine
    <3>2. \A i \in DOMAIN alg.pending : status'[alg.pending[i]] = "queued"
      BY <2>4, <3>1 DEF FastInv, InLine
    <3>3. alg.priority # None => alg.priority \in InStatus("queued")'
      BY <2>1, <2>4 DEF FastInv, InLine
    <3> QED BY <3>2, <3>3 DEF FastInv, InLine, Distinct
  <2>8. OnTheirMachines'
    <3>1. j \in InStatus("running")
      BY <2>1
    <3> QED BY <2>1, <2>5, <3>1 DEF FastInv, OnTheirMachines
  <2> QED BY <1>2, <1>3, <2>1, <2>2, <2>6, <2>7, <2>8 DEF FastInv
<1>8. ASSUME NEW k \in killing, KillDone(k) PROVE FastInv'
  <2> DEFINE dead == k \cap InStatus("running")
  <2>1. /\ config' = config /\ clock' = clock /\ on' = on /\ timers' = timers
        /\ killing' = killing \ {k}
        /\ status' = [j \in Jobs |-> IF j \in k /\ status[j] = "running" THEN "killed"
                                     ELSE status[j]]
        /\ inbox'.released = inbox.released /\ inbox'.ended = inbox.ended \cup dead
        /\ inbox'.other = inbox.other
        /\ DOMAIN inbox' = {"released", "ended", "killed", "other"}
    BY <1>1, <1>8 DEF KillDone
  <2>2. \A j \in Jobs : status'[j] = IF j \in dead THEN "killed" ELSE status[j]
    BY <2>1
  <2>3. \A j \in dead : j \in Jobs /\ status[j] = "running"
    OBVIOUS
  <2> HIDE DEF dead
  <2>4. status' \in [Jobs -> AllStatus]
    <3>1. status' = [j \in Jobs |-> status'[j]]
      BY <2>1
    <3>2. \A j \in Jobs : status'[j] \in AllStatus
      BY <1>1, <2>2 DEF AllStatus
    <3> QED BY <3>1, <3>2
  <2>5. InStatus("running")' = InStatus("running") \ dead
        /\ InStatus("done") \subseteq InStatus("done")'
        /\ InStatus("killed") \cup dead \subseteq InStatus("killed")'
    BY <2>2, <2>3
  <2>6. ASSUME NEW j \in DOMAIN alg.allocations, Doomed(j) PROVE Doomed(j)'
    <3>1. j \in InStatus("running") \/ j \in inbox.ended
      BY DEF FastInv, OnTheirMachines
    <3>2. CASE j \in k /\ j \in InStatus("running")
      BY <2>1, <3>2 DEF Doomed, dead
    <3>3. CASE j \in inbox.ended
      BY <2>1, <3>3 DEF Doomed
    <3>4. CASE j \notin k
      BY <2>1, <2>6, <3>4 DEF Doomed
    <3> QED BY <3>1, <3>2, <3>3, <3>4
  <2>7. Messages'
    <3>1. \A i \in DOMAIN inbox.released : status'[inbox.released[i]] = "released"
      <4>1. \A i \in DOMAIN inbox.released : inbox.released[i] \in Jobs \ dead
        BY <1>1, <2>3
      <4> QED BY <1>1, <2>2, <4>1
    <3>2. Distinct(inbox.released)'
      BY <1>1, <2>1 DEF Distinct
    <3> QED BY <1>1, <2>1, <2>4, <2>5, <3>1, <3>2 DEF Messages
  <2>8. InLine'
    <3>1. \A i \in DOMAIN alg.pending : alg.pending[i] \in Jobs \ dead
      BY <2>3 DEF FastInv, InLine
    <3>2. \A i \in DOMAIN alg.pending : status'[alg.pending[i]] = "queued"
      BY <2>2, <3>1 DEF FastInv, InLine
    <3>3. alg.priority # None => alg.priority \in InStatus("queued")'
      BY <2>2, <2>3 DEF FastInv, InLine
    <3> QED BY <3>2, <3>3 DEF FastInv, InLine, Distinct
  <2>9. OnTheirMachines'
    <3>1. dead \subseteq InStatus("running")
      BY DEF dead
    <3> QED BY <2>1, <2>5, <3>1 DEF FastInv, OnTheirMachines
  <2> QED BY <1>2, <1>3, <2>1, <2>6, <2>7, <2>8, <2>9 DEF FastInv
<1>9. CASE Tick
  <2>1. /\ config' = config /\ clock' = clock + 1 /\ status' = status /\ on' = on
        /\ timers' = timers /\ killing' = killing /\ inbox' = inbox
        /\ killing = {} /\ inbox = NoEvents
    BY <1>9 DEF Tick, Delivered
  <2>2. \A j : ~Doomed(j)
    BY <2>1 DEF Doomed, NoEvents
  <2>3. ~alg.mistaken => \A j \in DOMAIN alg.allocations :
                           alg.allocations[j] \cap alg.repair = {}
    BY <2>2 DEF FastInv, RepairsEnd
  <2>4. RepairsEnd'
    <3> SUFFICES ASSUME ~alg.mistaken PROVE RepairsEnd'
      BY DEF RepairsEnd
    <3>1. RepairTimers' = RepairTimers
      BY <2>1 DEF RepairTimers
    <3>2. \A t \in RepairTimers : \A j \in DOMAIN alg.allocations :
             t.about \notin alg.allocations[j]
      BY <2>3 DEF FastInv, RepairsEnd
    <3> QED BY <2>1, <2>3, <3>1, <3>2 DEF FastInv, RepairsEnd
  <2>5. Messages' /\ OnTheirMachines'
    BY <1>1, <2>1 DEF Messages, FastInv, OnTheirMachines, Distinct
  <2> QED BY <1>2, <1>4, <2>1, <2>4, <2>5 DEF FastInv
<1> QED BY <1>5, <1>6, <1>7, <1>8, <1>9 DEF BatsimNext
-----------------------------------------------------------------------------
(* The theorems.                                                            *)

\* A step of the system keeps the invariant.
LEMMA FastInvStep ==
  ASSUME RepairsAreHandled, FastInv, [Next]_vars
  PROVE  FastInv'
<1>1. CASE make_decisions
  BY <1>1, DecisionStep
<1>2. ASSUME NEW t \in timers, on_requested_call(t)
      PROVE  FastInv'
  BY <1>2, FailureStep, RepairDoneStep DEF on_requested_call
<1>3. CASE BatsimNext /\ UNCHANGED alg
  BY <1>3, BatsimStep
<1>4. CASE UNCHANGED vars
  <2>1. /\ alg' = alg /\ config' = config /\ inbox' = inbox /\ clock' = clock
        /\ status' = status /\ on' = on /\ timers' = timers /\ killing' = killing
    BY <1>4 DEF vars, batsim
  <2>2. Sound(alg)'
    BY <2>1, SoundNext DEF FastInv
  <2>3. Messages' /\ OnTheirMachines' /\ InLine'
    BY <2>1 DEF FastInv, Messages, OnTheirMachines, InLine, InStatus, Distinct
  <2>4. RepairsEnd'
    BY <2>1 DEF FastInv, RepairsEnd, RepairTimers, Doomed
  <2> QED BY <2>2, <2>3, <2>4 DEF FastInv
<1> QED BY <1>1, <1>2, <1>3, <1>4 DEF Next

\* The invariant holds in every state: the scheduler knows the jobs that run and those
\* that have ended and are not yet told of, and jobs wait once; until REPAIR_DONE is
\* taken for another machine the books are theirs too, and when the machine comes back
\* no job is on it.
THEOREM BooksAreKept ==
  ASSUME RepairsAreHandled
  PROVE  Spec => []FastInv
<1>1. Init => FastInv
  BY BooksInit
<1>2. FastInv /\ [Next]_vars => FastInv'
  BY FastInvStep
<1> QED BY <1>1, <1>2, PTL DEF Spec

\* What BooksBalance says of the free machines, of the cores and of what Batsim refuses
\* follows.
LEMMA BooksGiveBalance ==
  ASSUME FastInv
  PROVE  BooksBalance
<1>1. SUFFICES ASSUME Delivered, ~alg.mistaken
               PROVE  LET busy == UNION {on[j] : j \in InStatus("running")}
                      IN /\ alg.nb_available = Cardinality(alg.available)
                         /\ alg.available = Machines \ (busy \cup alg.unavailable)
                         /\ \A m \in Machines :
                              alg.cores[m] = Cores - Cardinality({j \in InStatus("running") :
                                                        SharePacked(j) /\ m \in on[j]})
                         /\ ~Refused
  BY DEF BooksBalance
<1>0. Books(alg)
  BY <1>1 DEF FastInv, Sound
<1> DEFINE busy == UNION {on[j] : j \in InStatus("running")}
<1>2. /\ DOMAIN alg.allocations = InStatus("running")
      /\ \A j \in InStatus("running") : alg.allocations[j] = on[j]
  BY <1>1 DEF FastInv, OnTheirMachines, Delivered, NoEvents
<1>3. alg.nb_available = Cardinality(alg.available)
  BY <1>0 DEF Books, FreeOnes
<1>4. \A m \in alg.core_machines : m \in busy
  <2>. TAKE m \in alg.core_machines
  <2>1. PICK j \in PackedOn(alg, m) : TRUE
    BY <1>0 DEF Books, CoresLeft
  <2>2. j \in InStatus("running") /\ m \in on[j]
    BY <1>2, <2>1 DEF PackedOn, Packed
  <2> QED BY <2>2
<1>5. \A m \in WholeMachines(alg) : m \in busy
  BY <1>2 DEF WholeMachines, Whole
<1>6. \A m \in busy : m \in alg.core_machines \cup WholeMachines(alg) \cup alg.unavailable
  <2>. TAKE m \in busy
  <2>1. PICK j \in InStatus("running") : m \in on[j]
    OBVIOUS
  <2>2. j \in DOMAIN alg.allocations /\ m \in alg.allocations[j]
    BY <1>2, <2>1
  <2>3. CASE SharePacked(j)
    <3>1. j \in Packed(alg)
      BY <2>2, <2>3 DEF Packed
    <3> QED BY <1>0, <2>2, <3>1 DEF Books, CoresLeft, OutOfUse
  <2>4. CASE ~SharePacked(j)
    <3>1. j \in Whole(alg)
      BY <2>2, <2>4 DEF Whole
    <3> QED BY <2>2, <3>1 DEF WholeMachines
  <2> QED BY <2>3, <2>4
<1> HIDE DEF busy
<1>7. alg.available = Machines \ (busy \cup alg.unavailable)
  <2>1. alg.available = Machines \ (alg.core_machines \cup WholeMachines(alg)
                                      \cup alg.unavailable)
    BY <1>0 DEF Books, FreeOnes
  <2> QED BY <1>4, <1>5, <1>6, <2>1
<1>8. ASSUME NEW m \in Machines
      PROVE  alg.cores[m] = Cores - Cardinality({j \in InStatus("running") :
                                                   SharePacked(j) /\ m \in on[j]})
  <2>1. PackedOn(alg, m) = {j \in InStatus("running") : SharePacked(j) /\ m \in on[j]}
    BY <1>2 DEF PackedOn, Packed
  <2> QED BY <1>0, <2>1 DEF Books, CoresLeft
<1>9. ASSUME NEW j \in InStatus("running")
      PROVE  /\ on[j] \subseteq Machines /\ Cardinality(on[j]) = nb_requested_resources[j]
             /\ ~config.share_packing =>
                  \A k \in InStatus("running") \ {j} : on[j] \cap on[k] = {}
  <2>1. j \in DOMAIN alg.allocations /\ alg.allocations[j] = on[j]
    BY <1>2
  <2>2. on[j] \subseteq Machines
    BY <1>0, <2>1 DEF Books, Kept
  <2>3. CASE SharePacked(j)
    <3>1. PICK m : alg.allocations[j] = {m}
      BY <1>0, <2>1, <2>3 DEF Books, CoresLeft, Packed
    <3>2. Cardinality(on[j]) = 1
      BY <2>1, <3>1, FS_Singleton
    <3> QED BY <2>2, <2>3, <3>2 DEF SharePacked
  <2>4. CASE ~SharePacked(j)
    <3>1. j \in Whole(alg)
      BY <2>1, <2>4 DEF Whole
    <3>2. Cardinality(on[j]) = nb_requested_resources[j]
      BY <1>0, <2>1, <3>1 DEF Books, WholeAlone
    <3>3. ASSUME ~config.share_packing, NEW k \in InStatus("running") \ {j}
          PROVE  on[j] \cap on[k] = {}
      <4>1. k \in Whole(alg) /\ alg.allocations[k] = on[k]
        BY <1>2, <3>3 DEF Whole, SharePacked
      <4> QED BY <1>0, <2>1, <3>1, <4>1 DEF Books, WholeAlone
    <3> QED BY <2>2, <3>2, <3>3
  <2> QED BY <2>3, <2>4
<1>10. ~Refused
  BY <1>9 DEF Refused
<1> QED BY <1>3, <1>7, <1>8, <1>10 DEF busy

\* Once a message is answered, and until REPAIR_DONE is taken for another machine, the
\* machines counted as free are those that no job is on, a machine that is shared has
\* the cores left that its jobs leave, and every job has the machines that it asked for,
\* which no other job has unless machines are shared.
THEOREM BooksAlwaysBalance ==
  ASSUME RepairsAreHandled
  PROVE  Spec => []BooksBalance
<1>1. FastInv => BooksBalance
  BY BooksGiveBalance
<1> QED BY <1>1, BooksAreKept, PTL
-----------------------------------------------------------------------------
(* First come, first served.                                                *)

\* Asking to be called later changes neither the books nor the queue.
LEMMA CallKeepsQueue ==
  ASSUME NEW D, DOMAIN D = DecisionFields, DOMAIN D.alg = AlgFields, NEW forWhat,
         NEW about, NEW date, NEW C, C = CallMeLater(D, forWhat, about, date)
  PROVE  /\ DOMAIN C = DecisionFields /\ SameBooks(C.alg, D.alg)
         /\ C.alg.pending = D.alg.pending
BY DEF CallMeLater, SameBooks, DecisionFields, AlgFields

\* A failure leaves the queue alone.
LEMMA FailurePending ==
  ASSUME FastInv, NEW t, Failure(t)
  PROVE  alg'.pending = alg.pending
<1>1. DOMAIN alg = AlgFields
  BY DEF FastInv, Sound, Fields
<1>2. CASE UNCHANGED alg
  BY <1>2
<1>3. ASSUME NEW F \in Failures(t.forWhat), NEW d, NEW C,
             C = CallMeLater(F, t.forWhat, 1, d), alg' = C.alg
      PROVE  alg'.pending = alg.pending
  <2>1. DOMAIN F = DecisionFields /\ DOMAIN F.alg = AlgFields
        /\ F.alg.pending = alg.pending
    <3>1. CASE F = Begin(alg)
      BY <1>1, <3>1 DEF Begin, DecisionFields
    <3>2. ASSUME NEW j, F = [Begin(alg) EXCEPT !.alg.my_kill_jobs = @ \cup {j}]
          PROVE  DOMAIN F = DecisionFields /\ DOMAIN F.alg = AlgFields
                 /\ F.alg.pending = alg.pending
      BY <1>1, <3>2 DEF Begin, DecisionFields, AlgFields
    <3>3. ASSUME NEW m, F = on_machine_instant_down_up(m)
          PROVE  DOMAIN F = DecisionFields /\ DOMAIN F.alg = AlgFields
                 /\ F.alg.pending = alg.pending
      <4>1. DOMAIN F = DecisionFields /\ F.alg = KillJobsOn(alg, m)
        BY <3>3 DEF on_machine_instant_down_up, Begin, DecisionFields
      <4> QED BY <1>1, <4>1, KillJobsIs DEF SameBooks
    <3>4. ASSUME NEW m, F = on_machine_down_for_repair(m), m \notin alg.repair
          PROVE  DOMAIN F = DecisionFields /\ DOMAIN F.alg = AlgFields
                 /\ F.alg.pending = alg.pending
      <4> DEFINE a == [alg EXCEPT !.available = @ \ {m}, !.unavailable = @ \cup {m},
                                  !.repair = @ \cup {m},
                                  !.nb_available = Cardinality(alg.available \ {m})]
                 B == Begin(a)
                 R == CallMeLater(B, "REPAIR_DONE", m, clock + config.repair_time)
      <4>1. DOMAIN a = AlgFields /\ a.pending = alg.pending
        BY <1>1 DEF AlgFields
      <4>2. F = [R EXCEPT !.alg = KillJobsOn(@, m)]
        BY <3>4 DEF on_machine_down_for_repair
      <4> HIDE DEF a
      <4>3. DOMAIN B = DecisionFields /\ B.alg = a
        BY DEF Begin, DecisionFields
      <4> HIDE DEF B
      <4>4. DOMAIN R = DecisionFields /\ SameBooks(R.alg, B.alg)
            /\ R.alg.pending = B.alg.pending
        <5>1. DOMAIN B.alg = AlgFields
          BY <4>1, <4>3
        <5> QED BY <4>3, <5>1, CallKeepsQueue
      <4> HIDE DEF R
      <4>5. DOMAIN F = DecisionFields /\ F.alg = KillJobsOn(R.alg, m)
        BY <4>2, <4>4 DEF DecisionFields
      <4>6. DOMAIN R.alg = AlgFields
        BY <4>4 DEF SameBooks
      <4>7. SameBooks(F.alg, R.alg) /\ F.alg.pending = R.alg.pending
        BY <4>5, <4>6, KillJobsIs
      <4> QED BY <4>1, <4>3, <4>4, <4>5, <4>7 DEF SameBooks
    <3>5. ASSUME NEW m, F = on_machine_down_for_repair(m), m \in alg.repair
          PROVE  F = Begin(alg)
      BY <3>5 DEF on_machine_down_for_repair
    <3> QED BY <1>3, <3>1, <3>2, <3>3, <3>4, <3>5 DEF Failures, on_myKillJob_notify_event
  <2>2. C.alg.pending = F.alg.pending
    BY <1>3, <2>1, CallKeepsQueue
  <2> QED BY <1>3, <2>1, <2>2
<1> QED BY <1>2, <1>3 DEF Failure

\* In one step no job is started while one waits that was before it.
LEMMA ServedInTurn ==
  ASSUME FastInv, [Next]_vars, Fcfs,
         NEW j \in ToSet(alg.pending), NEW i \in ToSet(alg'.pending),
         j \notin ToSet(alg'.pending), i \in ToSet(alg.pending)
  PROVE  \E k, l \in DOMAIN alg.pending :
           k < l /\ alg.pending[k] = j /\ alg.pending[l] = i
<1>1. alg'.pending # alg.pending
  OBVIOUS
<1>2. DOMAIN alg = AlgFields
  BY DEF FastInv, Sound, Fields
<1>3. \A t : ~RepairDone(t)
  <2>1. \A t : RepairDone(t) => alg'.pending = alg.pending
    BY <1>2 DEF RepairDone, AlgFields
  <2> QED BY <1>1, <2>1
<1>4. make_decisions
  <2>1. \A t : ~Failure(t)
    BY <1>1, FailurePending
  <2> QED BY <1>1, <1>3, <2>1 DEF Next, on_requested_call, vars
<1>5. alg' = Decision.alg
  BY <1>4 DEF make_decisions
<1> DEFINE p == alg.pending  n == Len(p)
<1>6. PICK q \in Seq(Jobs) : EndOf(p, n, q)
          /\ \A x : x \notin ToSet(inbox.released) =>
               (InQueue(Decision, x) <=> \E k \in DOMAIN q : q[k] = x)
  BY DecisionKeeps
<1>7. p \in Seq(Jobs) /\ Distinct(p) /\ n \in Nat /\ DOMAIN p = 1..n
  BY DEF FastInv, InLine
<1>8. \A x \in ToSet(p) : x \notin ToSet(inbox.released)
  <2>1. \A x \in ToSet(p) : status[x] = "queued"
    BY DEF FastInv, InLine, ToSet
  <2>2. \A x \in ToSet(inbox.released) : status[x] = "released"
    BY DEF FastInv, Messages, ToSet
  <2> QED BY <2>1, <2>2
<1>9. (\E o \in DOMAIN q : q[o] = i) /\ ~\E o \in DOMAIN q : q[o] = j
  <2>1. \A x : x \in ToSet(alg'.pending) <=> InQueue(Decision, x)
    BY <1>5 DEF ToSet, InQueue
  <2> QED BY <1>6, <1>8, <2>1
<1> HIDE DEF p, n
<1>10. PICK o \in DOMAIN q : q[o] = i
  BY <1>9
<1>11. /\ Len(q) \in Nat /\ Len(q) <= n /\ DOMAIN q = 1..Len(q)
       /\ \A k \in 1..Len(q) : q[k] = p[n - Len(q) + k]
  BY <1>6, <1>7 DEF EndOf
<1>12. PICK k \in DOMAIN p : p[k] = j
  BY DEF ToSet, p
<1>13. k \in 1..n /\ o \in 1..Len(q)
  BY <1>7, <1>10, <1>11, <1>12
<1>14. k <= n - Len(q)
  <2>1. SUFFICES ASSUME k > n - Len(q) PROVE FALSE
    BY <1>7, <1>11, <1>13
  <2>2. k - (n - Len(q)) \in 1..Len(q) /\ n - Len(q) + (k - (n - Len(q))) = k
    BY <1>7, <1>11, <1>13, <2>1
  <2>3. q[k - (n - Len(q))] = p[k]
    BY <1>11, <2>2
  <2> QED BY <1>9, <1>11, <1>12, <2>2, <2>3
<1>15. n - Len(q) + o \in 1..n /\ k < n - Len(q) + o
  BY <1>7, <1>11, <1>13, <1>14
<1>16. p[n - Len(q) + o] = i
  BY <1>10, <1>11, <1>13
<1> QED BY <1>7, <1>12, <1>15, <1>16 DEF p

\* Where jobs wait in turn none is started while one waits that was before it in
\* the queue, also where jobs share machines or come back after a kill.
THEOREM ServedInTurnAlways ==
  ASSUME RepairsAreHandled
  PROVE  Spec => FirstComeFirstServed
<1>1. FastInv /\ [Next]_vars =>
        [Fcfs => \A j \in ToSet(alg.pending), i \in ToSet(alg'.pending) :
           j \notin ToSet(alg'.pending) /\ i \in ToSet(alg.pending) =>
             \E k, l \in DOMAIN alg.pending :
               k < l /\ alg.pending[k] = j /\ alg.pending[l] = i]_vars
  BY ServedInTurn
<1> QED BY <1>1, BooksAreKept, PTL DEF Spec, FirstComeFirstServed
=============================================================================
