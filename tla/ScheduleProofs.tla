---------------------------- MODULE ScheduleProofs ----------------------------
(***************************************************************************)
(* What class Schedule promises of its slices: no machine is given twice,  *)
(* a job keeps its machines in consecutive slices for its walltime, and    *)
(* the slices that are merged offer the same machines.  The invariant says *)
(* of one slice what it holds, and of the slices how those next to each    *)
(* other fit; each operation of the class is shown to keep it.  Then what  *)
(* easy_bf2 does with its schedule: no job starts on a machine under       *)
(* repair, and the schedule agrees with Batsim.  At the end the calendar:  *)
(* its allocations do not overlap, and the slices implement it.            *)
(***************************************************************************)
EXTENDS Schedule, EasyBF2, Calendar, FiniteSetTheorems, SequenceTheorems, TLAPS

-----------------------------------------------------------------------------
(* The invariant.                                                           *)

Allotments == UNION {[D -> SUBSET Machines] : D \in SUBSET Jobs}

SliceRecord ==
  [begin : Int, end : Int, available : SUBSET Machines, allocated : SUBSET Machines,
   nb_available : Int, jobs : Allotments, nb_reservations : Int,
   has_reservation : BOOLEAN]

\* A slice gives no machine twice, offers none that is given or under repair
\* (rp), and counts no more than it offers.
SliceSound(sl, rp) ==
  /\ sl \in SliceRecord
  /\ \A j, k \in DOMAIN sl.jobs : j # k => sl.jobs[j] \cap sl.jobs[k] = {}
  /\ \A j \in DOMAIN sl.jobs :
       /\ sl.jobs[j] \subseteq sl.allocated
       /\ sl.jobs[j] \cap sl.available = {}
       /\ Cardinality(sl.jobs[j]) = nb_requested_resources[j]
  /\ sl.available \cap rp = {}
  /\ sl.nb_available <= Cardinality(sl.available)

\* Without repairs a slice offers every machine that it has not given, and
\* counts them all.
SliceExact(sl) ==
  /\ \A m \in Machines : m \in sl.available \/ \E j \in DOMAIN sl.jobs : m \in sl.jobs[j]
  /\ sl.nb_available = Cardinality(sl.available)

IsProfile(p) == p \in Seq(SliceRecord) /\ Len(p) >= 1

Sound(p, rp) == IsProfile(p) /\ \A i \in DOMAIN p : SliceSound(p[i], rp)
Exact(p) == \A i \in DOMAIN p : SliceExact(p[i])

\* A job has the same machines in consecutive slices.
Runs(p, j, i) == j \in DOMAIN p[i].jobs
Steady(p) ==
  \A j \in Jobs : \A x, z \in DOMAIN p :
    Runs(p, j, x) /\ Runs(p, j, z) =>
      p[x].jobs[j] = p[z].jobs[j] /\ \A y \in x..z : Runs(p, j, y)

\* The slices follow each other up to the horizon; only the first may be empty.
Timed(p) ==
  /\ p[1].begin <= p[1].end /\ p[Len(p)].end = Horizon
  /\ \A x \in DOMAIN p : p[x].end <= Horizon
  /\ \A x \in 2..Len(p) : p[x].begin = p[x-1].end /\ p[x].begin < p[x].end

\* From its first slice to its last a job has its walltime, or what is left.
Begins(p, j, x) == Runs(p, j, x) /\ (x = 1 \/ ~Runs(p, j, x - 1))
Ends(p, j, z) == Runs(p, j, z) /\ (z = Len(p) \/ ~Runs(p, j, z + 1))
Lasts(p, j, x, z) ==
  LET w == WalltimeFrom(walltime[j], p[x].begin)
  IN /\ p[z].end - p[x].begin <= w
     /\ x # 1 => p[z].end - p[x].begin = w
Lasting(p) ==
  \A j \in Jobs : \A x, z \in DOMAIN p :
    Begins(p, j, x) /\ Ends(p, j, z) => Lasts(p, j, x, z)

Firm(p, rp) == Sound(p, rp) /\ Steady(p)
Paced(p) == Timed(p) /\ Lasting(p)

\* What the first slice holds, but the jobs out, it still holds.
FirstKept(p, r, out) ==
  \A k \in Jobs \ out :
    Runs(p, k, 1) => Runs(r, k, 1) /\ r[1].jobs[k] = p[1].jobs[k]

\* The profile p has become r, by something that happened to the jobs out.
Keeps(p, r, rp, out) ==
  /\ Firm(r, rp) /\ FirstKept(p, r, out)
  /\ rp = {} /\ Exact(p) => Exact(r)
  /\ Paced(p) => Paced(r)

\* The profile offers no machine under repair, also after a failed assertion.
Offers(p, rp) ==
  IsProfile(p) /\ \A x \in DOMAIN p : p[x].available \cap rp = {}

ScheduleRecord ==
  [profile : Seq(SliceRecord), repair : SUBSET Machines, size : Int,
   nb_jobs_size : Int, nb_reservations_size : Int, ok : BOOLEAN]

\* S is a schedule that offers no machine under repair.
IsSchedule(S) == S \in ScheduleRecord /\ Offers(S.profile, S.repair)

\* T is the schedule S in which something happened to the jobs out.
Becomes(S, T, out) ==
  /\ IsSchedule(T) /\ T.repair = S.repair
  /\ T.ok => S.ok
  /\ Firm(S.profile, S.repair) => Keeps(S.profile, T.profile, S.repair, out)

\* The period of a job that is planned, as CalendarOf has it: from the begin of
\* its first slice to the end of its last one.
IsPlanned(p, j) == \E x \in DOMAIN p : Runs(p, j, x)
PeriodOf(p, j) ==
  LET occ == Occurrences(p, j)
      f == Least(occ)
      l == CHOOSE x \in occ : \A y \in occ : y <= x
  IN [begin |-> p[f].begin, end |-> p[l].end, machines |-> p[f].jobs[j]]

\* In r a job has the period that it has in p; so have the jobs of J, and the
\* present is the same.
SamePeriod(p, r, j) ==
  /\ IsPlanned(r, j) <=> IsPlanned(p, j)
  /\ IsPlanned(p, j) => PeriodOf(r, j) = PeriodOf(p, j)
SamePeriods(p, r, J) == r[1].begin = p[1].begin /\ \A j \in J : SamePeriod(p, r, j)

\* Job j has got the period a, and the others have theirs.
Gains(p, r, j, a) ==
  SamePeriods(p, r, Jobs \ {j}) /\ IsPlanned(r, j) /\ PeriodOf(r, j) = a

\* Some of the jobs out are gone, and the others have their periods.
Sheds(p, r, out) ==
  /\ r[1].begin = p[1].begin
  /\ \A j \in Jobs :
       /\ IsPlanned(r, j) => IsPlanned(p, j) /\ PeriodOf(r, j) = PeriodOf(p, j)
       /\ IsPlanned(p, j) /\ j \notin out => IsPlanned(r, j)
-----------------------------------------------------------------------------
(* Finite sets of numbers, and the loops, as instances of Folding.          *)

\* The loops over the jobs that are removed, with what each of them keeps.
RemovePass(c, S, j) == remove_job(S, j)
DropPass(c, S, j) == remove_job_if_exists(S, j)
RemovalLoop(c, i, S) ==
  /\ Becomes(c.from, S, c.out)
  /\ Firm(c.from.profile, c.from.repair) => Sheds(c.from.profile, S.profile, c.out)
RL == INSTANCE Folding WITH Step <- RemovePass, Inv <- RemovalLoop
DL == INSTANCE Folding WITH Step <- DropPass, Inv <- RemovalLoop

\* The loop over the reservations that start, which are none here.
StartPass(c, S, r) == add_current_reservation(S, r, c[r]).schedule
StartLoop(c, i, S) == i = 0
SL == INSTANCE Folding WITH Step <- StartPass, Inv <- StartLoop

\* Finite sets and their sizes are those of module Folding.
LEMMA SameSets ==
  /\ \A S : RL!Cardinality(S) = Cardinality(S)
  /\ \A S : RL!IsFiniteSet(S) <=> IsFiniteSet(S)
<1>1. ASSUME NEW S PROVE RL!Cardinality(S) = Cardinality(S)
  BY DEF RL!Cardinality, Cardinality
<1>2. ASSUME NEW S PROVE RL!IsFiniteSet(S) <=> IsFiniteSet(S)
  BY DEF RL!IsFiniteSet, IsFiniteSet
<1> QED BY <1>1, <1>2

\* Sets of machines are finite sets of numbers.
LEMMA MachinesFinite ==
  ASSUME NEW A, A \subseteq Machines
  PROVE  IsFiniteSet(A) /\ Cardinality(A) \in Nat /\ A \subseteq Int
BY PlatformAssumption, FS_Subset, FS_CardinalityType

\* Sets of jobs are finite sets of numbers.
LEMMA JobsFinite ==
  ASSUME NEW A, A \subseteq Jobs
  PROVE  IsFiniteSet(A) /\ Cardinality(A) \in Nat /\ A \subseteq Int
BY PlatformAssumption, FS_Subset, FS_CardinalityType

\* A set of positions has a first one.
LEMMA LeastIs ==
  ASSUME NEW S \in SUBSET Nat, S # {}
  PROVE  Least(S) \in S /\ \A y \in S : Least(S) <= y
BY RL!SmallestNat DEF Least

\* IntervalSet::left returns as many machines as it is asked for.
LEMMA LeftOfIs ==
  ASSUME NEW A \in SUBSET Int, IsFiniteSet(A), NEW n \in Nat, n <= Cardinality(A)
  PROVE  LeftOf(A, n) \subseteq A /\ Cardinality(LeftOf(A, n)) = n
<1>1. RL!IsFiniteSet(A) /\ n <= RL!Cardinality(A)
  BY SameSets
<1>2. PICK B : RL!Leftmost(A, n, B)
  BY <1>1, RL!LeftmostExist
<1>3. /\ B \in SUBSET A /\ Cardinality(B) = n
      /\ \A x \in B, y \in A \ B : x < y
  BY <1>2, SameSets DEF RL!Leftmost
<1> QED BY <1>3 DEF LeftOf

\* Each element of S is in the list q once, in increasing order.
Increasing(S, q) ==
  /\ q \in Seq(S)
  /\ \A i, k \in DOMAIN q : i < k => q[i] < q[k]
  /\ \A x \in S : \E i \in DOMAIN q : q[i] = x

\* A set of numbers is listed in ascending order.
LEMMA AscendingIs ==
  ASSUME NEW S \in SUBSET Int, IsFiniteSet(S)
  PROVE  Increasing(S, Ascending(S))
<1> DEFINE ahead == [x \in S |-> {y \in S : y < x}]
<1>1. \A x \in S : ahead[x] \subseteq S \ {x}
  OBVIOUS
<1>2. \A x, y \in S : x \in ahead[y] => ahead[x] \subseteq ahead[y]
  <2>. SUFFICES ASSUME NEW x \in S, NEW y \in S, NEW z \in S, x < y, z < x
                PROVE  z < y
    OBVIOUS
  <2> x \in Int /\ y \in Int /\ z \in Int
    OBVIOUS
  <2> QED OBVIOUS
<1>3. \A x, y \in S : x # y => x \in ahead[y] \/ y \in ahead[x]
  OBVIOUS
<1>4. RL!Orders(S, ahead)
  BY <1>1, <1>2, <1>3 DEF RL!Orders
<1> DEFINE q == RL!Ranked(S, ahead)
<1>5. RL!Lists(S, ahead, q)
  <2>1. RL!IsFiniteSet(S)
    BY SameSets
  <2> HIDE DEF ahead
  <2> QED BY <1>4, <2>1, RL!RankedIs
<1>6. Ascending(S) = q
  <2>1. Listed(S, ahead) = q
    <3> HIDE DEF ahead
    <3> QED BY SameSets DEF Listed, RL!Ranked
  <2> QED BY <2>1 DEF Ascending
<1>7. \A i, k \in DOMAIN q : i < k => q[i] < q[k]
  <2>1. \A i, k \in DOMAIN q : i < k => q[i] \in ahead[q[k]] /\ q[k] \in S
    <3> HIDE DEF ahead, q
    <3> QED BY <1>5 DEF RL!Lists, RL!ListsOnce
  <2> HIDE DEF q
  <2> QED BY <2>1
<1>8. q \in Seq(S) /\ \A x \in S : \E i \in DOMAIN q : q[i] = x
  <2> HIDE DEF ahead, q
  <2> QED BY <1>5 DEF RL!Lists, RL!ListsOnce
<1> HIDE DEF q
<1> QED BY <1>6, <1>7, <1>8 DEF Increasing
-----------------------------------------------------------------------------
(* One slice.                                                               *)

\* A slice is what its fields are.
HasSliceFields(t) ==
  t = [begin |-> t.begin, end |-> t.end, available |-> t.available,
       allocated |-> t.allocated, nb_available |-> t.nb_available, jobs |-> t.jobs,
       nb_reservations |-> t.nb_reservations, has_reservation |-> t.has_reservation]

\* A record with the fields of a slice is a slice.
LEMMA SliceFields ==
  ASSUME NEW t, HasSliceFields(t),
         t.begin \in Int, t.end \in Int, t.available \subseteq Machines,
         t.allocated \subseteq Machines, t.nb_available \in Int,
         t.jobs \in Allotments, t.nb_reservations \in Int, t.has_reservation \in BOOLEAN
  PROVE  t \in SliceRecord
<1> DEFINE u == [begin |-> t.begin, end |-> t.end, available |-> t.available,
       allocated |-> t.allocated, nb_available |-> t.nb_available, jobs |-> t.jobs,
       nb_reservations |-> t.nb_reservations, has_reservation |-> t.has_reservation]
<1>1. u \in SliceRecord
  BY DEF SliceRecord
<1>2. t = u
  BY DEF HasSliceFields
<1> HIDE DEF u
<1> QED BY <1>1, <1>2

\* The types of the fields of a slice.
LEMMA FieldTypes ==
  ASSUME NEW sl \in SliceRecord
  PROVE  /\ sl.begin \in Int /\ sl.end \in Int
         /\ sl.available \subseteq Machines /\ sl.allocated \subseteq Machines
         /\ sl.nb_available \in Int /\ sl.nb_reservations \in Int
         /\ sl.has_reservation \in BOOLEAN
         /\ sl.jobs \in Allotments /\ DOMAIN sl.jobs \subseteq Jobs
         /\ \A k \in DOMAIN sl.jobs : sl.jobs[k] \subseteq Machines
BY DEF SliceRecord, Allotments

\* t is the slice sl with job j, on n machines ms.
HasGiven(sl, j, ms, n, t) ==
  /\ t.available = sl.available \ ms /\ t.allocated = sl.allocated \cup ms
  /\ t.nb_available = sl.nb_available - n
  /\ t.begin = sl.begin /\ t.end = sl.end
  /\ DOMAIN t.jobs = DOMAIN sl.jobs \cup {j} /\ t.jobs[j] = ms
  /\ \A k \in DOMAIN sl.jobs : k # j => t.jobs[k] = sl.jobs[k]

\* A slice in which a job has been given machines.
LEMMA AllocateTyped ==
  ASSUME NEW sl \in SliceRecord, NEW j \in Jobs, NEW ms, ms \subseteq Machines,
         NEW n \in Nat
  PROVE  /\ Allocate(sl, j, ms, n) \in SliceRecord
         /\ HasGiven(sl, j, ms, n, Allocate(sl, j, ms, n))
<1> DEFINE t == Allocate(sl, j, ms, n)
<1>1. /\ sl.available \subseteq Machines /\ sl.nb_available \in Int
  BY FieldTypes
<1>2. /\ t.available = sl.available \ ms /\ t.allocated = sl.allocated \cup ms
      /\ t.nb_available = sl.nb_available - n /\ t.jobs = Put(sl.jobs, j, ms)
      /\ t.begin = sl.begin /\ t.end = sl.end
      /\ t.nb_reservations = sl.nb_reservations
      /\ t.has_reservation = sl.has_reservation
  BY <1>1 DEF Allocate, SliceRecord
<1>3. /\ DOMAIN t.jobs = DOMAIN sl.jobs \cup {j} /\ t.jobs[j] = ms
      /\ \A k \in DOMAIN sl.jobs : k # j => t.jobs[k] = sl.jobs[k]
  BY <1>2 DEF Put
<1>4. t.jobs \in Allotments
  <2> DEFINE D == DOMAIN sl.jobs \cup {j}
  <2>1. t.jobs \in [D -> SUBSET Machines]
    <3>1. \A k \in D : t.jobs[k] \in SUBSET Machines
      BY <1>1, <1>3, FieldTypes
    <3>2. t.jobs = [k \in D |-> IF k = j THEN ms ELSE sl.jobs[k]]
      BY <1>2 DEF Put
    <3>3. t.jobs = [k \in D |-> t.jobs[k]]
      BY <3>2
    <3> QED BY <3>1, <3>3
  <2>2. D \subseteq Jobs
    BY <1>1, FieldTypes
  <2> QED BY <2>1, <2>2 DEF Allotments
<1>5. t \in SliceRecord
  <2>1. HasSliceFields(t)
    <3>1. t = [x \in DOMAIN sl |-> t[x]]
      BY DEF Allocate
    <3>2. DOMAIN sl = {"begin", "end", "available", "allocated", "nb_available",
                       "jobs", "nb_reservations", "has_reservation"}
      BY DEF SliceRecord
    <3> HIDE DEF t
    <3> QED BY <3>1, <3>2 DEF HasSliceFields
  <2>2. /\ t.begin \in Int /\ t.end \in Int /\ t.available \subseteq Machines
        /\ t.allocated \subseteq Machines /\ t.nb_available \in Int
        /\ t.nb_reservations \in Int /\ t.has_reservation \in BOOLEAN
    BY <1>1, <1>2, FieldTypes
  <2> HIDE DEF t
  <2> QED BY <2>1, <2>2, <1>4, SliceFields
<1> HIDE DEF t
<1>6. HasGiven(sl, j, ms, n, t)
  BY <1>2, <1>3 DEF HasGiven
<1> QED BY <1>5, <1>6 DEF t

\* The slice is sound after it, when it offers the machines.
LEMMA AllocateSound ==
  ASSUME NEW sl, NEW rp, SliceSound(sl, rp), NEW j \in Jobs, j \notin DOMAIN sl.jobs,
         NEW ms, ms \subseteq sl.available, NEW n \in Nat, Cardinality(ms) = n,
         n = nb_requested_resources[j],
         NEW t, t = Allocate(sl, j, ms, n)
  PROVE  /\ SliceSound(t, rp)
         /\ DOMAIN t.jobs = DOMAIN sl.jobs \cup {j} /\ t.jobs[j] = ms
         /\ \A k \in DOMAIN sl.jobs : t.jobs[k] = sl.jobs[k]
         /\ t.begin = sl.begin /\ t.end = sl.end
         /\ SliceExact(sl) => SliceExact(t)
<1>1. /\ sl \in SliceRecord /\ sl.available \subseteq Machines /\ ms \subseteq Machines
      /\ sl.nb_available \in Int
  BY FieldTypes DEF SliceSound
<1>a. t \in SliceRecord /\ HasGiven(sl, j, ms, n, t)
  BY <1>1, AllocateTyped
<1>2. /\ t \in SliceRecord
      /\ t.available = sl.available \ ms /\ t.allocated = sl.allocated \cup ms
      /\ t.nb_available = sl.nb_available - n
      /\ t.begin = sl.begin /\ t.end = sl.end
      /\ DOMAIN t.jobs = DOMAIN sl.jobs \cup {j} /\ t.jobs[j] = ms
      /\ \A k \in DOMAIN sl.jobs : k # j => t.jobs[k] = sl.jobs[k]
  BY <1>a DEF HasGiven
<1>3. /\ DOMAIN t.jobs = DOMAIN sl.jobs \cup {j} /\ t.jobs[j] = ms
      /\ \A k \in DOMAIN sl.jobs : t.jobs[k] = sl.jobs[k]
  BY <1>2
<1>6. /\ t.nb_available <= Cardinality(t.available)
      /\ sl.nb_available = Cardinality(sl.available)
           => t.nb_available = Cardinality(t.available)
  <2>1. Cardinality(sl.available \ ms) = Cardinality(sl.available) - Cardinality(sl.available \cap ms)
    BY <1>1, MachinesFinite, FS_Difference
  <2>2. sl.available \cap ms = ms
    OBVIOUS
  <2>3. Cardinality(sl.available \ ms) = Cardinality(sl.available) - n
    BY <2>1, <2>2
  <2>4. Cardinality(sl.available) \in Nat /\ sl.nb_available <= Cardinality(sl.available)
    BY <1>1, MachinesFinite DEF SliceSound
  <2> QED BY <1>1, <1>2, <2>3, <2>4
<1>7. /\ \A a, b \in DOMAIN t.jobs : a # b => t.jobs[a] \cap t.jobs[b] = {}
      /\ \A a \in DOMAIN t.jobs :
           /\ t.jobs[a] \subseteq t.allocated
           /\ t.jobs[a] \cap t.available = {}
           /\ Cardinality(t.jobs[a]) = nb_requested_resources[a]
      /\ t.available \cap rp = {}
  BY <1>2, <1>3 DEF SliceSound
<1>8. SliceExact(sl) => SliceExact(t)
  BY <1>2, <1>3, <1>6 DEF SliceExact
<1> QED BY <1>2, <1>3, <1>6, <1>7, <1>8 DEF SliceSound

\* t is the slice sl without job j, which gives back the machines ms.
HasFreed(sl, j, ms, t) ==
  /\ t.available = sl.available \cup ms /\ t.allocated = sl.allocated \ ms
  /\ t.nb_available = sl.nb_available + Cardinality(ms)
  /\ t.jobs = Erase(sl.jobs, j)
  /\ t.begin = sl.begin /\ t.end = sl.end

\* A slice in which a job has lost its machines.
LEMMA FreeFields ==
  ASSUME NEW sl \in SliceRecord, NEW j \in DOMAIN sl.jobs, NEW ms, NEW t,
         t = FreeIn(sl, j, ms)
  PROVE  /\ HasFreed(sl, j, ms, t) /\ HasSliceFields(t)
         /\ t.nb_reservations \in Int /\ t.has_reservation \in BOOLEAN
<1>1. sl.nb_reservations \in Int
  BY FieldTypes
<1>2. /\ t.available = sl.available \cup ms /\ t.allocated = sl.allocated \ ms
      /\ t.nb_available = sl.nb_available + Cardinality(ms)
      /\ t.jobs = Erase(sl.jobs, j)
      /\ t.begin = sl.begin /\ t.end = sl.end
      /\ t.nb_reservations \in Int /\ t.has_reservation \in BOOLEAN
      /\ HasSliceFields(t)
  <2> DEFINE f == [sl EXCEPT !.jobs = Erase(@, j), !.available = @ \cup ms,
                             !.allocated = @ \ ms,
                             !.nb_available = @ + Cardinality(ms)]
             n == sl.nb_reservations - 1
  <2>1. /\ f.available = sl.available \cup ms /\ f.allocated = sl.allocated \ ms
        /\ f.nb_available = sl.nb_available + Cardinality(ms)
        /\ f.jobs = Erase(sl.jobs, j)
        /\ f.begin = sl.begin /\ f.end = sl.end
        /\ f.nb_reservations = sl.nb_reservations
        /\ f.has_reservation = sl.has_reservation
    BY <1>1 DEF SliceRecord
  <2>2. /\ HasSliceFields(f)
        /\ DOMAIN f = {"begin", "end", "available", "allocated", "nb_available",
                       "jobs", "nb_reservations", "has_reservation"}
    <3>1. DOMAIN f = DOMAIN sl
      OBVIOUS
    <3>2. DOMAIN sl = {"begin", "end", "available", "allocated", "nb_available",
                       "jobs", "nb_reservations", "has_reservation"}
      BY <1>1 DEF SliceRecord
    <3>3. f = [x \in DOMAIN sl |-> f[x]]
      OBVIOUS
    <3> HIDE DEF f
    <3> QED BY <3>1, <3>2, <3>3 DEF HasSliceFields
  <2>3. CASE j \notin Reservations
    <3>1. t = f
      BY <2>3 DEF FreeIn
    <3> HIDE DEF f
    <3> QED BY <3>1, <2>1, <2>2, <1>1, FieldTypes
  <2>4. CASE j \in Reservations
    <3>1. t = [f EXCEPT !.nb_reservations = n, !.has_reservation = @ /\ n # 0]
      BY <2>4 DEF FreeIn
    <3> HIDE DEF f, n
    <3>2. /\ t.available = f.available /\ t.allocated = f.allocated
          /\ t.nb_available = f.nb_available /\ t.jobs = f.jobs
          /\ t.begin = f.begin /\ t.end = f.end
          /\ t.nb_reservations = n
      BY <3>1, <2>2
    <3>3. t.has_reservation = (f.has_reservation /\ n # 0)
      BY <3>1, <2>2, Zenon
    <3>4. HasSliceFields(t)
      BY <3>1, <2>2 DEF HasSliceFields
    <3>5. t.has_reservation \in BOOLEAN
      BY <3>3
    <3>6. n \in Int
      BY <1>1 DEF n
    <3> QED BY <3>2, <3>4, <3>5, <3>6, <2>1
  <2> QED BY <2>3, <2>4
<1> QED BY <1>2 DEF HasFreed

\* It is a slice when the machines were machines.
LEMMA FreeTyped ==
  ASSUME NEW sl \in SliceRecord, NEW j \in DOMAIN sl.jobs, NEW ms, ms \subseteq Machines
  PROVE  /\ FreeIn(sl, j, ms) \in SliceRecord
         /\ HasFreed(sl, j, ms, FreeIn(sl, j, ms))
<1> DEFINE t == FreeIn(sl, j, ms)
<1>1. /\ HasFreed(sl, j, ms, t) /\ HasSliceFields(t)
      /\ t.nb_reservations \in Int /\ t.has_reservation \in BOOLEAN
  BY FreeFields
<1> HIDE DEF t
<1>2. /\ t.available = sl.available \cup ms /\ t.allocated = sl.allocated \ ms
      /\ t.nb_available = sl.nb_available + Cardinality(ms)
      /\ t.jobs = Erase(sl.jobs, j)
      /\ t.begin = sl.begin /\ t.end = sl.end
  BY <1>1 DEF HasFreed
<1>4. t.jobs \in Allotments
  <2> DEFINE D == DOMAIN sl.jobs \ {j}
  <2>1. t.jobs = [k \in D |-> sl.jobs[k]]
    BY <1>2 DEF Erase
  <2>2. t.jobs \in [D -> SUBSET Machines]
    BY <2>1, FieldTypes
  <2>3. D \subseteq Jobs
    BY FieldTypes
  <2> QED BY <2>2, <2>3 DEF Allotments
<1>5. Cardinality(ms) \in Nat
  BY MachinesFinite
<1>6. t \in SliceRecord
  <2>2. /\ t.begin \in Int /\ t.end \in Int /\ t.available \subseteq Machines
        /\ t.allocated \subseteq Machines /\ t.nb_available \in Int
    BY <1>2, <1>5, FieldTypes
  <2> QED BY <1>1, <2>2, <1>4, SliceFields
<1> QED BY <1>1, <1>6 DEF t

\* A job is taken out of a slice; its machines under repair stay away.
LEMMA FreeSound ==
  ASSUME NEW sl, NEW rp, SliceSound(sl, rp), NEW j \in DOMAIN sl.jobs,
         NEW ms, ms = sl.jobs[j] \ rp,
         NEW t \in SliceRecord, HasFreed(sl, j, ms, t)
  PROVE  /\ SliceSound(t, rp)
         /\ DOMAIN t.jobs = DOMAIN sl.jobs \ {j}
         /\ \A k \in DOMAIN t.jobs : t.jobs[k] = sl.jobs[k]
         /\ rp = {} /\ SliceExact(sl) => SliceExact(t)
<1>1. /\ sl \in SliceRecord /\ sl.available \subseteq Machines /\ ms \subseteq Machines
      /\ sl.nb_available \in Int
  BY FieldTypes DEF SliceSound
<1>2. /\ t.available = sl.available \cup ms /\ t.allocated = sl.allocated \ ms
      /\ t.nb_available = sl.nb_available + Cardinality(ms)
      /\ t.jobs = Erase(sl.jobs, j)
      /\ t.begin = sl.begin /\ t.end = sl.end
  BY DEF HasFreed
<1>3. /\ DOMAIN t.jobs = DOMAIN sl.jobs \ {j}
      /\ \A k \in DOMAIN t.jobs : t.jobs[k] = sl.jobs[k]
  BY <1>2 DEF Erase
<1>5. Cardinality(ms) \in Nat /\ IsFiniteSet(ms) /\ IsFiniteSet(sl.available)
      /\ Cardinality(sl.available) \in Nat
  BY <1>1, MachinesFinite
<1>7. /\ t.nb_available <= Cardinality(t.available)
      /\ sl.nb_available = Cardinality(sl.available)
           => t.nb_available = Cardinality(t.available)
  <2>1. Cardinality(sl.available \cup ms)
          = Cardinality(sl.available) + Cardinality(ms) - Cardinality(sl.available \cap ms)
    BY <1>5, FS_Union
  <2>2. sl.available \cap ms = {}
    BY DEF SliceSound
  <2>3. Cardinality(sl.available \cap ms) = 0
    BY <2>2, FS_EmptySet
  <2>4. sl.nb_available <= Cardinality(sl.available)
    BY DEF SliceSound
  <2> QED BY <1>1, <1>2, <1>5, <2>1, <2>3, <2>4
<1>8. /\ \A a, b \in DOMAIN t.jobs : a # b => t.jobs[a] \cap t.jobs[b] = {}
      /\ \A a \in DOMAIN t.jobs :
           /\ t.jobs[a] \subseteq t.allocated
           /\ t.jobs[a] \cap t.available = {}
           /\ Cardinality(t.jobs[a]) = nb_requested_resources[a]
      /\ t.available \cap rp = {}
  <2>1. \A a \in DOMAIN t.jobs : a # j /\ a \in DOMAIN sl.jobs /\ t.jobs[a] = sl.jobs[a]
                                 /\ sl.jobs[a] \cap sl.jobs[j] = {}
    BY <1>3 DEF SliceSound
  <2> QED BY <1>2, <2>1 DEF SliceSound
<1>9. rp = {} /\ SliceExact(sl) => SliceExact(t)
  BY <1>2, <1>3, <1>7 DEF SliceExact
<1> QED BY <1>3, <1>7, <1>8, <1>9 DEF SliceSound
-----------------------------------------------------------------------------
(* The slices of a profile, when they are split or merged.                  *)

\* The slice r has all that the slice s has but its dates.
SameSlice(r, s) ==
  /\ r.available = s.available /\ r.allocated = s.allocated
  /\ r.nb_available = s.nb_available /\ r.jobs = s.jobs

\* Each slice x of r is the slice f[x] of p, with other dates.
Maps(p, r, f) ==
  /\ IsProfile(r)
  /\ \A x \in DOMAIN r : f[x] \in DOMAIN p /\ SameSlice(r[x], p[f[x]])
  /\ \A x, y \in DOMAIN r : x <= y => f[x] <= f[y]

\* Each job of r begins and ends where it does in p.
SameEnds(p, r) ==
  \A j \in Jobs :
    /\ \A x \in DOMAIN r : Begins(r, j, x) =>
         \E b \in DOMAIN p :
           Begins(p, j, b) /\ r[x].begin = p[b].begin /\ (x # 1 => b # 1)
    /\ \A z \in DOMAIN r : Ends(r, j, z) =>
         \E e \in DOMAIN p : Ends(p, j, e) /\ r[z].end = p[e].end

\* A list whose slices all come from sound ones is sound.
LEMMA MapsKeep ==
  ASSUME NEW p, NEW rp, Sound(p, rp), Steady(p), NEW r, NEW f, Maps(p, r, f)
  PROVE  Sound(r, rp) /\ Steady(r) /\ (Exact(p) => Exact(r))
<1>1. DOMAIN r \subseteq Int /\ DOMAIN p \subseteq Int
  BY DEF Maps, IsProfile, Sound
<1>2. \A x \in DOMAIN r : /\ f[x] \in DOMAIN p /\ SameSlice(r[x], p[f[x]])
                          /\ SliceSound(p[f[x]], rp) /\ r[x] \in SliceRecord
  BY DEF Maps, IsProfile, Sound
<1>3. Sound(r, rp)
  <2>1. \A x \in DOMAIN r : SliceSound(r[x], rp)
    BY <1>2 DEF SameSlice, SliceSound
  <2> QED BY <2>1 DEF Sound, Maps
<1>4. Steady(r)
  <2>. SUFFICES ASSUME NEW j \in Jobs, NEW x \in DOMAIN r, NEW z \in DOMAIN r,
                       Runs(r, j, x), Runs(r, j, z)
                PROVE  /\ r[x].jobs[j] = r[z].jobs[j]
                       /\ \A y \in x..z : Runs(r, j, y)
    BY DEF Steady
  <2>1. Runs(p, j, f[x]) /\ Runs(p, j, f[z])
    BY <1>2 DEF Runs, SameSlice
  <2>2. p[f[x]].jobs[j] = p[f[z]].jobs[j] /\ \A y \in f[x]..f[z] : Runs(p, j, y)
    BY <1>2, <2>1 DEF Steady
  <2>3. r[x].jobs[j] = r[z].jobs[j]
    BY <1>2, <2>2 DEF SameSlice
  <2>4. ASSUME NEW y \in x..z PROVE Runs(r, j, y)
    <3>1. y \in DOMAIN r
      BY DEF Maps, IsProfile
    <3>2. x <= y /\ y <= z
      BY <1>1
    <3>3. f[x] <= f[y] /\ f[y] <= f[z]
      BY <3>1, <3>2 DEF Maps
    <3>4. f[y] \in f[x]..f[z]
      BY <1>1, <1>2, <3>1, <3>3
    <3>5. Runs(p, j, f[y])
      BY <2>2, <3>4
    <3> QED BY <1>2, <3>1, <3>5 DEF Runs, SameSlice
  <2> QED BY <2>3, <2>4
<1>5. Exact(p) => Exact(r)
  BY <1>2 DEF Exact, SliceExact, SameSlice
<1> QED BY <1>3, <1>4, <1>5

\* Durations stay when the first and last slices of the jobs do.
LEMMA EndsKeep ==
  ASSUME NEW p, NEW r, Lasting(p), SameEnds(p, r)
  PROVE  Lasting(r)
<1>. SUFFICES ASSUME NEW j \in Jobs, NEW x \in DOMAIN r, NEW z \in DOMAIN r,
                     Begins(r, j, x), Ends(r, j, z)
              PROVE  Lasts(r, j, x, z)
  BY DEF Lasting
<1>1. PICK b \in DOMAIN p :
        Begins(p, j, b) /\ r[x].begin = p[b].begin /\ (x # 1 => b # 1)
  BY Zenon DEF SameEnds
<1>2. PICK e \in DOMAIN p : Ends(p, j, e) /\ r[z].end = p[e].end
  BY DEF SameEnds
<1>3. Lasts(p, j, b, e)
  BY <1>1, <1>2 DEF Lasting
<1> QED BY <1>1, <1>2, <1>3 DEF Lasts
-----------------------------------------------------------------------------
(* The period of a job, from the begin of its first slice to the end of its *)
(* last one.                                                                *)

\* A job is in each slice from its first one, i, to the one, l, after which it
\* is no longer.
Stays(p, j, i, l) ==
  /\ i \in DOMAIN p /\ l \in i..Len(p)
  /\ \A x \in i..l : Runs(p, j, x)
  /\ l = Len(p) \/ ~Runs(p, j, l + 1)
  /\ \A x \in 1..(i - 1) : ~Runs(p, j, x)

\* A planned job stays from its first slice to the last of an unbroken row.
LEMMA StayIs ==
  ASSUME NEW p, IsProfile(p), NEW j, Occurrences(p, j) # {}
  PROVE  LET i == Least(Occurrences(p, j))
         IN Stays(p, j, i, Least({x \in i..Len(p) :
                                    x = Len(p) \/ j \notin DOMAIN p[x + 1].jobs}))
<1> DEFINE occ == Occurrences(p, j)
           i == Least(occ)
           lasts == {x \in i..Len(p) : x = Len(p) \/ j \notin DOMAIN p[x + 1].jobs}
           l == Least(lasts)
<1>1. Len(p) \in Nat /\ DOMAIN p = 1..Len(p)
  BY DEF IsProfile
<1>2. i \in occ /\ \A y \in occ : i <= y
  <2>1. occ \in SUBSET Nat /\ occ # {}
    BY <1>1 DEF Occurrences
  <2> HIDE DEF occ
  <2> QED BY <2>1, LeastIs
<1> HIDE DEF i
<1>3. i \in DOMAIN p /\ Runs(p, j, i) /\ \A x \in 1..(i - 1) : ~Runs(p, j, x)
  BY <1>1, <1>2 DEF Occurrences, Runs
<1>4. l \in lasts /\ \A y \in lasts : l <= y
  <2>1. lasts \in SUBSET Nat /\ Len(p) \in lasts
    BY <1>1, <1>3
  <2> HIDE DEF lasts
  <2> QED BY <2>1, LeastIs
<1> HIDE DEF l
<1>5. l \in i..Len(p) /\ (l = Len(p) \/ ~Runs(p, j, l + 1))
  BY <1>4 DEF Runs
<1>a. i \in Int /\ Len(p) \in Int
  BY <1>1, <1>3
<1>b. l \in Int /\ l <= Len(p)
  BY <1>a, <1>5
<1>6. ASSUME NEW x \in i..l PROVE Runs(p, j, x)
  <2>1. CASE x = i
    BY <2>1, <1>3
  <2>2. CASE x # i
    <3>1. x - 1 \in i..Len(p) /\ x - 1 < l /\ (x - 1) + 1 = x /\ x - 1 # Len(p)
      <4>1. /\ i \in Int /\ l \in Int /\ x \in Int /\ Len(p) \in Int
            /\ i <= x /\ x <= l /\ l <= Len(p)
        BY <1>a, <1>b
      <4>2. i < x
        BY <4>1, <2>2
      <4> QED BY <4>1, <4>2
    <3>2. x - 1 \notin lasts
      BY <3>1, <1>3, <1>4, <1>5
    <3> QED BY <3>1, <3>2 DEF Runs
  <2> QED BY <2>1, <2>2
<1>7. Stays(p, j, i, l)
  BY <1>3, <1>5, <1>6 DEF Stays
<1> QED BY <1>7 DEF i, l

\* Job j is in the slices from f to l, and in no others.
Fills(p, j, f, l) ==
  /\ f \in DOMAIN p /\ l \in DOMAIN p /\ f <= l
  /\ \A x \in DOMAIN p : Runs(p, j, x) <=> x \in f..l

\* No other slices but these.
LEMMA FillsOnce ==
  ASSUME NEW p, IsProfile(p), NEW j, NEW f, NEW l, Fills(p, j, f, l)
  PROVE  /\ Begins(p, j, f) /\ Ends(p, j, l)
         /\ \A b \in DOMAIN p : Begins(p, j, b) => b = f
         /\ \A e \in DOMAIN p : Ends(p, j, e) => e = l
<1> DEFINE n == Len(p)
<1>1. /\ n \in Nat /\ DOMAIN p = 1..n /\ f \in 1..n /\ l \in 1..n /\ f <= l
      /\ \A x \in 1..n : Runs(p, j, x) <=> x \in f..l
  BY DEF IsProfile, Fills
<1>a. \A e : e = Len(p) <=> e = n
  OBVIOUS
<1> HIDE DEF n
<1>2. Begins(p, j, f) /\ Ends(p, j, l)
  <2>1. Runs(p, j, f) /\ Runs(p, j, l)
    BY <1>1
  <2>2. f # 1 => f - 1 \in 1..n /\ f - 1 \notin f..l
    BY <1>1
  <2>3. l # n => l + 1 \in 1..n /\ l + 1 \notin f..l
    BY <1>1
  <2> QED BY <1>1, <1>a, <2>1, <2>2, <2>3 DEF Begins, Ends
<1>3. ASSUME NEW b \in DOMAIN p, Begins(p, j, b) PROVE b = f
  <2>1. b \in f..l
    BY <1>1, <1>3 DEF Begins
  <2>2. b # f => b # 1 /\ b - 1 \in 1..n /\ b - 1 \in f..l
    BY <1>1, <2>1
  <2>3. b # f => Runs(p, j, b - 1)
    BY <1>1, <2>2
  <2> QED BY <1>3, <2>2, <2>3 DEF Begins
<1>4. ASSUME NEW e \in DOMAIN p, Ends(p, j, e) PROVE e = l
  <2>1. e \in f..l
    BY <1>1, <1>4 DEF Ends
  <2>2. e # l => e # n /\ e + 1 \in 1..n /\ e + 1 \in f..l
    BY <1>1, <2>1
  <2>3. e # l => Runs(p, j, e + 1)
    BY <1>1, <2>2
  <2> QED BY <1>4, <1>a, <2>2, <2>3 DEF Ends
<1> QED BY <1>2, <1>3, <1>4

\* The period of a job that fills the slices from f to l.
LEMMA PeriodIs ==
  ASSUME NEW p, IsProfile(p), NEW j, NEW f, NEW l, Fills(p, j, f, l)
  PROVE  /\ IsPlanned(p, j) /\ Occurrences(p, j) = f..l
         /\ Least(Occurrences(p, j)) = f
         /\ (CHOOSE x \in Occurrences(p, j) : \A y \in Occurrences(p, j) : y <= x) = l
         /\ PeriodOf(p, j) = [begin |-> p[f].begin, end |-> p[l].end,
                              machines |-> p[f].jobs[j]]
<1> DEFINE occ == Occurrences(p, j)
           n == Len(p)
<1>1. /\ n \in Nat /\ DOMAIN p = 1..n /\ f \in 1..n /\ l \in 1..n /\ f <= l
      /\ \A x \in 1..n : Runs(p, j, x) <=> x \in f..l
  BY DEF IsProfile, Fills
<1> HIDE DEF n
<1>2. occ = f..l /\ f \in f..l /\ l \in f..l /\ occ \in SUBSET Nat
  <2>1. \A x : x \in occ <=> x \in 1..n /\ Runs(p, j, x)
    BY <1>1 DEF Occurrences, Runs
  <2> HIDE DEF occ
  <2>2. f \in f..l /\ l \in f..l /\ \A x \in f..l : x \in 1..n /\ x \in Nat
    BY <1>1
  <2>3. \A x : x \in occ <=> x \in f..l
    BY <1>1, <2>1, <2>2
  <2> QED BY <2>2, <2>3
<1>3. IsPlanned(p, j)
  BY <1>1, <1>2 DEF IsPlanned
<1> HIDE DEF occ
<1>4. Least(occ) = f
  <2>1. Least(occ) \in occ /\ \A y \in occ : Least(occ) <= y
    BY <1>2, LeastIs
  <2> QED BY <1>1, <1>2, <2>1
<1>5. (CHOOSE x \in occ : \A y \in occ : y <= x) = l
  <2> DEFINE last == CHOOSE x \in occ : \A y \in occ : y <= x
  <2>1. l \in occ /\ \A y \in occ : y <= l
    BY <1>1, <1>2
  <2>2. last \in occ /\ \A y \in occ : y <= last
    BY <2>1
  <2> HIDE DEF last
  <2>3. last = l
    BY <1>1, <1>2, <2>1, <2>2
  <2> QED BY <2>3 DEF last
<1> QED BY <1>2, <1>3, <1>4, <1>5 DEF PeriodOf, occ

\* A job that is planned fills the slices from one to another.
LEMMA SomeFilled ==
  ASSUME NEW p, IsProfile(p), Steady(p), NEW j \in Jobs, IsPlanned(p, j)
  PROVE  \E f, l \in DOMAIN p : Fills(p, j, f, l)
<1> DEFINE f == Least(Occurrences(p, j))
           l == Least({x \in f..Len(p) : x = Len(p) \/ j \notin DOMAIN p[x + 1].jobs})
<1>1. Occurrences(p, j) # {}
  BY DEF IsPlanned, Runs, Occurrences
<1>2. Stays(p, j, f, l)
  BY <1>1, StayIs
<1> HIDE DEF f, l
<1> DEFINE n == Len(p)
<1>3. /\ n \in Nat /\ DOMAIN p = 1..n /\ f \in 1..n /\ l \in f..n
      /\ \A x \in f..l : Runs(p, j, x)
      /\ l = n \/ ~Runs(p, j, l + 1)
      /\ \A x \in 1..(f - 1) : ~Runs(p, j, x)
  BY <1>2 DEF IsProfile, Stays
<1> HIDE DEF n
<1>a. f \in Nat /\ l \in Nat /\ f <= l /\ l \in 1..n /\ f \in f..l /\ l \in f..l
  BY <1>3
<1>4. ASSUME NEW x \in 1..n, Runs(p, j, x) PROVE x \in f..l
  <2>1. x >= f
    <3>1. x < f => x \in 1..(f - 1)
      BY <1>3, <1>a
    <3> QED BY <1>3, <1>a, <1>4, <3>1
  <2>2. x <= l
    <3>1. x > l => l # n /\ l + 1 \in l..x
      BY <1>3, <1>a
    <3>2. l \in DOMAIN p /\ x \in DOMAIN p /\ Runs(p, j, l)
      BY <1>3, <1>a
    <3>3. \A y \in l..x : Runs(p, j, y)
      BY <1>4, <3>2 DEF Steady
    <3> QED BY <1>3, <1>a, <3>1, <3>3
  <2> QED BY <1>3, <1>a, <2>1, <2>2
<1>5. Fills(p, j, f, l)
  BY <1>3, <1>a, <1>4 DEF Fills
<1> QED BY <1>3, <1>a, <1>5

\* A job is in the same slices of two profiles, which have the same dates.
Alike(p, r, j) ==
  \A x \in DOMAIN p :
    /\ r[x].begin = p[x].begin /\ r[x].end = p[x].end
    /\ Runs(r, j, x) <=> Runs(p, j, x)
    /\ Runs(p, j, x) => r[x].jobs[j] = p[x].jobs[j]

\* A job that is in the same slices on the same machines has the same period.
LEMMA AlikePeriods ==
  ASSUME NEW p, IsProfile(p), Steady(p), NEW r, IsProfile(r), DOMAIN r = DOMAIN p,
         NEW j \in Jobs, Alike(p, r, j)
  PROVE  SamePeriod(p, r, j)
<1>1. IsPlanned(r, j) <=> IsPlanned(p, j)
  BY DEF IsPlanned, Alike
<1>2. ASSUME IsPlanned(p, j) PROVE PeriodOf(r, j) = PeriodOf(p, j)
  <2>1. PICK f, l \in DOMAIN p : Fills(p, j, f, l)
    BY <1>2, SomeFilled
  <2>2. Fills(r, j, f, l)
    BY <2>1 DEF Fills, Alike
  <2>3. Runs(p, j, f)
    BY <2>1, FillsOnce DEF Begins
  <2>4. r[f].begin = p[f].begin /\ r[l].end = p[l].end /\ r[f].jobs[j] = p[f].jobs[j]
    BY <2>3 DEF Alike
  <2>5. PeriodOf(p, j) = [begin |-> p[f].begin, end |-> p[l].end, machines |-> p[f].jobs[j]]
    BY <2>1, PeriodIs
  <2>6. PeriodOf(r, j) = [begin |-> r[f].begin, end |-> r[l].end, machines |-> r[f].jobs[j]]
    BY <2>2, PeriodIs
  <2> QED BY <2>4, <2>5, <2>6
<1> QED BY <1>1, <1>2 DEF SamePeriod

\* A profile whose slices come from those of another has the same periods, if
\* every job begins and ends when it did.
LEMMA PeriodsKeep ==
  ASSUME NEW p, IsProfile(p), Steady(p), NEW r, Steady(r), NEW f, Maps(p, r, f),
         SameEnds(p, r), r[1].begin = p[1].begin,
         \A x \in DOMAIN p : \E y \in DOMAIN r : DOMAIN r[y].jobs = DOMAIN p[x].jobs
  PROVE  SamePeriods(p, r, Jobs)
<1> SUFFICES ASSUME NEW j \in Jobs
             PROVE  /\ IsPlanned(r, j) <=> IsPlanned(p, j)
                    /\ IsPlanned(p, j) => PeriodOf(r, j) = PeriodOf(p, j)
  BY DEF SamePeriods, SamePeriod
<1>1. IsProfile(r) /\ \A x \in DOMAIN r : f[x] \in DOMAIN p /\ r[x].jobs = p[f[x]].jobs
  BY DEF Maps, SameSlice
<1>2. IsPlanned(r, j) <=> IsPlanned(p, j)
  BY <1>1 DEF IsPlanned, Runs
<1>3. ASSUME IsPlanned(p, j) PROVE PeriodOf(r, j) = PeriodOf(p, j)
  <2>1. PICK a, b \in DOMAIN p : Fills(p, j, a, b)
    BY <1>3, SomeFilled
  <2>2. PICK x, z \in DOMAIN r : Fills(r, j, x, z)
    BY <1>1, <1>2, <1>3, SomeFilled
  <2>3. Begins(r, j, x) /\ Ends(r, j, z)
    BY <1>1, <2>2, FillsOnce
  <2>4. r[x].begin = p[a].begin
    <3>1. PICK c \in DOMAIN p : Begins(p, j, c) /\ r[x].begin = p[c].begin
      BY <2>3 DEF SameEnds
    <3> QED BY <2>1, <3>1, FillsOnce
  <2>5. r[z].end = p[b].end
    <3>1. PICK c \in DOMAIN p : Ends(p, j, c) /\ r[z].end = p[c].end
      BY <2>3 DEF SameEnds
    <3> QED BY <2>1, <3>1, FillsOnce
  <2>6. r[x].jobs[j] = p[a].jobs[j]
    <3>1. Runs(r, j, x) /\ Runs(p, j, f[x]) /\ Runs(p, j, a) /\ f[x] \in DOMAIN p
      <4>1. Runs(r, j, x)
        BY <2>3 DEF Begins
      <4>2. Runs(p, j, a)
        BY <2>1, FillsOnce DEF Begins
      <4> QED BY <1>1, <4>1, <4>2 DEF Runs
    <3>2. p[f[x]].jobs[j] = p[a].jobs[j]
      BY <3>1 DEF Steady
    <3> QED BY <1>1, <3>2
  <2>7. PeriodOf(p, j) = [begin |-> p[a].begin, end |-> p[b].end, machines |-> p[a].jobs[j]]
    BY <2>1, PeriodIs
  <2>8. PeriodOf(r, j) = [begin |-> r[x].begin, end |-> r[z].end, machines |-> r[x].jobs[j]]
    BY <1>1, <2>2, PeriodIs
  <2> QED BY <2>4, <2>5, <2>6, <2>7, <2>8
<1> QED BY <1>2, <1>3

\* A slice with another date.
LEMMA NewDates ==
  ASSUME NEW sl \in SliceRecord, NEW date \in Int
  PROVE  LET a == [sl EXCEPT !.end = date]
             b == [sl EXCEPT !.begin = date]
         IN /\ SameSlice(a, sl) /\ a.begin = sl.begin /\ a.end = date /\ a \in SliceRecord
            /\ SameSlice(b, sl) /\ b.end = sl.end /\ b.begin = date /\ b \in SliceRecord
<1> DEFINE a == [sl EXCEPT !.end = date]
           b == [sl EXCEPT !.begin = date]
<1>1. /\ SameSlice(a, sl) /\ a.begin = sl.begin /\ a.end = date
      /\ SameSlice(b, sl) /\ b.end = sl.end /\ b.begin = date
  BY DEF SameSlice, SliceRecord
<1>2. a \in SliceRecord
  BY DEF SliceRecord
<1>3. b \in SliceRecord
  BY DEF SliceRecord
<1> QED BY <1>1, <1>2, <1>3

\* The list p with its entry i replaced by a and b.
Spliced(p, i, a, b, r) ==
  /\ Len(r) = Len(p) + 1 /\ DOMAIN r = 1..(Len(p) + 1)
  /\ \A x \in 1..(i - 1) : r[x] = p[x]
  /\ r[i] = a /\ r[i + 1] = b
  /\ \A x \in (i + 2)..(Len(p) + 1) : r[x] = p[x - 1]

\* A list in which one element has been replaced by two.
LEMMA SplicedIs ==
  ASSUME NEW T, NEW p \in Seq(T), NEW i \in DOMAIN p, NEW a \in T, NEW b \in T
  PROVE  LET r == SubSeq(p, 1, i - 1) \o <<a, b>> \o SubSeq(p, i + 1, Len(p))
         IN Spliced(p, i, a, b, r) /\ r \in Seq(T)
<1> DEFINE n == Len(p)
           u == SubSeq(p, 1, i - 1)  m == <<a, b>>  v == SubSeq(p, i + 1, n)
<1>1. n \in Nat /\ DOMAIN p = 1..n /\ i \in 1..n
  OBVIOUS
<1>2. /\ u \in Seq(T) /\ Len(u) = i - 1
      /\ \A x \in 1..(i - 1) : u[x] = p[x]
  <2>1. \A x \in 1..(i - 1) : p[x] \in T
    BY <1>1
  <2>2. u \in Seq(T)
    BY <1>1, <2>1, SubSeqProperties
  <2>3. Len(u) = i - 1
    <3>1. Len(u) = IF 1 <= i - 1 THEN (i - 1) - 1 + 1 ELSE 0
      BY <1>1, SubSeqProperties
    <3> HIDE DEF u
    <3> QED BY <3>1, <1>1
  <2>4. \A x \in 1..(i - 1) : u[x] = p[x]
    BY <1>1
  <2> QED BY <2>2, <2>3, <2>4
<1>3. /\ v \in Seq(T) /\ Len(v) = n - i
      /\ \A x \in 1..(n - i) : v[x] = p[x + i]
  <2>1. /\ v \in Seq(T) /\ Len(v) = IF i + 1 <= n THEN n - (i + 1) + 1 ELSE 0
        /\ \A x \in 1..(n - (i + 1) + 1) : v[x] = p[(i + 1) + x - 1]
    BY <1>1, SubSeqProperties
  <2> HIDE DEF v, n
  <2>2. Len(v) = n - i
    BY <2>1, <1>1
  <2>3. ASSUME NEW x \in 1..(n - i) PROVE v[x] = p[x + i]
    <3>1. x \in 1..(n - (i + 1) + 1) /\ (i + 1) + x - 1 = x + i
      BY <1>1
    <3> QED BY <2>1, <3>1
  <2> QED BY <2>1, <2>2, <2>3
<1>4. m \in Seq(T) /\ Len(m) = 2 /\ m[1] = a /\ m[2] = b
  OBVIOUS
<1> DEFINE um == u \o m  r == um \o v
<1> HIDE DEF u, v, m, n
<1>5. /\ um \in Seq(T) /\ Len(um) = i + 1
      /\ \A x \in 1..(i + 1) : um[x] = IF x <= i - 1 THEN u[x] ELSE m[x - (i - 1)]
  <2>1. /\ um \in Seq(T) /\ Len(um) = Len(u) + Len(m)
        /\ \A x \in 1 .. Len(u) + Len(m) : um[x] = IF x <= Len(u) THEN u[x] ELSE m[x - Len(u)]
    BY <1>2, <1>4, ConcatProperties
  <2> HIDE DEF um
  <2> QED BY <2>1, <1>1, <1>2, <1>4
<1> HIDE DEF um
<1>6. /\ r \in Seq(T) /\ Len(r) = n + 1
      /\ \A x \in 1..(n + 1) : r[x] = IF x <= i + 1 THEN um[x] ELSE v[x - (i + 1)]
  <2>1. /\ r \in Seq(T) /\ Len(r) = Len(um) + Len(v)
        /\ \A x \in 1 .. Len(um) + Len(v) : r[x] = IF x <= Len(um) THEN um[x] ELSE v[x - Len(um)]
    BY <1>3, <1>5, ConcatProperties
  <2> HIDE DEF r
  <2> QED BY <2>1, <1>1, <1>3, <1>5
<1> HIDE DEF r
<1>7. \A x \in 1..(i - 1) : r[x] = p[x]
  BY <1>1, <1>2, <1>5, <1>6
<1>8. r[i] = a /\ r[i + 1] = b
  <2>1. um[i] = m[1] /\ um[i + 1] = m[2]
    BY <1>1, <1>5
  <2> QED BY <2>1, <1>1, <1>4, <1>6
<1>9. ASSUME NEW x \in (i + 2)..(n + 1) PROVE r[x] = p[x - 1]
  <2>1. r[x] = v[x - (i + 1)] /\ x - (i + 1) \in 1..(n - i)
    BY <1>1, <1>6
  <2>2. v[x - (i + 1)] = p[(x - (i + 1)) + i]
    BY <1>3, <2>1
  <2>3. (x - (i + 1)) + i = x - 1
    BY <1>1
  <2> QED BY <2>1, <2>2, <2>3
<1>10. Spliced(p, i, a, b, r) /\ r \in Seq(T)
  BY <1>1, <1>6, <1>7, <1>8, <1>9 DEF Spliced, n
<1> QED BY <1>10 DEF r, um, u, m, v, n

\* r is the profile p with slice i split at date.
Orig(i, x) == IF x <= i THEN x ELSE x - 1
SplitAt(p, i, date, r) ==
  /\ IsProfile(r) /\ Len(r) = Len(p) + 1
  /\ \A x \in DOMAIN r :
       /\ Orig(i, x) \in DOMAIN p /\ SameSlice(r[x], p[Orig(i, x)])
       /\ r[x].begin = IF x = i + 1 THEN date ELSE p[Orig(i, x)].begin
       /\ r[x].end = IF x = i THEN date ELSE p[Orig(i, x)].end

\* split_slice cuts one slice in two at the date.
LEMMA SplitIs ==
  ASSUME NEW p, IsProfile(p), NEW i \in DOMAIN p, NEW date \in Int, Splits(p, i, date)
  PROVE  SplitAt(p, i, date, split_slice(p, i, date))
<1> DEFINE n == Len(p)
           a == [p[i] EXCEPT !.end = date]
           b == [p[i] EXCEPT !.begin = date]
           r == SubSeq(p, 1, i - 1) \o <<a, b>> \o SubSeq(p, i + 1, n)
<1>1. /\ p \in Seq(SliceRecord) /\ n \in Nat /\ DOMAIN p = 1..n /\ i \in 1..n
      /\ p[i] \in SliceRecord
  BY DEF IsProfile
<1>2. /\ SameSlice(a, p[i]) /\ a.begin = p[i].begin /\ a.end = date /\ a \in SliceRecord
      /\ SameSlice(b, p[i]) /\ b.end = p[i].end /\ b.begin = date /\ b \in SliceRecord
  BY <1>1, NewDates
<1> HIDE DEF a, b
<1>3. Spliced(p, i, a, b, r) /\ r \in Seq(SliceRecord)
  BY <1>1, <1>2, SplicedIs
<1>4. r = split_slice(p, i, date)
  BY DEF split_slice, a, b
<1> HIDE DEF r, n
<1>5. ASSUME NEW x \in 1..(n + 1)
      PROVE  /\ Orig(i, x) \in DOMAIN p /\ SameSlice(r[x], p[Orig(i, x)])
             /\ r[x].begin = IF x = i + 1 THEN date ELSE p[Orig(i, x)].begin
             /\ r[x].end = IF x = i THEN date ELSE p[Orig(i, x)].end
  <2>1. CASE x < i
    <3>1. x \in 1..(i - 1)
      BY <2>1, <1>1
    <3>2. Orig(i, x) = x /\ r[x] = p[x] /\ x \in DOMAIN p
      BY <3>1, <1>1, <1>3 DEF Orig, Spliced
    <3> QED BY <3>1, <3>2, <1>1 DEF SameSlice
  <2>2. CASE x = i
    <3>1. Orig(i, x) = i /\ r[x] = a
      BY <2>2, <1>1, <1>3 DEF Orig, Spliced
    <3> QED BY <3>1, <1>1, <1>2, <2>2
  <2>3. CASE x = i + 1
    <3>1. Orig(i, x) = i /\ r[x] = b
      BY <2>3, <1>1, <1>3 DEF Orig, Spliced
    <3> QED BY <3>1, <1>1, <1>2, <2>3
  <2>4. CASE x > i + 1
    <3>1. Orig(i, x) = x - 1 /\ r[x] = p[x - 1] /\ x - 1 \in DOMAIN p
      BY <2>4, <1>1, <1>3 DEF Orig, Spliced, n
    <3> QED BY <3>1, <2>4, <1>1 DEF SameSlice
  <2> QED BY <2>1, <2>2, <2>3, <2>4, <1>1
<1>6. DOMAIN r = 1..(n + 1) /\ Len(r) >= 1 /\ Len(r) = n + 1
  BY <1>1, <1>3 DEF Spliced, n
<1> QED BY <1>3, <1>4, <1>5, <1>6 DEF SplitAt, IsProfile, n

\* split_slice keeps the invariant, whether it splits or not.
LEMMA SplitKeeps ==
  ASSUME NEW p, NEW rp, Firm(p, rp), NEW i \in DOMAIN p, NEW date \in Int,
         Splits(p, i, date), NEW r, SplitAt(p, i, date, r)
  PROVE  Keeps(p, r, rp, {}) /\ SamePeriods(p, r, Jobs)
<1> DEFINE n == Len(p)
           f == [x \in DOMAIN r |-> Orig(i, x)]
<1>1. /\ n \in Nat /\ DOMAIN p = 1..n /\ i \in 1..n /\ DOMAIN r = 1..(n + 1)
      /\ Len(r) = n + 1
      /\ \A x \in DOMAIN p : p[x].begin \in Int /\ p[x].end \in Int
  BY FieldTypes DEF Firm, Sound, IsProfile, SplitAt, SliceSound
<1>2. Maps(p, r, f)
  <2>1. \A x, y \in DOMAIN r : x <= y => Orig(i, x) <= Orig(i, y)
    BY <1>1 DEF Orig
  <2> QED BY <2>1 DEF SplitAt, Maps
<1>3. Sound(r, rp) /\ Steady(r) /\ (Exact(p) => Exact(r))
  <2> HIDE DEF f
  <2> QED BY <1>2, MapsKeep DEF Firm
<1>4. \A x \in DOMAIN r : /\ Orig(i, x) \in DOMAIN p
                          /\ r[x].begin = IF x = i + 1 THEN date ELSE p[Orig(i, x)].begin
                          /\ r[x].end = IF x = i THEN date ELSE p[Orig(i, x)].end
                          /\ \A j : Runs(r, j, x) <=> Runs(p, j, Orig(i, x))
  BY DEF SplitAt, SameSlice, Runs
<1> HIDE DEF n, f
<1>5. SameEnds(p, r)
  <2>1. ASSUME NEW j \in Jobs, NEW x \in DOMAIN r, Begins(r, j, x)
        PROVE  \E b \in DOMAIN p :
                 Begins(p, j, b) /\ r[x].begin = p[b].begin /\ (x # 1 => b # 1)
    <3>1. Runs(r, j, x) /\ Runs(p, j, Orig(i, x))
      BY <2>1, <1>4 DEF Begins
    <3>2. x # i + 1
      <4>1. SUFFICES ASSUME x = i + 1 PROVE FALSE
        OBVIOUS
      <4>2. ~Runs(r, j, i)
        <5>1. x # 1 /\ x - 1 = i
          BY <1>1, <4>1
        <5> QED BY <5>1, <2>1 DEF Begins
      <4>3. i \in DOMAIN r /\ Orig(i, i) = i /\ Orig(i, x) = i
        BY <1>1, <4>1 DEF Orig
      <4>4. Runs(r, j, i) <=> Runs(p, j, i)
        BY <1>4, <4>3
      <4> QED BY <3>1, <4>2, <4>3, <4>4
    <3>3. r[x].begin = p[Orig(i, x)].begin /\ Orig(i, x) \in DOMAIN p
      BY <1>4, <3>2
    <3>4. x # 1 => Orig(i, x) # 1 /\ x - 1 \in DOMAIN r /\ Orig(i, x - 1) = Orig(i, x) - 1
      BY <1>1, <3>2 DEF Orig
    <3>5. x # 1 => ~Runs(p, j, Orig(i, x) - 1)
      BY <2>1, <1>4, <3>4 DEF Begins
    <3>6. x = 1 => Orig(i, x) = 1
      BY <1>1 DEF Orig
    <3>7. Begins(p, j, Orig(i, x))
      BY <3>1, <3>5, <3>6 DEF Begins
    <3> QED BY <3>3, <3>4, <3>7
  <2>2. ASSUME NEW j \in Jobs, NEW z \in DOMAIN r, Ends(r, j, z)
        PROVE  \E e \in DOMAIN p : Ends(p, j, e) /\ r[z].end = p[e].end
    <3>1. Runs(r, j, z) /\ Runs(p, j, Orig(i, z))
      BY <2>2, <1>4 DEF Ends
    <3>2. z # i
      <4>1. SUFFICES ASSUME z = i PROVE FALSE
        OBVIOUS
      <4>2. i + 1 \in DOMAIN r /\ Orig(i, i + 1) = i /\ Orig(i, z) = i /\ z # Len(r)
        BY <1>1, <4>1 DEF Orig
      <4>3. ~Runs(r, j, i + 1)
        BY <2>2, <4>1, <4>2 DEF Ends
      <4>4. Runs(r, j, i + 1) <=> Runs(p, j, i)
        BY <1>4, <4>2
      <4> QED BY <3>1, <4>2, <4>3, <4>4
    <3>3. r[z].end = p[Orig(i, z)].end /\ Orig(i, z) \in DOMAIN p
      BY <1>4, <3>2
    <3>4. z # Len(r) => z + 1 \in DOMAIN r /\ Orig(i, z + 1) = Orig(i, z) + 1
      <4>1. i \in Nat /\ z \in Nat /\ z \in 1..(n + 1)
        BY <1>1
      <4>2. Orig(i, z + 1) = Orig(i, z) + 1
        <5>1. z < i \/ z > i
          BY <4>1, <3>2
        <5>2. CASE z < i
          BY <4>1, <5>2 DEF Orig
        <5>3. CASE z > i
          BY <4>1, <5>3 DEF Orig
        <5> QED BY <5>1, <5>2, <5>3
      <4> QED BY <1>1, <4>1, <4>2
    <3>5. z # Len(r) => ~Runs(p, j, Orig(i, z) + 1)
      BY <2>2, <1>4, <3>4 DEF Ends
    <3>6. z = Len(r) => Orig(i, z) = n
      BY <1>1 DEF Orig
    <3>7. Ends(p, j, Orig(i, z))
      BY <3>1, <3>5, <3>6 DEF Ends, n
    <3> QED BY <3>3, <3>7
  <2> QED BY <2>1, <2>2 DEF SameEnds
<1>6. ASSUME Timed(p) PROVE Timed(r)
  <2>1. /\ p[1].begin <= p[1].end /\ p[n].end = Horizon
        /\ \A x \in 1..n : p[x].end <= Horizon
        /\ \A x \in 2..n : p[x].begin = p[x - 1].end /\ p[x].begin < p[x].end
        /\ p[i].begin < date /\ date < p[i].end
    BY <1>1, <1>6 DEF Timed, Splits, n
  <2>2. r[1].begin <= r[1].end
    <3>1. Orig(i, 1) = 1 /\ 1 \in DOMAIN r /\ 1 # i + 1
      BY <1>1 DEF Orig
    <3>2. /\ r[1].begin = p[1].begin
          /\ r[1].end = IF i = 1 THEN date ELSE p[1].end
      BY <3>1, <1>4
    <3> QED BY <3>2, <2>1, <1>1
  <2>3. r[n + 1].end = Horizon
    <3>1. Orig(i, n + 1) = n /\ n + 1 \in DOMAIN r /\ n + 1 # i
      BY <1>1 DEF Orig
    <3> QED BY <3>1, <1>4, <2>1
  <2>4. ASSUME NEW x \in 2..(n + 1)
        PROVE  r[x].begin = r[x - 1].end /\ r[x].begin < r[x].end
    <3>1. x \in DOMAIN r /\ x - 1 \in DOMAIN r
      BY <1>1
    <3>2. /\ r[x].begin = IF x = i + 1 THEN date ELSE p[Orig(i, x)].begin
          /\ r[x].end = IF x = i THEN date ELSE p[Orig(i, x)].end
          /\ r[x - 1].end = IF x - 1 = i THEN date ELSE p[Orig(i, x - 1)].end
      BY <3>1, <1>4
    <3>3. CASE x < i
      BY <1>1, <2>1, <3>2, <3>3 DEF Orig
    <3>4. CASE x = i
      BY <1>1, <2>1, <3>2, <3>4 DEF Orig
    <3>5. CASE x = i + 1
      BY <1>1, <2>1, <3>2, <3>5 DEF Orig
    <3>6. CASE x > i + 1
      <4>1. Orig(i, x) = x - 1 /\ Orig(i, x - 1) = x - 2 /\ x - 1 \in 2..n
            /\ (x - 1) - 1 = x - 2
        BY <1>1, <3>6 DEF Orig
      <4>2. p[x - 1].begin = p[x - 2].end /\ p[x - 1].begin < p[x - 1].end
        BY <2>1, <4>1
      <4>3. x # i + 1 /\ x # i /\ x - 1 # i
        BY <1>1, <3>6
      <4> QED BY <4>1, <4>2, <4>3, <3>2
    <3> QED BY <3>3, <3>4, <3>5, <3>6, <1>1
  <2>5. ASSUME NEW x \in DOMAIN r PROVE r[x].end <= Horizon
    <3>1. Orig(i, x) \in 1..n /\ (r[x].end = date \/ r[x].end = p[Orig(i, x)].end)
      BY <1>1, <1>4
    <3>2. p[Orig(i, x)].end <= Horizon /\ date < p[i].end /\ p[i].end <= Horizon
      BY <2>1, <3>1, <1>1
    <3>3. p[i].end \in Int /\ Horizon \in Int
      BY <1>1, ScheduleAssumption
    <3> QED BY <3>1, <3>2, <3>3
  <2> QED BY <2>2, <2>3, <2>4, <2>5, <1>1 DEF Timed
<1>7. Lasting(p) => Lasting(r)
  BY <1>5, EndsKeep
<1>8. FirstKept(p, r, {})
  <2>1. Orig(i, 1) = 1 /\ 1 \in DOMAIN r
    BY <1>1 DEF Orig
  <2>2. SameSlice(r[1], p[1])
    BY <2>1 DEF SplitAt
  <2> QED BY <2>2 DEF FirstKept, Runs, SameSlice
<1>9. SamePeriods(p, r, Jobs)
  <2>1. ASSUME NEW x \in DOMAIN p
        PROVE  \E y \in DOMAIN r : DOMAIN r[y].jobs = DOMAIN p[x].jobs
    <3>1. PICK y \in DOMAIN r : Orig(i, y) = x
      <4>1. x <= i => x \in DOMAIN r /\ Orig(i, x) = x
        BY <1>1 DEF Orig
      <4>2. x > i => x + 1 \in DOMAIN r /\ Orig(i, x + 1) = x
        BY <1>1 DEF Orig
      <4> QED BY <1>1, <4>1, <4>2
    <3>2. SameSlice(r[y], p[x])
      BY <3>1 DEF SplitAt
    <3> QED BY <3>2 DEF SameSlice
  <2>2. r[1].begin = p[1].begin
    <3>1. Orig(i, 1) = 1 /\ 1 \in DOMAIN r /\ 1 # i + 1
      BY <1>1 DEF Orig
    <3> QED BY <3>1, <1>4
  <2> QED BY <1>2, <1>3, <1>5, <2>1, <2>2, PeriodsKeep DEF Firm, Sound
<1> QED BY <1>3, <1>6, <1>7, <1>8, <1>9 DEF Keeps, Firm, Paced
-----------------------------------------------------------------------------
(* Adding a job.                                                            *)

\* r is the profile p in which job j has the machines ms in the slices i..k.
Given(p, r, i, k, j, ms) ==
  /\ Len(r) = Len(p) /\ DOMAIN r = DOMAIN p /\ r = [x \in DOMAIN r |-> r[x]]
  /\ \A x \in DOMAIN p :
       /\ x \notin i..k => r[x] = p[x]
       /\ x \in i..k => r[x] = Allocate(p[x], j, ms, nb_requested_resources[j])

\* Each slice of a schedule in which a job has been put.
LEMMA PutSlices ==
  ASSUME NEW p, NEW rp, Sound(p, rp), NEW i \in DOMAIN p, NEW k \in DOMAIN p,
         NEW j \in Jobs, \A x \in DOMAIN p : ~Runs(p, j, x),
         NEW ms, \A x \in i..k : ms \subseteq p[x].available,
         Cardinality(ms) = nb_requested_resources[j],
         NEW r, Given(p, r, i, k, j, ms), NEW x \in DOMAIN p
  PROVE  /\ SliceSound(r[x], rp) /\ (SliceExact(p[x]) => SliceExact(r[x]))
         /\ r[x].begin = p[x].begin /\ r[x].end = p[x].end
         /\ \A y : Runs(r, y, x) <=> Runs(p, y, x) \/ (y = j /\ x \in i..k)
         /\ \A y : Runs(p, y, x) => r[x].jobs[y] = p[x].jobs[y]
         /\ x \in i..k => r[x].jobs[j] = ms
<1>1. SliceSound(p[x], rp) /\ j \notin DOMAIN p[x].jobs
  BY DEF Sound, Runs
<1>2. CASE x \notin i..k
  <2>1. r[x] = p[x]
    BY <1>2 DEF Given
  <2> QED BY <1>1, <1>2, <2>1 DEF Runs
<1>3. CASE x \in i..k
  <2> DEFINE n == nb_requested_resources[j]
             t == Allocate(p[x], j, ms, n)
  <2>1. r[x] = t /\ ms \subseteq p[x].available
    BY <1>3 DEF Given
  <2>2. n \in Nat /\ Cardinality(ms) = n
    BY PlatformAssumption
  <2>3. /\ SliceSound(t, rp)
        /\ DOMAIN t.jobs = DOMAIN p[x].jobs \cup {j} /\ t.jobs[j] = ms
        /\ \A y \in DOMAIN p[x].jobs : t.jobs[y] = p[x].jobs[y]
        /\ t.begin = p[x].begin /\ t.end = p[x].end
        /\ SliceExact(p[x]) => SliceExact(t)
    BY <1>1, <2>1, <2>2, AllocateSound
  <2> HIDE DEF t
  <2> QED BY <1>3, <2>1, <2>3 DEF Runs
<1> QED BY <1>2, <1>3

\* Job j holds the machines ms in the first slice.
Holds(p, j, ms) == Runs(p, j, 1) /\ p[1].jobs[j] = ms

\* What is known of such a profile.
GivenKeeps(p, rp, i, k, j, ms, r) ==
  /\ Firm(r, rp) /\ FirstKept(p, r, {})
  /\ Exact(p) => Exact(r)
  /\ Paced(p) /\ Lasts(p, j, i, k) => Paced(r)
  /\ i = 1 => Holds(r, j, ms)

\* Adding a job to slices that offer its machines keeps the invariant.
LEMMA PutKeeps ==
  ASSUME NEW p, NEW rp, Firm(p, rp), NEW i \in DOMAIN p, NEW k \in DOMAIN p, i <= k,
         NEW j \in Jobs, \A x \in DOMAIN p : ~Runs(p, j, x),
         NEW ms, \A x \in i..k : ms \subseteq p[x].available,
         Cardinality(ms) = nb_requested_resources[j],
         NEW r, Given(p, r, i, k, j, ms)
  PROVE  GivenKeeps(p, rp, i, k, j, ms, r)
<1>1. /\ Len(p) \in Nat /\ Len(p) >= 1 /\ DOMAIN p = 1..Len(p)
      /\ DOMAIN r = DOMAIN p /\ Len(r) = Len(p) /\ i..k \subseteq DOMAIN p
  BY DEF Firm, Sound, IsProfile, Given
<1>2. \A x \in DOMAIN p :
         /\ SliceSound(r[x], rp) /\ (SliceExact(p[x]) => SliceExact(r[x]))
         /\ r[x].begin = p[x].begin /\ r[x].end = p[x].end
         /\ \A y : Runs(r, y, x) <=> Runs(p, y, x) \/ (y = j /\ x \in i..k)
         /\ \A y : Runs(p, y, x) => r[x].jobs[y] = p[x].jobs[y]
         /\ x \in i..k => r[x].jobs[j] = ms
  BY PutSlices DEF Firm
<1>3. Sound(r, rp)
  <2>1. \A x \in 1..Len(p) : r[x] \in SliceRecord
    BY <1>1, <1>2 DEF SliceSound
  <2>2. r = [x \in 1..Len(p) |-> r[x]]
    BY <1>1 DEF Given
  <2>3. r \in [1..Len(p) -> SliceRecord]
    BY <2>1, <2>2
  <2>4. r \in Seq(SliceRecord)
    BY <2>3, <1>1
  <2> QED BY <1>1, <1>2, <2>4 DEF Sound, IsProfile
<1>4. Steady(r)
  <2>. SUFFICES ASSUME NEW y \in Jobs, NEW x \in DOMAIN r, NEW z \in DOMAIN r,
                       Runs(r, y, x), Runs(r, y, z)
                PROVE  r[x].jobs[y] = r[z].jobs[y] /\ \A w \in x..z : Runs(r, y, w)
    BY DEF Steady
  <2>1. CASE y = j
    <3>1. x \in i..k /\ z \in i..k
      BY <2>1, <1>1, <1>2
    <3>2. \A w \in x..z : w \in i..k /\ w \in DOMAIN p
      BY <3>1, <1>1
    <3> QED BY <3>1, <3>2, <2>1, <1>1, <1>2
  <2>2. CASE y # j
    <3>1. Runs(p, y, x) /\ Runs(p, y, z)
      BY <2>2, <1>1, <1>2
    <3>2. p[x].jobs[y] = p[z].jobs[y] /\ \A w \in x..z : Runs(p, y, w)
      BY <3>1, <1>1 DEF Firm, Steady
    <3>3. \A w \in x..z : w \in DOMAIN p
      BY <1>1
    <3> QED BY <3>1, <3>2, <3>3, <1>1, <1>2
  <2> QED BY <2>1, <2>2
<1>5. FirstKept(p, r, {})
  BY <1>1, <1>2 DEF FirstKept
<1>6. Exact(p) => Exact(r)
  BY <1>1, <1>2 DEF Exact
<1>7. ASSUME Paced(p), Lasts(p, j, i, k) PROVE Paced(r)
  <2>1. Timed(r)
    <3>1. 1 \in DOMAIN p /\ Len(p) \in DOMAIN p
      BY <1>1
    <3>2. \A x \in 2..Len(p) : x \in DOMAIN p /\ x - 1 \in DOMAIN p
      BY <1>1
    <3> QED BY <1>1, <1>2, <1>7, <3>1, <3>2 DEF Timed, Paced
  <2>2. ASSUME NEW y \in Jobs, NEW x \in DOMAIN r, NEW z \in DOMAIN r,
               Begins(r, y, x), Ends(r, y, z)
        PROVE  Lasts(r, y, x, z)
    <3>1. CASE y = j
      <4>1. x \in i..k /\ z \in i..k
        BY <3>1, <1>1, <1>2, <2>2 DEF Begins, Ends
      <4>2. x = i
        <5>1. SUFFICES ASSUME x # i PROVE FALSE
          OBVIOUS
        <5>2. x - 1 \in i..k /\ x - 1 \in DOMAIN p /\ x # 1
          BY <5>1, <4>1, <1>1
        <5> QED BY <5>2, <3>1, <2>2, <1>2 DEF Begins
      <4>3. z = k
        <5>1. SUFFICES ASSUME z # k PROVE FALSE
          OBVIOUS
        <5>2. z + 1 \in i..k /\ z + 1 \in DOMAIN p /\ z # Len(r)
          BY <5>1, <4>1, <1>1
        <5> QED BY <5>2, <3>1, <2>2, <1>2 DEF Ends
      <4>4. Lasts(p, j, i, k)
        BY <1>7
      <4> QED BY <3>1, <4>2, <4>3, <4>4, <1>2 DEF Lasts
    <3>2. CASE y # j
      <4>1. Begins(p, y, x)
        <5>1. x # 1 => x - 1 \in DOMAIN p
          BY <1>1
        <5> QED BY <5>1, <3>2, <2>2, <1>1, <1>2 DEF Begins
      <4>2. Ends(p, y, z)
        <5>1. z # Len(p) => z + 1 \in DOMAIN p
          BY <1>1
        <5> QED BY <5>1, <3>2, <2>2, <1>1, <1>2 DEF Ends
      <4>3. Lasts(p, y, x, z)
        BY <4>1, <4>2, <1>1, <1>7 DEF Paced, Lasting
      <4> QED BY <4>3, <1>1, <1>2 DEF Lasts
    <3> QED BY <3>1, <3>2
  <2> QED BY <2>1, <2>2 DEF Paced, Lasting
<1>8. i = 1 => Holds(r, j, ms)
  <2>1. i = 1 => 1 \in i..k
    BY <1>1
  <2> QED BY <2>1, <1>1, <1>2 DEF Holds
<1> QED BY <1>3, <1>4, <1>5, <1>6, <1>7, <1>8 DEF Firm, GivenKeeps

\* The job has got these slices, and nothing else has changed.
LEMMA PutGains ==
  ASSUME NEW p, NEW rp, Firm(p, rp), NEW i \in DOMAIN p, NEW k \in DOMAIN p, i <= k,
         NEW j \in Jobs, \A x \in DOMAIN p : ~Runs(p, j, x),
         NEW ms, \A x \in i..k : ms \subseteq p[x].available,
         Cardinality(ms) = nb_requested_resources[j],
         NEW r, IsProfile(r), Given(p, r, i, k, j, ms)
  PROVE  Gains(p, r, j, [begin |-> p[i].begin, end |-> p[k].end, machines |-> ms])
<1>1. /\ Len(p) \in Nat /\ Len(p) >= 1 /\ DOMAIN p = 1..Len(p) /\ IsProfile(p)
      /\ Sound(p, rp) /\ Steady(p) /\ DOMAIN r = DOMAIN p /\ i \in i..k
  BY DEF Firm, Sound, IsProfile, Given
<1>2. \A x \in DOMAIN p :
         /\ SliceSound(r[x], rp) /\ (SliceExact(p[x]) => SliceExact(r[x]))
         /\ r[x].begin = p[x].begin /\ r[x].end = p[x].end
         /\ \A y : Runs(r, y, x) <=> Runs(p, y, x) \/ (y = j /\ x \in i..k)
         /\ \A y : Runs(p, y, x) => r[x].jobs[y] = p[x].jobs[y]
         /\ x \in i..k => r[x].jobs[j] = ms
  BY PutSlices DEF Firm
<1>3. ASSUME NEW y \in Jobs \ {j} PROVE SamePeriod(p, r, y)
  <2>1. Alike(p, r, y)
    BY <1>2 DEF Alike
  <2> QED BY <1>1, <2>1, AlikePeriods
<1>4. Fills(r, j, i, k)
  BY <1>1, <1>2 DEF Fills
<1>5. /\ IsPlanned(r, j)
      /\ PeriodOf(r, j) = [begin |-> r[i].begin, end |-> r[k].end, machines |-> r[i].jobs[j]]
  BY <1>4, PeriodIs
<1>6. r[1].begin = p[1].begin
  BY <1>1, <1>2
<1> QED BY <1>1, <1>2, <1>3, <1>5, <1>6 DEF Gains, SamePeriods

\* r is the profile p, whose slice i is split at date if it holds it.
MaySplit(p, rp, i, date, r) ==
  /\ Offers(r, rp) /\ DOMAIN p \subseteq DOMAIN r
  /\ \A x \in 1..i : r[x].available = p[x].available /\ r[x].begin = p[x].begin
  /\ r[i].end = IF Splits(p, i, date) THEN date ELSE p[i].end
  /\ \A j : (\A x \in DOMAIN p : ~Runs(p, j, x)) => \A x \in DOMAIN r : ~Runs(r, j, x)
  /\ Firm(p, rp) => Keeps(p, r, rp, {}) /\ SamePeriods(p, r, Jobs)

\* split_slice keeps the slices sound, whether it cuts or not.
LEMMA SplitOffers ==
  ASSUME NEW p, NEW rp, Offers(p, rp), NEW i \in DOMAIN p, NEW date \in Int
  PROVE  MaySplit(p, rp, i, date, split_slice(p, i, date))
<1> DEFINE r == split_slice(p, i, date)
<1>1. CASE ~Splits(p, i, date)
  <2>1. r = p
    BY <1>1 DEF split_slice
  <2>2. Firm(p, rp) => Keeps(p, p, rp, {}) /\ SamePeriods(p, p, Jobs)
    BY DEF Keeps, FirstKept, SamePeriods, SamePeriod
  <2>3. DOMAIN p \subseteq DOMAIN p /\ p[i].end = p[i].end
    OBVIOUS
  <2> QED BY <2>1, <2>2, <2>3, <1>1 DEF MaySplit
<1>2. CASE Splits(p, i, date)
  <2>1. SplitAt(p, i, date, r)
    BY <1>2, SplitIs DEF Offers
  <2>2. /\ Len(p) \in Nat /\ DOMAIN p = 1..Len(p) /\ DOMAIN r = 1..(Len(p) + 1)
        /\ i \in 1..Len(p) /\ IsProfile(r)
    BY <2>1 DEF SplitAt, Offers, IsProfile
  <2> HIDE DEF r
  <2>3. \A x \in DOMAIN r :
          /\ Orig(i, x) \in DOMAIN p
          /\ r[x].available = p[Orig(i, x)].available
          /\ \A j : Runs(r, j, x) <=> Runs(p, j, Orig(i, x))
          /\ r[x].begin = IF x = i + 1 THEN date ELSE p[Orig(i, x)].begin
          /\ r[x].end = IF x = i THEN date ELSE p[Orig(i, x)].end
    BY <2>1 DEF SplitAt, SameSlice, Runs
  <2>4. \A x \in 1..i : Orig(i, x) = x /\ x \in DOMAIN r /\ x # i + 1
    BY <2>2 DEF Orig
  <2>5. Firm(p, rp) => Keeps(p, r, rp, {}) /\ SamePeriods(p, r, Jobs)
    BY <1>2, <2>1, SplitKeeps
  <2>6. Offers(r, rp)
    BY <2>2, <2>3 DEF Offers
  <2>7. DOMAIN p \subseteq DOMAIN r /\ i \in DOMAIN r /\ i \in 1..i
    BY <2>2
  <2> QED BY <1>2, <2>3, <2>4, <2>5, <2>6, <2>7 DEF MaySplit, r
<1> QED BY <1>1, <1>2

\* The slices of an anchor, the last of them split, last as long as the job.
LEMMA AnchorLasts ==
  ASSUME NEW p, IsProfile(p), Timed(p), NEW j \in Jobs,
         NEW i \in DOMAIN p, NEW k \in i..Len(p),
         NEW w, w = WalltimeFrom(walltime[j], p[i].begin),
         Spans(p, i, k, w), NEW q,
         q[i].begin = p[i].begin,
         q[k].end = IF Splits(p, k, p[i].begin + w) THEN p[i].begin + w ELSE p[k].end
  PROVE  Lasts(q, j, i, k) /\ q[k].end = p[i].begin + w
<1>1. /\ Len(p) \in Nat /\ DOMAIN p = 1..Len(p) /\ k \in DOMAIN p
      /\ \A x \in DOMAIN p : p[x].begin \in Int /\ p[x].end \in Int
  BY FieldTypes DEF IsProfile
<1>2. w \in Int /\ (w > 0 \/ w = Horizon - p[i].begin)
  BY <1>1, PlatformAssumption, ScheduleAssumption DEF WalltimeFrom
<1>3. p[k].end - p[i].begin >= w /\ (k > i => p[k - 1].end - p[i].begin < w)
  BY DEF Spans
<1>4. p[k].end <= Horizon /\ p[i].end <= Horizon /\ Horizon \in Int
  BY <1>1, ScheduleAssumption DEF Timed
<1>5. k > i => k \in 2..Len(p) /\ p[k].begin = p[k - 1].end /\ k - 1 \in DOMAIN p
  BY <1>1 DEF Timed
<1>6. i # 1 => p[i].begin < p[i].end
  BY <1>1 DEF Timed
<1>7. CASE Splits(p, k, p[i].begin + w)
  <2>1. q[k].end - q[i].begin = w
    BY <1>7, <1>1, <1>2
  <2> QED BY <1>1, <1>2, <1>7, <2>1 DEF Lasts
<1>8. CASE ~Splits(p, k, p[i].begin + w)
  <2>1. q[k].end = p[k].end
    BY <1>8
  <2>2. p[i].begin + w <= p[k].begin \/ p[k].end <= p[i].begin + w
    BY <1>8, <1>1, <1>2 DEF Splits
  <2>3. p[k].end - p[i].begin <= w
    <3>1. CASE k > i
      <4>1. p[k].begin < p[i].begin + w
        BY <3>1, <1>1, <1>2, <1>3, <1>5
      <4> QED BY <4>1, <2>2, <1>1, <1>2
    <3>2. CASE k = i
      <4>1. CASE w > 0
        BY <4>1, <3>2, <2>2, <1>1, <1>2
      <4>2. CASE w = Horizon - p[i].begin
        BY <4>2, <1>1, <1>4
      <4> QED BY <4>1, <4>2, <1>2
    <3> QED BY <3>1, <3>2, <1>1
  <2>4. p[k].end - p[i].begin = w
    BY <2>3, <1>1, <1>2, <1>3
  <2> QED BY <2>1, <2>4, <1>1, <1>2 DEF Lasts
<1> QED BY <1>7, <1>8
-----------------------------------------------------------------------------
(* The insertions, on schedules.                                            *)

\* The period of job j, or none, is what the insertion a says of it.
Places(p, j, a) ==
  IF a.inserted
  THEN Gains(p, a.schedule.profile, j,
             [begin |-> a.begin, end |-> a.end, machines |-> a.used])
  ELSE SamePeriods(p, a.schedule.profile, Jobs)

\* What an insertion of job j into S yields.
Inserts(S, a, j) ==
  /\ IsSchedule(a.schedule) /\ a.schedule.repair = S.repair
  /\ a.schedule.ok => S.ok
  /\ DOMAIN a = {"schedule", "used", "begin", "end", "started_in_first_slice", "inserted"}
  /\ a.inserted \in BOOLEAN /\ a.used \cap S.repair = {}
  /\ Firm(S.profile, S.repair) /\ ~contains_job(S, j) =>
       /\ Keeps(S.profile, a.schedule.profile, S.repair, {})
       /\ a.started_in_first_slice => Holds(a.schedule.profile, j, a.used)
       /\ Paced(S.profile) => Places(S.profile, j, a)

\* The types of the fields of a schedule.
LEMMA ScheduleFields ==
  ASSUME NEW S \in ScheduleRecord
  PROVE  /\ S.profile \in Seq(SliceRecord) /\ S.repair \subseteq Machines
         /\ S.size \in Int /\ S.nb_jobs_size \in Int /\ S.nb_reservations_size \in Int
         /\ S.ok \in BOOLEAN
BY DEF ScheduleRecord

\* A job that is put where it fits is inserted, and nothing else moves.
LEMMA PutAtInserts ==
  ASSUME NEW S, IsSchedule(S), NEW j \in Jobs, NEW i \in DOMAIN S.profile,
         NEW k \in i..Len(S.profile), NEW range,
         IsAnchor(S.profile, i, k, nb_requested_resources[j], walltime[j], range)
  PROVE  LET a == PutAt(S, j, i, k, range)
         IN Inserts(S, a, j) /\ a.schedule.ok = S.ok
<1> DEFINE p == S.profile
           n == nb_requested_resources[j]
           w == WalltimeFrom(walltime[j], p[i].begin)
           end == p[i].begin + w
           q == split_slice(p, k, end)
           common == CommonMachines(p, i..k) \cap range
           ms == LeftOf(common, n)
           r == AllocateIn(q, i..k, j, ms, n)
           T == [S EXCEPT !.profile = r, !.size = S.size + 1,
                          !.nb_jobs_size = S.nb_jobs_size + 1]
           a == PutAt(S, j, i, k, range)
<1>1. /\ S \in ScheduleRecord /\ Offers(p, S.repair) /\ IsProfile(p)
      /\ Len(p) \in Nat /\ DOMAIN p = 1..Len(p) /\ k \in DOMAIN p
      /\ \A x \in DOMAIN p : p[x].begin \in Int /\ p[x].end \in Int
  BY FieldTypes DEF IsSchedule, Offers, IsProfile
<1>2. n \in Nat /\ w \in Int /\ end \in Int
  BY <1>1, PlatformAssumption, ScheduleAssumption DEF WalltimeFrom
<1>3. Spans(p, i, k, w) /\ n <= Cardinality(common)
  BY <1>1, <1>2, MachinesFinite DEF IsAnchor, CommonMachines
<1>4. ms \subseteq common /\ Cardinality(ms) = n
  <2>1. common \subseteq Machines
    BY DEF CommonMachines
  <2>2. IsFiniteSet(common) /\ common \in SUBSET Int
    BY <2>1, MachinesFinite
  <2> HIDE DEF common, n
  <2> QED BY <2>2, <1>2, <1>3, LeftOfIs
<1>5. /\ ms \subseteq Machines /\ \A x \in i..k : ms \subseteq p[x].available
  <2> HIDE DEF ms
  <2> QED BY <1>4 DEF CommonMachines
<1>a. MaySplit(p, S.repair, k, end, q)
  BY <1>1, <1>2, SplitOffers
<1>6. /\ Offers(q, S.repair) /\ DOMAIN p \subseteq DOMAIN q
      /\ \A x \in 1..k : q[x].available = p[x].available /\ q[x].begin = p[x].begin
      /\ q[k].end = IF Splits(p, k, end) THEN end ELSE p[k].end
      /\ (\A x \in DOMAIN p : ~Runs(p, j, x)) => \A x \in DOMAIN q : ~Runs(q, j, x)
      /\ Firm(p, S.repair) => Keeps(p, q, S.repair, {}) /\ SamePeriods(p, q, Jobs)
  <2> HIDE DEF p, w, end, q
  <2> QED BY <1>a DEF MaySplit
<1> HIDE DEF q, ms, common, w
<1>7. /\ Len(q) \in Nat /\ DOMAIN q = 1..Len(q) /\ i \in DOMAIN q /\ k \in DOMAIN q
      /\ i..k \subseteq DOMAIN q /\ i <= k
      /\ \A x \in DOMAIN q : q[x] \in SliceRecord /\ q[x].available \cap S.repair = {}
      /\ \A x \in i..k : ms \subseteq q[x].available
  <2>1. /\ Len(q) \in Nat /\ DOMAIN q = 1..Len(q)
        /\ \A x \in DOMAIN q : q[x] \in SliceRecord /\ q[x].available \cap S.repair = {}
    BY <1>6 DEF Offers, IsProfile
  <2>2. i \in DOMAIN p /\ k \in DOMAIN p /\ i..k \subseteq DOMAIN p /\ i <= k
        /\ i..k \subseteq 1..k
    BY <1>1
  <2> HIDE DEF p
  <2>3. \A x \in i..k : ms \subseteq q[x].available
    BY <2>2, <1>5, <1>6
  <2> QED BY <2>1, <2>2, <2>3, <1>6
<1>8. /\ Given(q, r, i, k, j, ms) /\ Offers(r, S.repair) /\ r \in Seq(SliceRecord)
  <2>1. DOMAIN r = DOMAIN q /\ r = [x \in DOMAIN q |-> r[x]]
    BY DEF AllocateIn
  <2>2. \A x \in DOMAIN q :
          r[x] = IF x \in i..k THEN Allocate(q[x], j, ms, n) ELSE q[x]
    BY DEF AllocateIn
  <2> HIDE DEF r, n
  <2>3. \A x \in DOMAIN q :
          /\ Allocate(q[x], j, ms, n) \in SliceRecord
          /\ HasGiven(q[x], j, ms, n, Allocate(q[x], j, ms, n))
    BY <1>2, <1>5, <1>7, AllocateTyped
  <2>4. \A x \in DOMAIN q : r[x] \in SliceRecord /\ r[x].available \cap S.repair = {}
    BY <1>7, <2>2, <2>3 DEF HasGiven
  <2>5. r \in [1..Len(q) -> SliceRecord]
    BY <1>7, <2>1, <2>4
  <2>6. r \in Seq(SliceRecord) /\ Len(r) = Len(q)
    BY <2>5, <1>7
  <2>7. Given(q, r, i, k, j, ms)
    BY <2>1, <2>2, <2>6 DEF Given, n
  <2>8. Len(q) >= 1
    BY <1>6 DEF Offers, IsProfile
  <2> QED BY <2>1, <2>4, <2>6, <2>7, <2>8 DEF Offers, IsProfile
<1>9. T \in ScheduleRecord /\ T.profile = r /\ T.repair = S.repair /\ T.ok = S.ok
  <2>1. S.size + 1 \in Int /\ S.nb_jobs_size + 1 \in Int
    BY <1>1, ScheduleFields
  <2> HIDE DEF r
  <2> QED BY <2>1, <1>1, <1>8 DEF ScheduleRecord
<1>10. /\ a.schedule = T /\ a.used = ms /\ a.started_in_first_slice = (i = 1)
       /\ a.inserted = TRUE /\ a.begin = p[i].begin /\ a.end = end
       /\ DOMAIN a = {"schedule", "used", "begin", "end", "started_in_first_slice",
                      "inserted"}
  BY DEF PutAt, q, ms, common, w
<1>11. ms \cap S.repair = {}
  BY <1>7
<1>12. ASSUME Firm(p, S.repair), ~contains_job(S, j)
       PROVE  /\ Keeps(p, r, S.repair, {}) /\ (i = 1 => Holds(r, j, ms))
              /\ Paced(p) => Gains(p, r, j, [begin |-> p[i].begin, end |-> end,
                                             machines |-> ms])
  <2> HIDE DEF r, n
  <2>1. /\ Keeps(p, q, S.repair, {}) /\ SamePeriods(p, q, Jobs)
        /\ \A x \in DOMAIN q : ~Runs(q, j, x)
    BY <1>6, <1>12 DEF contains_job, Occurrences, Runs
  <2>2. GivenKeeps(q, S.repair, i, k, j, ms, r)
    <3>1. Firm(q, S.repair)
      BY <2>1 DEF Keeps
    <3> QED BY <3>1, <2>1, <1>4, <1>7, <1>8, PutKeeps DEF n
  <2>3. ASSUME Paced(p) PROVE Lasts(q, j, i, k) /\ q[k].end = p[i].begin + w
    <3>1. Timed(p)
      BY <2>3 DEF Paced
    <3>2. i \in 1..k /\ i \in DOMAIN p /\ k \in i..Len(p)
      BY <1>1
    <3>3. q[i].begin = p[i].begin
      BY <3>2, <1>6
    <3>4. w = WalltimeFrom(walltime[j], p[i].begin)
      BY DEF w
    <3>5. q[k].end = IF Splits(p, k, p[i].begin + w) THEN p[i].begin + w ELSE p[k].end
      BY <1>6
    <3>6. IsProfile(p) /\ Spans(p, i, k, w)
      BY <1>1, <1>3
    <3> HIDE DEF p, end
    <3> QED BY <3>1, <3>2, <3>3, <3>4, <3>5, <3>6, AnchorLasts
  <2>4. FirstKept(p, r, {})
    BY <2>1, <2>2 DEF Keeps, FirstKept, GivenKeeps
  <2>5. ASSUME Paced(p)
        PROVE  Gains(p, r, j, [begin |-> p[i].begin, end |-> end, machines |-> ms])
    <3>1. Firm(q, S.repair) /\ IsProfile(r)
      BY <2>1, <1>8 DEF Keeps, Offers
    <3>2. Gains(q, r, j, [begin |-> q[i].begin, end |-> q[k].end, machines |-> ms])
      BY <2>1, <3>1, <1>4, <1>7, <1>8, PutGains DEF n
    <3>3. q[i].begin = p[i].begin
      <4>1. i \in 1..k
        BY <1>1
      <4> QED BY <4>1, <1>6
    <3>4. q[k].end = end
      BY <2>3, <2>5
    <3> QED BY <2>1, <3>2, <3>3, <3>4 DEF Gains, SamePeriods, SamePeriod
  <2> QED BY <2>1, <2>2, <2>3, <2>4, <2>5 DEF Keeps, GivenKeeps
<1>13. ASSUME Firm(p, S.repair), ~contains_job(S, j), Paced(p)
       PROVE  Places(p, j, a)
  <2> HIDE DEF a, T, r, end
  <2> QED BY <1>9, <1>10, <1>12, <1>13 DEF Places
<1> HIDE DEF a, T, r
<1> QED BY <1>8, <1>9, <1>10, <1>11, <1>12, <1>13 DEF Inserts, IsSchedule, a

\* add_job_first_fit_after_time_slice: at the first anchor, or not at all.
LEMMA FirstFitInserts ==
  ASSUME NEW S, IsSchedule(S), NEW j \in Jobs, NEW i0 \in DOMAIN S.profile, NEW range
  PROVE  LET a == FirstFitFrom(S, i0, j, range)
         IN Inserts(S, a, j) /\ a.schedule.ok = S.ok
<1> DEFINE p == S.profile
           n == nb_requested_resources[j]
           w == walltime[j]
           anchors == Anchors(p, i0, n, w, range)
           i == Least(anchors)
           k == CHOOSE l \in i..Len(p) : IsAnchor(p, i, l, n, w, range)
<1>1. /\ Len(p) \in Nat /\ DOMAIN p = 1..Len(p) /\ i0 \in 1..Len(p)
  BY DEF IsSchedule, Offers, IsProfile
<1>2. CASE anchors = {}
  <2>1. FirstFitFrom(S, i0, j, range) = NoAlloc(S)
    BY <1>2 DEF FirstFitFrom
  <2>2. Inserts(S, NoAlloc(S), j) /\ NoAlloc(S).schedule.ok = S.ok
    BY DEF NoAlloc, Inserts, IsSchedule, Keeps, FirstKept, Places, SamePeriods, SamePeriod
  <2> QED BY <2>1, <2>2
<1>3. CASE anchors # {}
  <2>1. anchors \in SUBSET Nat
    BY <1>1 DEF Anchors
  <2>2. i \in anchors
    <3> HIDE DEF anchors
    <3> QED BY <2>1, <1>3, LeastIs
  <2>3. /\ i \in DOMAIN p
        /\ \E l \in i..Len(p) : IsAnchor(p, i, l, n, w, range)
    <3> HIDE DEF i
    <3> QED BY <2>2, <1>1 DEF Anchors
  <2>4. k \in i..Len(p) /\ IsAnchor(p, i, k, n, w, range)
    <3> HIDE DEF i
    <3> QED BY <2>3
  <2>5. FirstFitFrom(S, i0, j, range) = PutAt(S, j, i, k, range)
    BY <1>3 DEF FirstFitFrom
  <2> HIDE DEF i, k, anchors
  <2> QED BY <2>3, <2>4, <2>5, PutAtInserts
<1> QED BY <1>2, <1>3

\* An assertion only changes whether the scheduler is still there.
Checked(S, P, T) ==
  /\ IsSchedule(T) /\ T.profile = S.profile /\ T.repair = S.repair
  /\ T.ok = (S.ok /\ P)

\* An assertion changes only ok.
LEMMA CheckIs ==
  ASSUME NEW S, IsSchedule(S), NEW P \in BOOLEAN
  PROVE  Checked(S, P, Check(S, P))
<1> DEFINE T == Check(S, P)
<1>1. S \in ScheduleRecord /\ S.ok \in BOOLEAN
  BY ScheduleFields DEF IsSchedule
<1>2. T.profile = S.profile /\ T.repair = S.repair
  BY <1>1 DEF Check, ScheduleRecord
<1>3. T.ok = (S.ok /\ P)
  BY <1>1, Zenon DEF Check, ScheduleRecord
<1>4. T \in ScheduleRecord
  BY <1>1 DEF Check, ScheduleRecord
<1> HIDE DEF T
<1>5. Checked(S, P, T)
  BY <1>2, <1>3, <1>4 DEF IsSchedule, Checked
<1> QED BY <1>5 DEF T

\* An insertion with the assertions on it.
AssertedIs(S, a, b, P, mustFit, j) ==
  /\ Inserts(S, b, j) /\ b.schedule.ok = (a.schedule.ok /\ P /\ (mustFit => a.inserted))
  /\ b.inserted = a.inserted

\* An insertion whose outcome is asserted is an insertion.
LEMMA AssertedInserts ==
  ASSUME NEW S, NEW j, NEW a, Inserts(S, a, j), NEW P \in BOOLEAN,
         NEW mustFit \in BOOLEAN
  PROVE  AssertedIs(S, a, Asserted(a, P, mustFit), P, mustFit, j)
<1> DEFINE b == Asserted(a, P, mustFit)
           Q == P /\ (mustFit => a.inserted)
<1>1. /\ b.used = a.used /\ b.inserted = a.inserted
      /\ b.started_in_first_slice = a.started_in_first_slice
      /\ b.begin = a.begin /\ b.end = a.end
      /\ b.schedule = Check(a.schedule, Q)
      /\ DOMAIN b = DOMAIN a
  BY DEF Asserted, Inserts
<1>2. Checked(a.schedule, Q, b.schedule)
  BY <1>1, CheckIs DEF Inserts
<1> HIDE DEF b, Q
<1>3. b.schedule.ok => a.schedule.ok
  BY <1>2, Zenon DEF Checked
<1>4. Inserts(S, b, j)
  BY <1>1, <1>2, <1>3 DEF Inserts, Checked, Places
<1>5. b.schedule.ok = (a.schedule.ok /\ P /\ (mustFit => a.inserted))
  BY <1>2, Zenon DEF Checked, Q
<1> QED BY <1>1, <1>4, <1>5 DEF AssertedIs, b

\* add_job_first_fit: it fails on a job that is there already.
AddsFirst(S, j, mustFit, a) ==
  /\ Inserts(S, a, j)
  /\ a.schedule.ok => ~contains_job(S, j)
  /\ S.ok /\ ~contains_job(S, j) /\ ~mustFit => a.schedule.ok

\* add_job_first_fit inserts the job, or finds no place for it.
LEMMA AddFirstFit ==
  ASSUME NEW S, IsSchedule(S), NEW j \in Jobs, NEW range, NEW mustFit \in BOOLEAN
  PROVE  AddsFirst(S, j, mustFit, add_job_first_fit(S, j, range, mustFit))
<1> DEFINE f == FirstFitFrom(S, 1, j, range)
           P == ~contains_job(S, j)
           a == Asserted(f, P, mustFit)
<1>1. 1 \in DOMAIN S.profile
  BY DEF IsSchedule, Offers, IsProfile
<1>2. Inserts(S, f, j) /\ f.schedule.ok = S.ok
  BY <1>1, FirstFitInserts
<1>3. a = add_job_first_fit(S, j, range, mustFit)
  BY DEF add_job_first_fit
<1>4. AssertedIs(S, f, a, P, mustFit, j)
  <2>1. P \in BOOLEAN
    BY DEF contains_job
  <2> HIDE DEF f, P
  <2> QED BY <1>2, <2>1, AssertedInserts
<1> HIDE DEF a, f
<1>5. Inserts(S, a, j) /\ a.schedule.ok = (S.ok /\ P /\ (mustFit => f.inserted))
  BY <1>2, <1>4, Zenon DEF AssertedIs
<1>6. a.schedule.ok => P
  BY <1>5, Zenon
<1>7. S.ok /\ P /\ ~mustFit => a.schedule.ok
  BY <1>5, Zenon
<1> QED BY <1>3, <1>5, <1>6, <1>7, Zenon DEF AddsFirst

\* A date before the horizon is in one of the slices.
LEMMA SomeSliceHolds ==
  ASSUME NEW p, IsProfile(p), Timed(p), NEW date \in Int, p[1].begin <= date, date < Horizon
  PROVE  \E x \in DOMAIN p : p[x].begin <= date /\ date < p[x].end
<1> DEFINE later == {x \in DOMAIN p : date < p[x].end}
<1>1. /\ Len(p) \in Nat /\ Len(p) >= 1 /\ DOMAIN p = 1..Len(p)
      /\ \A x \in DOMAIN p : p[x].begin \in Int /\ p[x].end \in Int
  BY FieldTypes DEF IsProfile
<1>2. Len(p) \in later
  BY <1>1 DEF Timed
<1>3. PICK x \in later : \A y \in later : x <= y
  <2>1. later \in SUBSET Nat /\ later # {}
    BY <1>1, <1>2
  <2> HIDE DEF later
  <2> QED BY <2>1, RL!SmallestNat
<1>4. CASE x = 1
  BY <1>3, <1>4
<1>5. CASE x # 1
  <2>1. x \in 2..Len(p) /\ x - 1 \in DOMAIN p /\ x - 1 < x
    BY <1>1, <1>3, <1>5
  <2>2. x - 1 \notin later
    BY <2>1, <1>1, <1>3
  <2>3. p[x - 1].end <= date
    BY <2>1, <2>2, <1>1
  <2>4. p[x].begin = p[x - 1].end
    BY <2>1 DEF Timed
  <2> QED BY <2>3, <2>4, <1>3
<1> QED BY <1>4, <1>5

\* An insertion into the schedule whose profile is split before.
LEMMA InsertsAfterSplit ==
  ASSUME NEW S, IsSchedule(S), NEW T, IsSchedule(T), T.repair = S.repair, T.ok = S.ok,
         NEW i, NEW date, MaySplit(S.profile, S.repair, i, date, T.profile),
         NEW j \in Jobs, NEW a, Inserts(T, a, j)
  PROVE  Inserts(S, a, j)
<1>1. ~contains_job(S, j) => ~contains_job(T, j)
  BY DEF contains_job, Occurrences, MaySplit, Runs
<1>2. ASSUME Firm(S.profile, S.repair), ~contains_job(S, j)
      PROVE  /\ Keeps(S.profile, a.schedule.profile, S.repair, {})
             /\ a.started_in_first_slice => Holds(a.schedule.profile, j, a.used)
             /\ Paced(S.profile) => Places(S.profile, j, a)
  <2>1. /\ Keeps(S.profile, T.profile, S.repair, {}) /\ Firm(T.profile, T.repair)
        /\ SamePeriods(S.profile, T.profile, Jobs)
    BY <1>2 DEF MaySplit, Keeps
  <2>2. /\ Keeps(T.profile, a.schedule.profile, S.repair, {})
        /\ a.started_in_first_slice => Holds(a.schedule.profile, j, a.used)
        /\ Paced(S.profile) => Places(T.profile, j, a)
    BY <2>1, <1>1, <1>2 DEF Inserts, Keeps
  <2>4. Paced(S.profile) => Places(S.profile, j, a)
    BY <2>1, <2>2 DEF Places, Gains, SamePeriods, SamePeriod
  <2>3. FirstKept(S.profile, a.schedule.profile, {})
    BY <2>1, <2>2 DEF Keeps, FirstKept
  <2> QED BY <2>1, <2>2, <2>3, <2>4 DEF Keeps
<1> QED BY <1>2 DEF Inserts

\* add_job_first_fit_after_time: it fails on a date that no slice holds.
AddsAfter(S, j, date, mustFit, a) ==
  /\ Inserts(S, a, j)
  /\ S.ok /\ Timed(S.profile) /\ S.profile[1].begin <= date /\ date < Horizon /\ ~mustFit
       => a.schedule.ok

\* add_job_first_fit_after_time does so from the given date on.
LEMMA AddFirstFitAfterTime ==
  ASSUME NEW S, IsSchedule(S), NEW j \in Jobs, NEW date \in Int, NEW range,
         NEW mustFit \in BOOLEAN
  PROVE  AddsAfter(S, j, date, mustFit,
                   add_job_first_fit_after_time(S, j, date, range, mustFit))
<1> DEFINE p == S.profile
           holds == {i \in DOMAIN p : p[i].begin <= date /\ date < p[i].end}
           i == Least(holds)
           q == split_slice(p, i, date)
           T == [S EXCEPT !.profile = q]
           second == SecondAfterSplit(p, i, date)
           f == FirstFitFrom(T, second, j, range)
           a == add_job_first_fit_after_time(S, j, date, range, mustFit)
<1>1. /\ S \in ScheduleRecord /\ Offers(p, S.repair) /\ IsProfile(p)
      /\ Len(p) \in Nat /\ DOMAIN p = 1..Len(p) /\ S.ok \in BOOLEAN
  BY ScheduleFields DEF IsSchedule, Offers, IsProfile
<1>2. CASE holds = {}
  <2> DEFINE F == Fail(S)
  <2>1. a = NoAlloc(F)
    BY <1>2 DEF add_job_first_fit_after_time
  <2>2. F \in ScheduleRecord /\ F.profile = p /\ F.repair = S.repair /\ F.ok = FALSE
    BY <1>1 DEF Fail, ScheduleRecord
  <2> HIDE DEF F
  <2>3. /\ a.schedule = F /\ a.inserted = FALSE /\ a.used = {}
        /\ a.started_in_first_slice = FALSE
        /\ DOMAIN a = {"schedule", "used", "begin", "end", "started_in_first_slice",
                       "inserted"}
    BY <2>1 DEF NoAlloc
  <2> HIDE DEF a
  <2>4. Inserts(S, a, j)
    BY <2>2, <2>3, <1>1
       DEF Inserts, IsSchedule, Keeps, FirstKept, Places, SamePeriods, SamePeriod
  <2>5. ~(Timed(p) /\ p[1].begin <= date /\ date < Horizon)
    BY <1>1, <1>2, SomeSliceHolds
  <2>6. AddsAfter(S, j, date, mustFit, a)
    BY <2>4, <2>5 DEF AddsAfter
  <2> QED BY <2>6 DEF a
<1>3. CASE holds # {}
  <2>1. i \in DOMAIN p
    <3>1. holds \in SUBSET Nat
      BY <1>1
    <3>2. i \in holds
      <4> HIDE DEF holds
      <4> QED BY <3>1, <1>3, LeastIs
    <3> QED BY <3>2
  <2>2. a = Asserted(f, TRUE, mustFit)
    BY <1>3 DEF add_job_first_fit_after_time
  <2> HIDE DEF a, i, holds
  <2>3. MaySplit(p, S.repair, i, date, q)
    BY <2>1, <1>1, SplitOffers
  <2>4. Offers(q, S.repair) /\ q \in Seq(SliceRecord)
    <3> HIDE DEF q
    <3> QED BY <2>3 DEF MaySplit, Offers, IsProfile
  <2>5. second \in DOMAIN q
    <3>1. CASE Splits(p, i, date)
      <4>1. SplitAt(p, i, date, q)
        BY <3>1, <2>1, <1>1, SplitIs
      <4>2. DOMAIN q = 1..(Len(p) + 1)
        <5> HIDE DEF q
        <5> QED BY <4>1, <1>1 DEF SplitAt, IsProfile
      <4> HIDE DEF q
      <4> QED BY <3>1, <4>2, <2>1, <1>1 DEF SecondAfterSplit
    <3>2. CASE ~Splits(p, i, date)
      <4> HIDE DEF q
      <4> QED BY <3>2, <2>1, <2>3 DEF SecondAfterSplit, MaySplit
    <3> QED BY <3>1, <3>2
  <2> HIDE DEF q, second
  <2>6. T \in ScheduleRecord /\ T.profile = q /\ T.repair = S.repair /\ T.ok = S.ok
    BY <1>1, <2>4 DEF ScheduleRecord
  <2> HIDE DEF T
  <2>7. IsSchedule(T)
    BY <2>4, <2>6 DEF IsSchedule
  <2>8. Inserts(T, f, j) /\ f.schedule.ok = T.ok
    BY <2>5, <2>6, <2>7, FirstFitInserts
  <2> HIDE DEF f
  <2>9. Inserts(S, f, j)
    BY <2>3, <2>6, <2>7, <2>8, InsertsAfterSplit
  <2>10. AssertedIs(S, f, a, TRUE, mustFit, j)
    BY <2>2, <2>9, AssertedInserts
  <2>11. a.schedule.ok = (f.schedule.ok /\ (mustFit => f.inserted))
    BY <2>10, Zenon DEF AssertedIs
  <2>12. S.ok /\ ~mustFit => a.schedule.ok
    BY <2>6, <2>8, <2>11, Zenon
  <2>13. AddsAfter(S, j, date, mustFit, a)
    BY <2>10, <2>12, Zenon DEF AddsAfter, AssertedIs
  <2> QED BY <2>13 DEF a
<1> QED BY <1>2, <1>3
-----------------------------------------------------------------------------
(* Removing a job.                                                          *)

\* q is the profile p, in which the slices i..l are without job j.
Freed(p, q, i, l, j, ms) ==
  /\ IsProfile(q) /\ Len(q) = Len(p)
  /\ \A x \in DOMAIN p : IF x \in i..l THEN HasFreed(p[x], j, ms, q[x]) ELSE q[x] = p[x]

\* The slices in which a job has lost machines.
LEMMA FreedIs ==
  ASSUME NEW p, IsProfile(p), NEW j, NEW i, NEW l, Stays(p, j, i, l),
         NEW ms, ms \subseteq Machines
  PROVE  Freed(p, [x \in DOMAIN p |-> IF x \in i..l THEN FreeIn(p[x], j, ms) ELSE p[x]],
               i, l, j, ms)
<1> DEFINE q == [x \in DOMAIN p |-> IF x \in i..l THEN FreeIn(p[x], j, ms) ELSE p[x]]
<1>1. /\ Len(p) \in Nat /\ Len(p) >= 1 /\ DOMAIN p = 1..Len(p)
      /\ \A x \in DOMAIN p : p[x] \in SliceRecord
  BY DEF IsProfile
<1>2. \A x \in DOMAIN p : q[x] = IF x \in i..l THEN FreeIn(p[x], j, ms) ELSE p[x]
  OBVIOUS
<1>3. DOMAIN q = DOMAIN p /\ q = [x \in DOMAIN p |-> q[x]]
  OBVIOUS
<1> HIDE DEF q
<1>4. ASSUME NEW x \in DOMAIN p, x \in i..l
      PROVE  FreeIn(p[x], j, ms) \in SliceRecord /\ HasFreed(p[x], j, ms, FreeIn(p[x], j, ms))
  <2>1. p[x] \in SliceRecord /\ j \in DOMAIN p[x].jobs
    BY <1>1, <1>4 DEF Stays, Runs
  <2> QED BY <2>1, FreeTyped
<1>5. \A x \in DOMAIN p : q[x] \in SliceRecord
  BY <1>1, <1>2, <1>4
<1>6. q \in Seq(SliceRecord) /\ Len(q) = Len(p)
  <2>1. q \in [1..Len(p) -> SliceRecord]
    BY <1>1, <1>3, <1>5
  <2> QED BY <2>1, <1>1
<1>7. Freed(p, q, i, l, j, ms)
  BY <1>1, <1>2, <1>4, <1>6 DEF Freed, IsProfile
<1> QED BY <1>7 DEF q

\* Taking a job out keeps the invariant, before slices are merged.
LEMMA FreedKeeps ==
  ASSUME NEW p, NEW rp, Firm(p, rp), NEW j \in Jobs, NEW i, NEW l, Stays(p, j, i, l),
         NEW ms, ms = p[i].jobs[j] \ rp, NEW q, Freed(p, q, i, l, j, ms)
  PROVE  Keeps(p, q, rp, {j}) /\ SamePeriods(p, q, Jobs \ {j})
<1>1. /\ Len(p) \in Nat /\ Len(p) >= 1 /\ DOMAIN p = 1..Len(p)
      /\ DOMAIN q = DOMAIN p /\ Len(q) = Len(p) /\ i \in DOMAIN p /\ l \in i..Len(p)
      /\ IsProfile(p) /\ IsProfile(q) /\ i..l \subseteq DOMAIN p
      /\ \A x \in DOMAIN q : q[x] \in SliceRecord
  BY DEF Firm, Sound, IsProfile, Freed, Stays
<1>2. \A x \in DOMAIN p : Runs(p, j, x) <=> x \in i..l
  <2>1. ASSUME NEW x \in DOMAIN p, Runs(p, j, x), x > l PROVE FALSE
    <3>1. l \in DOMAIN p /\ Runs(p, j, l) /\ l + 1 \in l..x /\ l # Len(p)
      <4>1. /\ x \in Int /\ l \in Int /\ i \in Int /\ Len(p) \in Int
            /\ x <= Len(p) /\ i <= l /\ l < x
        BY <1>1, <2>1
      <4>2. l + 1 \in l..x /\ l # Len(p) /\ l \in i..l
        BY <4>1
      <4> QED BY <4>2, <1>1 DEF Stays
    <3>2. Runs(p, j, l + 1)
      BY <2>1, <3>1 DEF Firm, Steady
    <3> QED BY <3>1, <3>2 DEF Stays
  <2>2. \A x \in DOMAIN p : x < i => x \in 1..(i - 1)
    BY <1>1
  <2> QED BY <2>1, <2>2, <1>1 DEF Stays
<1>3. ASSUME NEW x \in DOMAIN p
      PROVE  /\ SliceSound(q[x], rp) /\ (rp = {} /\ SliceExact(p[x]) => SliceExact(q[x]))
             /\ q[x].begin = p[x].begin /\ q[x].end = p[x].end
             /\ \A y : Runs(q, y, x) <=> Runs(p, y, x) /\ y # j
             /\ \A y : Runs(q, y, x) => q[x].jobs[y] = p[x].jobs[y]
  <2>1. SliceSound(p[x], rp)
    BY DEF Firm, Sound
  <2>2. CASE x \in i..l
    <3>1. HasFreed(p[x], j, ms, q[x])
      BY <2>2 DEF Freed
    <3>2. Runs(p, j, x) /\ Runs(p, j, i) /\ i \in DOMAIN p
      BY <2>2, <1>1, <1>2
    <3>3. j \in DOMAIN p[x].jobs /\ ms = p[x].jobs[j] \ rp
      BY <3>2 DEF Firm, Steady, Runs
    <3>4. /\ SliceSound(q[x], rp)
          /\ DOMAIN q[x].jobs = DOMAIN p[x].jobs \ {j}
          /\ \A k \in DOMAIN q[x].jobs : q[x].jobs[k] = p[x].jobs[k]
          /\ rp = {} /\ SliceExact(p[x]) => SliceExact(q[x])
      BY <2>1, <3>1, <3>3, <1>1, FreeSound, Zenon
    <3>5. q[x].begin = p[x].begin /\ q[x].end = p[x].end
      BY <3>1 DEF HasFreed
    <3> QED BY <3>4, <3>5 DEF Runs
  <2>3. CASE x \notin i..l
    <3>1. q[x] = p[x]
      BY <2>3 DEF Freed
    <3>2. ~Runs(p, j, x)
      BY <2>3, <1>2
    <3> QED BY <3>1, <3>2, <2>1 DEF Runs
  <2> QED BY <2>2, <2>3
<1>4. Sound(q, rp)
  BY <1>1, <1>3 DEF Sound
<1>5. Steady(q)
  <2>. SUFFICES ASSUME NEW y \in Jobs, NEW x \in DOMAIN q, NEW z \in DOMAIN q,
                       Runs(q, y, x), Runs(q, y, z)
                PROVE  q[x].jobs[y] = q[z].jobs[y] /\ \A w \in x..z : Runs(q, y, w)
    BY DEF Steady
  <2>1. Runs(p, y, x) /\ Runs(p, y, z) /\ y # j
    BY <1>1, <1>3
  <2>2. p[x].jobs[y] = p[z].jobs[y] /\ \A w \in x..z : Runs(p, y, w)
    BY <2>1, <1>1 DEF Firm, Steady
  <2>3. \A w \in x..z : w \in DOMAIN p
    BY <1>1
  <2> QED BY <2>1, <2>2, <2>3, <1>1, <1>3
<1>6. FirstKept(p, q, {j})
  BY <1>1, <1>3 DEF FirstKept
<1>7. rp = {} /\ Exact(p) => Exact(q)
  BY <1>1, <1>3 DEF Exact
<1>8. ASSUME Paced(p) PROVE Paced(q)
  <2>1. Timed(q)
    <3>1. 1 \in DOMAIN p /\ Len(p) \in DOMAIN p
      BY <1>1
    <3>2. \A x \in 2..Len(p) : x \in DOMAIN p /\ x - 1 \in DOMAIN p
      BY <1>1
    <3> QED BY <1>1, <1>3, <1>8, <3>1, <3>2 DEF Timed, Paced
  <2>2. ASSUME NEW y \in Jobs, NEW x \in DOMAIN q, NEW z \in DOMAIN q,
               Begins(q, y, x), Ends(q, y, z)
        PROVE  Lasts(q, y, x, z)
    <3>1. Begins(p, y, x)
      <4>1. x # 1 => x - 1 \in DOMAIN p
        BY <1>1
      <4> QED BY <4>1, <2>2, <1>1, <1>3 DEF Begins
    <3>2. Ends(p, y, z)
      <4>1. z # Len(p) => z + 1 \in DOMAIN p
        BY <1>1
      <4>2. y # j
        BY <2>2, <1>1, <1>3 DEF Ends
      <4> QED BY <4>1, <4>2, <2>2, <1>1, <1>3 DEF Ends
    <3>3. Lasts(p, y, x, z)
      BY <3>1, <3>2, <1>1, <1>8 DEF Paced, Lasting
    <3> QED BY <3>3, <1>1, <1>3 DEF Lasts
  <2> QED BY <2>1, <2>2 DEF Paced, Lasting
<1>9. SamePeriods(p, q, Jobs \ {j})
  <2>1. ASSUME NEW y \in Jobs \ {j} PROVE SamePeriod(p, q, y)
    <3>1. Alike(p, q, y)
      BY <1>3 DEF Alike
    <3> QED BY <1>1, <3>1, AlikePeriods DEF Firm, Sound, Freed
  <2>2. q[1].begin = p[1].begin
    BY <1>1, <1>3
  <2> QED BY <2>1, <2>2 DEF SamePeriods
<1> QED BY <1>4, <1>5, <1>6, <1>7, <1>8, <1>9 DEF Keeps, Firm

\* Later slices begin and end later.
LEMMA DatesGrow ==
  ASSUME NEW p, IsProfile(p), Timed(p), NEW x \in DOMAIN p, NEW y \in x..Len(p)
  PROVE  p[x].begin <= p[y].end /\ p[x].end <= p[y].end
<1> DEFINE S == {d \in Nat : x + d <= Len(p) =>
                               p[x].begin <= p[x + d].end /\ p[x].end <= p[x + d].end}
<1>1. /\ Len(p) \in Nat /\ DOMAIN p = 1..Len(p) /\ x \in Int /\ y \in Int
      /\ 1 <= x /\ x <= y /\ y <= Len(p)
      /\ \A z \in DOMAIN p : p[z].begin \in Int /\ p[z].end \in Int
  <2>1. Len(p) \in Nat /\ DOMAIN p = 1..Len(p)
    BY DEF IsProfile
  <2>2. \A z \in DOMAIN p : p[z].begin \in Int /\ p[z].end \in Int
    BY FieldTypes DEF IsProfile
  <2> QED BY <2>1, <2>2
<1>2. 0 \in S
  <2>1. x = 1 \/ x \in 2..Len(p)
    BY <1>1
  <2>2. p[x].begin <= p[x].end
    BY <2>1, <1>1 DEF Timed
  <2>3. x + 0 = x
    BY <1>1
  <2> QED BY <2>2, <2>3, <1>1
<1>3. ASSUME NEW d \in 1..(y - x), d - 1 \in S PROVE d \in S
  <2>. SUFFICES ASSUME x + d <= Len(p)
                PROVE  p[x].begin <= p[x + d].end /\ p[x].end <= p[x + d].end
    BY <1>1
  <2>1. x + d \in 2..Len(p) /\ x + (d - 1) = (x + d) - 1 /\ x + (d - 1) <= Len(p)
        /\ (x + d) - 1 \in DOMAIN p /\ x + d \in DOMAIN p
    BY <1>1
  <2>2. p[x + d].begin = p[(x + d) - 1].end /\ p[x + d].begin < p[x + d].end
    BY <2>1 DEF Timed
  <2>3. p[x].begin <= p[x + (d - 1)].end /\ p[x].end <= p[x + (d - 1)].end
    BY <1>3, <2>1
  <2> QED BY <2>1, <2>2, <2>3, <1>1
<1>4. y - x \in Nat /\ x + (y - x) = y
  BY <1>1
<1>5. y - x \in S
  <2> HIDE DEF S
  <2>1. \A d \in 0..(y - x) : d \in S
    BY <1>2, <1>3, <1>4, RL!UpTo
  <2> QED BY <2>1, <1>4
<1> QED BY <1>1, <1>4, <1>5

\* A slice that is dropped has the jobs of the next one.
MayDrop(q, dropped) ==
  \A k \in dropped : k \in DOMAIN q /\ k + 1 \in DOMAIN q
                     /\ DOMAIN q[k].jobs = DOMAIN q[k + 1].jobs

\* Slices that follow each other and are dropped have the jobs of the next kept.
LEMMA DroppedAlike ==
  ASSUME NEW q, NEW dropped, MayDrop(q, dropped), NEW a \in Nat, NEW b \in Nat, a <= b,
         \A k \in a..(b - 1) : k \in dropped, NEW c \in a..b
  PROVE  DOMAIN q[c].jobs = DOMAIN q[b].jobs
<1> DEFINE S == {d \in Nat : b - d >= a => DOMAIN q[b - d].jobs = DOMAIN q[b].jobs}
<1>1. 0 \in S
  BY b - 0 = b
<1>2. ASSUME NEW d \in 1..(b - a), d - 1 \in S PROVE d \in S
  <2>1. /\ b - d \in a..(b - 1) /\ (b - d) + 1 = b - (d - 1) /\ b - (d - 1) >= a
        /\ d \in Nat
    OBVIOUS
  <2>2. DOMAIN q[b - d].jobs = DOMAIN q[(b - d) + 1].jobs
    BY <2>1 DEF MayDrop
  <2>3. DOMAIN q[b - (d - 1)].jobs = DOMAIN q[b].jobs
    BY <1>2, <2>1
  <2> QED BY <2>1, <2>2, <2>3
<1>3. b - c \in 0..(b - a) /\ b - (b - c) = c /\ b - a \in Nat /\ c >= a
  OBVIOUS
<1>4. b - c \in S
  <2> HIDE DEF S
  <2>1. \A d \in 0..(b - a) : d \in S
    BY <1>1, <1>2, <1>3, RL!UpTo
  <2> QED BY <2>1, <1>3
<1> QED BY <1>3, <1>4

\* Slice x of the merged profile stands for the slices from First(at, x) to at[x].
First(at, x) == IF x = 1 THEN 1 ELSE at[x - 1] + 1

\* at lists the slices of 1..n that are kept, of which n is one.
KeptSlices(at, n, kept) ==
  /\ Len(at) \in Nat /\ DOMAIN at = 1..Len(at) /\ Len(at) >= 1
  /\ at[Len(at)] = n
  /\ \A x \in 1..Len(at) : /\ at[x] \in kept /\ First(at, x) \in 1..at[x]
                           /\ \A k \in First(at, x)..(at[x] - 1) : k \notin kept
  /\ \A x, y \in 1..Len(at) : x <= y => at[x] <= at[y]

\* The slices a merge keeps, in their order.
LEMMA KeptAre ==
  ASSUME NEW n \in Nat, n >= 1, NEW kept \in SUBSET (1..n), n \in kept
  PROVE  KeptSlices(Ascending(kept), n, kept)
<1> DEFINE at == Ascending(kept)
<1>a. \A x \in kept : x \in Int /\ 1 <= x /\ x <= n
  OBVIOUS
<1>1. IsFiniteSet(kept) /\ kept \in SUBSET Int
  <2>1. IsFiniteSet(1..n)
    BY FS_Interval
  <2> QED BY <1>a, <2>1, FS_Subset
<1>2. Increasing(kept, at)
  BY <1>1, AscendingIs
<1> HIDE DEF at
<1>3. Len(at) \in Nat /\ DOMAIN at = 1..Len(at) /\ \A x \in 1..Len(at) : at[x] \in kept
  BY <1>2 DEF Increasing
<1>4. \A x \in 1..Len(at) : at[x] \in Int /\ 1 <= at[x] /\ at[x] <= n
  BY <1>3, <1>a
<1>5. \A x, y \in 1..Len(at) : x < y => at[x] < at[y]
  BY <1>2, <1>3 DEF Increasing
<1>6. \A x, y \in 1..Len(at) : x <= y => at[x] <= at[y]
  <2>. SUFFICES ASSUME NEW x \in 1..Len(at), NEW y \in 1..Len(at), x <= y
                PROVE  at[x] <= at[y]
    OBVIOUS
  <2>1. x = y \/ x < y
    BY <1>3
  <2> QED BY <2>1, <1>4, <1>5
<1>7. PICK z \in 1..Len(at) : at[z] = n
  BY <1>2, <1>3 DEF Increasing
<1>8. Len(at) >= 1 /\ at[Len(at)] = n
  <2>1. Len(at) \in 1..Len(at) /\ z <= Len(at)
    BY <1>3
  <2>2. n <= at[Len(at)]
    BY <2>1, <1>6, <1>7
  <2> QED BY <2>1, <2>2, <1>3, <1>4
<1>9. ASSUME NEW x \in 1..Len(at)
      PROVE  First(at, x) \in 1..at[x]
  <2>1. CASE x = 1
    BY <2>1, <1>4 DEF First
  <2>2. CASE x # 1
    <3>1. x - 1 \in 1..Len(at) /\ x - 1 < x
      BY <2>2, <1>3
    <3>2. at[x - 1] < at[x] /\ at[x - 1] \in Int /\ 1 <= at[x - 1] /\ at[x] \in Int
      BY <3>1, <1>4, <1>5
    <3>3. First(at, x) = at[x - 1] + 1
      BY <2>2 DEF First
    <3> QED BY <3>2, <3>3
  <2> QED BY <2>1, <2>2
<1>10. ASSUME NEW x \in 1..Len(at), NEW k \in First(at, x)..(at[x] - 1), k \in kept
       PROVE  FALSE
  <2>1. at[x] \in Int /\ First(at, x) \in Int /\ k \in Int /\ k < at[x] /\ First(at, x) <= k
    BY <1>4, <1>9
  <2>2. PICK y \in 1..Len(at) : at[y] = k
    BY <1>2, <1>3, <1>10 DEF Increasing
  <2>3. y < x
    <3>1. ~(x <= y)
      BY <2>1, <2>2, <1>6
    <3> QED BY <3>1, <1>3
  <2>4. x # 1 /\ x - 1 \in 1..Len(at) /\ y <= x - 1
    BY <2>3, <1>3
  <2>5. at[y] <= at[x - 1]
    BY <2>4, <1>6
  <2>6. First(at, x) = at[x - 1] + 1 /\ at[x - 1] \in Int
    BY <2>4, <1>4 DEF First
  <2> QED BY <2>1, <2>2, <2>5, <2>6
<1>11. KeptSlices(at, n, kept)
  BY <1>3, <1>6, <1>8, <1>9, <1>10 DEF KeptSlices
<1> QED BY <1>11 DEF at

\* r is the profile q in which only the slices at are left.
Merged(q, at, r) ==
  /\ IsProfile(r) /\ Len(r) = Len(at) /\ DOMAIN r = 1..Len(at)
  /\ \A x \in 1..Len(at) : /\ SameSlice(r[x], q[at[x]])
                           /\ r[x].begin = q[First(at, x)].begin
                           /\ r[x].end = q[at[x]].end

\* A merge joins each slice with the dropped ones before it.
LEMMA MergeIs ==
  ASSUME NEW q, IsProfile(q), NEW dropped, MayDrop(q, dropped)
  PROVE  LET kept == DOMAIN q \ dropped
             at == Ascending(kept)
         IN KeptSlices(at, Len(q), kept) /\ Merged(q, at, Merge(q, dropped))
<1> DEFINE kept == DOMAIN q \ dropped
           at == Ascending(kept)
           r == Merge(q, dropped)
<1>1. /\ Len(q) \in Nat /\ Len(q) >= 1 /\ DOMAIN q = 1..Len(q)
      /\ \A x \in DOMAIN q : q[x] \in SliceRecord
  BY DEF IsProfile
<1>2. KeptSlices(at, Len(q), kept)
  <2>1. Len(q) \in kept
    <3>1. Len(q) \in DOMAIN q /\ Len(q) + 1 \notin DOMAIN q
      BY <1>1
    <3> QED BY <3>1 DEF MayDrop
  <2>2. kept \in SUBSET (1..Len(q))
    BY <1>1
  <2> HIDE DEF kept
  <2> QED BY <2>1, <2>2, <1>1, KeptAre
<1>3. r = [x \in DOMAIN at |-> [q[at[x]] EXCEPT !.begin = q[First(at, x)].begin]]
  BY DEF Merge, First
<1> HIDE DEF at
<1>4. Len(at) \in Nat /\ DOMAIN at = 1..Len(at) /\ Len(at) >= 1
  BY <1>2 DEF KeptSlices
<1>5. ASSUME NEW x \in 1..Len(at)
      PROVE  q[at[x]] \in SliceRecord /\ q[First(at, x)].begin \in Int
  <2>1. at[x] \in DOMAIN q /\ First(at, x) \in 1..at[x]
    BY <1>2 DEF KeptSlices
  <2>2. First(at, x) \in DOMAIN q
    BY <2>1, <1>1
  <2> QED BY <2>1, <2>2, <1>1, FieldTypes
<1>6. ASSUME NEW x \in 1..Len(at)
      PROVE  /\ SameSlice(r[x], q[at[x]]) /\ r[x] \in SliceRecord
             /\ r[x].begin = q[First(at, x)].begin
             /\ r[x].end = q[at[x]].end
  <2> DEFINE sl == q[at[x]]
             date == q[First(at, x)].begin
  <2>1. r[x] = [sl EXCEPT !.begin = date]
    BY <1>3, <1>4
  <2>2. sl \in SliceRecord /\ date \in Int
    BY <1>5
  <2> HIDE DEF sl, date, r
  <2>3. LET new == [sl EXCEPT !.begin = date]
        IN /\ new \in SliceRecord /\ SameSlice(new, sl)
           /\ new.begin = date /\ new.end = sl.end
    BY <2>2, NewDates
  <2> QED BY <2>1, <2>3 DEF sl, date
<1>7. r \in Seq(SliceRecord) /\ Len(r) = Len(at) /\ DOMAIN r = 1..Len(at)
  <2>1. r = [x \in 1..Len(at) |-> r[x]]
    BY <1>3, <1>4
  <2> HIDE DEF r
  <2>2. r \in [1..Len(at) -> SliceRecord]
    BY <2>1, <1>6
  <2> QED BY <2>2, <1>4
<1> HIDE DEF r
<1>8. Merged(q, at, r)
  BY <1>4, <1>6, <1>7 DEF Merged, IsProfile
<1> QED BY <1>2, <1>8 DEF at, r

\* Merging slices that hold the same jobs keeps the invariant.
LEMMA MergedKeeps ==
  ASSUME NEW q, NEW rp, Firm(q, rp), NEW dropped, MayDrop(q, dropped),
         NEW at, KeptSlices(at, Len(q), DOMAIN q \ dropped), NEW r, Merged(q, at, r)
  PROVE  Keeps(q, r, rp, {}) /\ SamePeriods(q, r, Jobs)
<1> DEFINE n == Len(q)
           m == Len(at)
<1>1. /\ n \in Nat /\ n >= 1 /\ DOMAIN q = 1..n
      /\ m \in Nat /\ m >= 1 /\ DOMAIN r = 1..m /\ Len(r) = m /\ at[m] = n
      /\ \A x \in DOMAIN q : q[x].begin \in Int /\ q[x].end \in Int
  BY FieldTypes DEF Firm, Sound, IsProfile, KeptSlices, Merged
<1>2. ASSUME NEW x \in 1..m
      PROVE  /\ at[x] \in 1..n /\ First(at, x) \in 1..at[x] /\ First(at, x) \in 1..n
             /\ SameSlice(r[x], q[at[x]])
             /\ r[x].begin = q[First(at, x)].begin
             /\ r[x].end = q[at[x]].end
             /\ \A j : Runs(r, j, x) <=> Runs(q, j, at[x])
             /\ \A c \in First(at, x)..at[x] : \A j : Runs(q, j, c) <=> Runs(q, j, at[x])
  <2>1. at[x] \in 1..n /\ First(at, x) \in 1..at[x]
    BY <1>1 DEF KeptSlices
  <2>2. First(at, x) \in Nat /\ at[x] \in Nat /\ First(at, x) <= at[x] /\ First(at, x) \in 1..n
    BY <2>1, <1>1
  <2>3. \A k \in First(at, x)..(at[x] - 1) : k \in dropped
    <3>1. \A k \in First(at, x)..(at[x] - 1) : k \notin DOMAIN q \ dropped
      BY DEF KeptSlices
    <3>2. \A k \in First(at, x)..(at[x] - 1) : k \in DOMAIN q
      BY <2>1, <2>2, <1>1
    <3> QED BY <3>1, <3>2
  <2>4. \A c \in First(at, x)..at[x] : DOMAIN q[c].jobs = DOMAIN q[at[x]].jobs
    <3> DEFINE a == First(at, x)
               b == at[x]
    <3>1. /\ a \in Nat /\ b \in Nat /\ a <= b
          /\ \A k \in a..(b - 1) : k \in dropped
      BY <2>2, <2>3
    <3> HIDE DEF a, b
    <3>2. \A c \in a..b : DOMAIN q[c].jobs = DOMAIN q[b].jobs
      BY <3>1, DroppedAlike
    <3> QED BY <3>2 DEF a, b
  <2>5. /\ SameSlice(r[x], q[at[x]])
        /\ r[x].begin = q[First(at, x)].begin
        /\ r[x].end = q[at[x]].end
    BY DEF Merged
  <2> QED BY <2>1, <2>2, <2>4, <2>5 DEF Runs, SameSlice
<1>3. \A x \in 2..m : x \in 1..m /\ x - 1 \in 1..m /\ First(at, x) = at[x - 1] + 1
  <2> HIDE DEF m
  <2> QED BY <1>1 DEF First
<1>4. Maps(q, r, at)
  <2>1. \A x, y \in DOMAIN r : x <= y => at[x] <= at[y]
    BY <1>1 DEF KeptSlices
  <2> QED BY <2>1, <1>1, <1>2 DEF Maps, Merged
<1>5. Sound(r, rp) /\ Steady(r) /\ (Exact(q) => Exact(r))
  BY <1>4, MapsKeep DEF Firm
<1>6. FirstKept(q, r, {})
  <2>1. 1 \in 1..m /\ First(at, 1) = 1 /\ at[1] \in DOMAIN q /\ 1 \in DOMAIN q
    BY <1>1, <1>2 DEF First
  <2>2. 1 \in First(at, 1)..at[1]
    BY <2>1, <1>1
  <2>3. \A j : Runs(q, j, 1) <=> Runs(q, j, at[1])
    BY <1>2, <2>1, <2>2
  <2>4. \A j \in Jobs : Runs(q, j, 1) => q[1].jobs[j] = q[at[1]].jobs[j]
    BY <2>1, <2>3 DEF Firm, Steady
  <2>5. r[1].jobs = q[at[1]].jobs
    BY <2>1, <1>2 DEF SameSlice
  <2> QED BY <2>1, <2>3, <2>4, <2>5, <1>2 DEF FirstKept
<1>7. ASSUME Timed(q) PROVE Timed(r)
  <2>0. IsProfile(q)
    BY DEF Firm, Sound
  <2>1. ASSUME NEW x \in 1..m
        PROVE  /\ r[x].begin <= r[x].end /\ r[x].end <= Horizon
               /\ x # 1 => r[x].begin < r[x].end
    <3>1. First(at, x) \in DOMAIN q /\ at[x] \in First(at, x)..n /\ at[x] \in DOMAIN q
      BY <1>1, <1>2
    <3>2. q[First(at, x)].begin <= q[at[x]].end /\ q[First(at, x)].end <= q[at[x]].end
      BY <3>1, <2>0, <1>7, DatesGrow
    <3>3. x # 1 => q[First(at, x)].begin < q[First(at, x)].end
      <4>1. x # 1 => x \in 2..m
        BY <1>1
      <4>2. x # 1 => x - 1 \in 1..m /\ First(at, x) = at[x - 1] + 1
        BY <4>1, <1>3
      <4>3. x # 1 => at[x - 1] \in 1..n
        BY <4>2, <1>2
      <4>4. x # 1 => First(at, x) \in 2..n
        BY <4>2, <4>3, <3>1, <1>1
      <4> QED BY <4>4, <1>7 DEF Timed
    <3>4. q[at[x]].end <= Horizon
      BY <3>1, <1>7 DEF Timed
    <3> QED BY <3>1, <3>2, <3>3, <3>4, <1>1, <1>2
  <2>2. r[m].end = Horizon
    <3>1. m \in 1..m
      BY <1>1
    <3> QED BY <3>1, <1>1, <1>2, <1>7 DEF Timed
  <2>3. ASSUME NEW x \in 2..m PROVE r[x].begin = r[x - 1].end
    <3>1. x \in 1..m /\ x - 1 \in 1..m /\ First(at, x) = at[x - 1] + 1
      BY <1>3
    <3>2. at[x - 1] \in 1..n /\ at[x - 1] + 1 \in 1..n
      BY <3>1, <1>2
    <3>3. at[x - 1] + 1 \in 2..n /\ (at[x - 1] + 1) - 1 = at[x - 1]
      BY <3>2, <1>1
    <3>4. q[at[x - 1] + 1].begin = q[at[x - 1]].end
      BY <3>3, <1>7 DEF Timed
    <3>5. r[x].begin = q[at[x - 1] + 1].begin /\ r[x - 1].end = q[at[x - 1]].end
      BY <3>1, <1>2
    <3> QED BY <3>4, <3>5
  <2>4. \A x \in 2..m : x \in 1..m /\ x # 1
    BY <1>1
  <2>5. 1 \in 1..m
    BY <1>1
  <2> QED BY <2>1, <2>2, <2>3, <2>4, <2>5, <1>1 DEF Timed
<1>8. SameEnds(q, r)
  <2>1. ASSUME NEW j \in Jobs, NEW x \in DOMAIN r, Begins(r, j, x)
        PROVE  \E b \in DOMAIN q :
                 Begins(q, j, b) /\ r[x].begin = q[b].begin /\ (x # 1 => b # 1)
    <3>1. x \in 1..m /\ First(at, x) \in DOMAIN q /\ First(at, x) \in First(at, x)..at[x]
      BY <1>1, <1>2
    <3>2. Runs(q, j, First(at, x))
      BY <2>1, <3>1, <1>2 DEF Begins
    <3>3. x = 1 => First(at, x) = 1
      BY DEF First
    <3>4. ASSUME x # 1
          PROVE  First(at, x) # 1 /\ ~Runs(q, j, First(at, x) - 1)
      <4>1. x \in 2..m
        BY <3>1, <3>4, <1>1
      <4>2. x - 1 \in 1..m /\ First(at, x) = at[x - 1] + 1
        BY <4>1, <1>3
      <4>3. ~Runs(r, j, x - 1)
        BY <2>1, <3>4 DEF Begins
      <4>4. ~Runs(q, j, at[x - 1]) /\ at[x - 1] \in 1..n
        BY <4>2, <4>3, <1>2
      <4>5. First(at, x) - 1 = at[x - 1] /\ First(at, x) # 1
        <5>1. at[x - 1] \in Int /\ at[x - 1] >= 1
          BY <4>4, <1>1
        <5> HIDE DEF n, m
        <5> QED BY <4>2, <5>1
      <4> QED BY <4>4, <4>5
    <3>5. Begins(q, j, First(at, x))
      BY <3>2, <3>3, <3>4 DEF Begins
    <3>6. r[x].begin = q[First(at, x)].begin
      BY <3>1, <1>2
    <3> QED BY <3>1, <3>4, <3>5, <3>6
  <2>2. ASSUME NEW j \in Jobs, NEW z \in DOMAIN r, Ends(r, j, z)
        PROVE  \E e \in DOMAIN q : Ends(q, j, e) /\ r[z].end = q[e].end
    <3>1. z \in 1..m /\ at[z] \in DOMAIN q /\ r[z].end = q[at[z]].end
      BY <1>1, <1>2
    <3>2. Runs(q, j, at[z])
      BY <2>2, <3>1, <1>2 DEF Ends
    <3>3. z = m => at[z] = n
      BY <1>1
    <3>4. ASSUME z # m PROVE ~Runs(q, j, at[z] + 1)
      <4>1. z + 1 \in 2..m /\ (z + 1) - 1 = z
        BY <3>1, <3>4, <1>1
      <4>2. z + 1 \in 1..m /\ First(at, z + 1) = at[z] + 1
        BY <4>1, <1>3
      <4>3. ~Runs(r, j, z + 1)
        BY <2>2, <3>4, <1>1 DEF Ends
      <4>4. ~Runs(q, j, at[z + 1]) /\ First(at, z + 1) \in 1..at[z + 1] /\ at[z + 1] \in 1..n
        BY <4>2, <4>3, <1>2
      <4>5. First(at, z + 1) \in First(at, z + 1)..at[z + 1]
        BY <4>4, <1>1
      <4>6. ~Runs(q, j, First(at, z + 1))
        BY <4>2, <4>4, <4>5, <1>2
      <4> QED BY <4>2, <4>6
    <3>5. Ends(q, j, at[z])
      BY <3>2, <3>3, <3>4 DEF Ends
    <3> QED BY <3>1, <3>5
  <2> QED BY <2>1, <2>2 DEF SameEnds
<1>9. Lasting(q) => Lasting(r)
  BY <1>8, EndsKeep
<1>10. SamePeriods(q, r, Jobs)
  <2>1. ASSUME NEW x \in DOMAIN q
        PROVE  \E y \in DOMAIN r : DOMAIN r[y].jobs = DOMAIN q[x].jobs
    <3> DEFINE reach == {y \in 1..m : x <= at[y]}
               y == Least(reach)
    <3>1. m \in reach /\ reach \in SUBSET Nat /\ x \in 1..n
      BY <1>1
    <3>2. y \in reach /\ \A z \in reach : y <= z
      <4> HIDE DEF reach
      <4> QED BY <3>1, LeastIs
    <3> HIDE DEF y
    <3>3. y \in 1..m /\ x <= at[y]
      BY <3>2
    <3>4. First(at, y) <= x
      <4>1. CASE y = 1
        BY <3>1, <4>1 DEF First
      <4>2. CASE y # 1
        <5>1. y \in 2..m /\ y - 1 \in 1..m /\ ~(y <= y - 1)
          BY <1>1, <3>3, <4>2
        <5>2. y - 1 \notin reach
          BY <5>1, <3>2
        <5>3. ~(x <= at[y - 1]) /\ at[y - 1] \in 1..n /\ First(at, y) = at[y - 1] + 1
          BY <5>1, <5>2, <1>2, <1>3
        <5>4. x \in Int /\ at[y - 1] \in Int
          BY <5>3, <3>1
        <5> QED BY <5>3, <5>4
      <4> QED BY <4>1, <4>2
    <3>5. x \in First(at, y)..at[y]
      <4>1. at[y] \in 1..n /\ First(at, y) \in 1..n
        BY <3>3, <1>2
      <4> QED BY <3>1, <3>3, <3>4, <4>1
    <3>6. \A j : Runs(r, j, y) <=> Runs(q, j, x)
      BY <3>3, <3>5, <1>2
    <3>7. DOMAIN r[y].jobs = DOMAIN q[x].jobs
      BY <3>6 DEF Runs
    <3> QED BY <3>3, <3>7, <1>1
  <2>2. IsProfile(q) /\ Steady(q)
    BY DEF Firm, Sound
  <2>3. r[1].begin = q[1].begin
    <3>1. 1 \in 1..m /\ First(at, 1) = 1
      BY <1>1 DEF First
    <3> QED BY <3>1, <1>2
  <2> QED BY <1>4, <1>5, <1>8, <2>1, <2>2, <2>3, PeriodsKeep
<1> QED BY <1>5, <1>6, <1>7, <1>9, <1>10 DEF Keeps, Firm, Paced

\* Two operations one after the other.
LEMMA KeepsTwice ==
  ASSUME NEW p, NEW q, NEW r, NEW rp, NEW A, NEW B, Keeps(p, q, rp, A), Keeps(q, r, rp, B)
  PROVE  Keeps(p, r, rp, A \cup B)
<1>1. FirstKept(p, r, A \cup B)
  BY DEF Keeps, FirstKept
<1> QED BY <1>1 DEF Keeps

\* Slices that hold the same jobs offer the same machines, when no machine is
\* or has been under repair.
LEMMA SameMachines ==
  ASSUME NEW q, Firm(q, {}), Exact(q), NEW k \in DOMAIN q, NEW l \in DOMAIN q,
         DOMAIN q[k].jobs = DOMAIN q[l].jobs
  PROVE  q[k].available = q[l].available
<1>1. /\ SliceSound(q[k], {}) /\ SliceExact(q[k])
      /\ SliceSound(q[l], {}) /\ SliceExact(q[l])
  BY DEF Firm, Sound, Exact
<1>2. /\ DOMAIN q[k].jobs \subseteq Jobs
      /\ q[k].available \subseteq Machines /\ q[l].available \subseteq Machines
  BY <1>1, FieldTypes DEF SliceSound
<1>3. \A j \in DOMAIN q[k].jobs : q[k].jobs[j] = q[l].jobs[j]
  BY <1>2 DEF Firm, Steady, Runs
<1>4. ASSUME NEW m \in Machines
      PROVE  m \in q[k].available <=> m \in q[l].available
  BY <1>1, <1>3 DEF SliceSound, SliceExact
<1> QED BY <1>2, <1>4

\* T is the schedule S without job j.  No assertion on it fails as long as no
\* machine has been under repair.
RemovesJob(S, j, T) ==
  /\ IsSchedule(T) /\ T.repair = S.repair
  /\ T.ok => S.ok
  /\ Firm(S.profile, S.repair) =>
       /\ Keeps(S.profile, T.profile, S.repair, {j})
       /\ SamePeriods(S.profile, T.profile, Jobs \ {j})
       /\ \A x \in DOMAIN T.profile : ~Runs(T.profile, j, x)
  /\ S.ok /\ S.repair = {} /\ Firm(S.profile, {}) /\ Exact(S.profile) => T.ok

\* remove_job_internal takes a job out of all its slices.
LEMMA InternalRemoves ==
  ASSUME NEW S, IsSchedule(S), NEW j \in Jobs, contains_job(S, j)
  PROVE  RemovesJob(S, j,
           remove_job_internal(S, j, Least(Occurrences(S.profile, j))))
<1> DEFINE p == S.profile
           rp == S.repair
           i == Least(Occurrences(p, j))
           l == Least({x \in i..Len(p) : x = Len(p) \/ j \notin DOMAIN p[x + 1].jobs})
           ms == p[i].jobs[j] \ rp
           q == [x \in DOMAIN p |-> IF x \in i..l THEN FreeIn(p[x], j, ms) ELSE p[x]]
           dropped == DroppedBy(q, i, l)
           r == Merge(q, dropped)
           same == \A k \in dropped : q[k].available = q[k + 1].available
           T == remove_job_internal(S, j, i)
<1>1. /\ S \in ScheduleRecord /\ Offers(p, rp) /\ IsProfile(p)
      /\ Len(p) \in Nat /\ DOMAIN p = 1..Len(p)
      /\ \A x \in DOMAIN p : p[x] \in SliceRecord
  BY DEF IsSchedule, Offers, IsProfile
<1>2. Stays(p, j, i, l)
  <2>1. Occurrences(p, j) # {}
    BY DEF contains_job
  <2> QED BY <2>1, <1>1, StayIs
<1>3. /\ T.profile = r /\ T.repair = rp
      /\ T \in [profile : {r}, repair : {rp}, size : Int, nb_jobs_size : Int,
                nb_reservations_size : Int, ok : {S.ok /\ same}]
  <2>1. /\ S.size \in Int /\ S.nb_jobs_size \in Int /\ S.nb_reservations_size \in Int
        /\ S.ok \in BOOLEAN
    BY <1>1, ScheduleFields
  <2>2. T = [S EXCEPT !.profile = r, !.size = @ - 1,
                  !.nb_jobs_size = IF j \in Reservations THEN @ ELSE @ - 1,
                  !.nb_reservations_size = IF j \in Reservations THEN @ - 1 ELSE @,
                  !.ok = @ /\ same]
    BY DEF remove_job_internal
  <2> HIDE DEF r, same, T
  <2>3. T.profile = r /\ T.repair = rp
    BY <2>2, <1>1 DEF ScheduleRecord
  <2>4. T.ok = (S.ok /\ same)
    BY <2>2, <1>1, Zenon DEF ScheduleRecord
  <2>5. /\ T.size \in Int /\ T.nb_jobs_size \in Int /\ T.nb_reservations_size \in Int
    BY <2>1, <2>2, <1>1 DEF ScheduleRecord
  <2>6. T = [profile |-> T.profile, repair |-> T.repair, size |-> T.size,
             nb_jobs_size |-> T.nb_jobs_size,
             nb_reservations_size |-> T.nb_reservations_size, ok |-> T.ok]
    BY <2>2, <1>1 DEF ScheduleRecord
  <2> QED BY <2>3, <2>4, <2>5, <2>6
<1> HIDE DEF T
<1>4. ms \subseteq Machines /\ i \in DOMAIN p /\ l \in i..Len(p) /\ j \in DOMAIN p[i].jobs
  <2>1. i \in DOMAIN p /\ l \in i..Len(p) /\ j \in DOMAIN p[i].jobs
    <3> HIDE DEF i, l, p
    <3>1. i \in DOMAIN p /\ l \in i..Len(p) /\ \A x \in i..l : Runs(p, j, x)
      BY <1>2 DEF Stays
    <3>2. i \in i..l
      BY <3>1, <1>1
    <3> QED BY <3>1, <3>2 DEF Runs
  <2> QED BY <2>1, <1>1, FieldTypes
<1>5. Freed(p, q, i, l, j, ms)
  <2> HIDE DEF i, l, p, ms
  <2> QED BY <1>1, <1>2, <1>4, FreedIs
<1> HIDE DEF q
<1>6. IsProfile(q) /\ DOMAIN q = DOMAIN p /\ DOMAIN q = 1..Len(q)
  BY <1>5 DEF Freed, IsProfile
<1>7. MayDrop(q, dropped)
  BY DEF MayDrop, DroppedBy
<1> DEFINE at == Ascending(DOMAIN q \ dropped)
<1>8. KeptSlices(at, Len(q), DOMAIN q \ dropped) /\ Merged(q, at, r)
  <2> HIDE DEF dropped
  <2> QED BY <1>6, <1>7, MergeIs
<1> HIDE DEF at, r, dropped
<1>9. Offers(r, rp)
  <2>1. \A x \in DOMAIN q : q[x].available \cap rp = {}
    <3> HIDE DEF i, l
    <3>1. \A x \in DOMAIN p : p[x].available \cap rp = {}
      BY <1>1 DEF Offers
    <3>2. \A x \in DOMAIN p : q[x].available = p[x].available \cup ms \/ q[x] = p[x]
      BY <1>5 DEF Freed, HasFreed
    <3>3. ms \cap rp = {}
      OBVIOUS
    <3> HIDE DEF p, ms
    <3> QED BY <3>1, <3>2, <3>3, <1>6
  <2>2. \A x \in DOMAIN r : at[x] \in DOMAIN q /\ r[x].available = q[at[x]].available
    BY <1>8 DEF Merged, KeptSlices, SameSlice
  <2> QED BY <2>1, <2>2, <1>8 DEF Offers, Merged
<1>10. ASSUME Firm(p, rp)
       PROVE  /\ Keeps(p, q, rp, {j}) /\ Keeps(p, r, rp, {j})
              /\ SamePeriods(p, r, Jobs \ {j})
              /\ \A x \in DOMAIN r : ~Runs(r, j, x)
  <2>1. Keeps(p, q, rp, {j}) /\ SamePeriods(p, q, Jobs \ {j})
    <3> DEFINE ii == i
               ll == l
               gone == ms
    <3>1. Stays(p, j, ii, ll) /\ gone = p[ii].jobs[j] \ rp /\ Freed(p, q, ii, ll, j, gone)
      BY <1>2, <1>5
    <3> HIDE DEF ii, ll, gone, p, rp
    <3> QED BY <3>1, <1>10, FreedKeeps
  <2>2. Keeps(q, r, rp, {}) /\ SamePeriods(q, r, Jobs)
    <3>1. Firm(q, rp)
      BY <2>1 DEF Keeps
    <3> HIDE DEF rp
    <3> QED BY <3>1, <1>7, <1>8, MergedKeeps
  <2>3. Keeps(p, r, rp, {j})
    <3>1. {j} \cup {} = {j}
      OBVIOUS
    <3> HIDE DEF p, rp
    <3>2. Keeps(p, r, rp, {j} \cup {})
      BY <2>1, <2>2, KeepsTwice
    <3> QED BY <3>1, <3>2
  <2>4. \A x \in DOMAIN q : ~Runs(q, j, x)
    <3> HIDE DEF i, l
    <3>1. TAKE x \in DOMAIN q
    <3>2. x \in DOMAIN p /\ x \in Int /\ i \in Int /\ l \in Int /\ i <= l
      BY <1>4, <1>6, <1>1
    <3>3. CASE x \in i..l
      BY <3>2, <3>3, <1>5 DEF Freed, HasFreed, Runs, Erase
    <3>4. CASE x < i
      BY <3>2, <3>4, <1>1, <1>2, <1>5 DEF Freed, Runs, Stays
    <3>5. CASE x > l
      <4>1. q[x] = p[x] /\ l + 1 \in i..x
        BY <3>2, <3>5, <1>5 DEF Freed
      <4>2. ~Runs(p, j, l + 1) /\ Runs(p, j, i)
        BY <3>2, <3>5, <1>1, <1>2 DEF Stays
      <4>3. ~Runs(p, j, x)
        BY <4>1, <4>2, <3>2, <1>4, <1>10 DEF Firm, Steady
      <4> QED BY <4>1, <4>3 DEF Runs
    <3> QED BY <3>2, <3>3, <3>4, <3>5
  <2>5. \A x \in DOMAIN r : at[x] \in DOMAIN q /\ r[x].jobs = q[at[x]].jobs
    BY <1>8 DEF Merged, KeptSlices, SameSlice
  <2>6. \A x \in DOMAIN r : ~Runs(r, j, x)
    BY <2>4, <2>5 DEF Runs
  <2>7. SamePeriods(p, r, Jobs \ {j})
    <3> HIDE DEF p
    <3> QED BY <2>1, <2>2 DEF SamePeriods, SamePeriod
  <2> QED BY <2>1, <2>3, <2>6, <2>7
<1>11. ASSUME S.ok, rp = {}, Firm(p, {}), Exact(p)
       PROVE  same
  <2>1. Firm(q, {}) /\ Exact(q)
    BY <1>10, <1>11 DEF Keeps
  <2>2. \A k \in dropped : k \in DOMAIN q /\ k + 1 \in DOMAIN q
                           /\ DOMAIN q[k].jobs = DOMAIN q[k + 1].jobs
    BY <1>7 DEF MayDrop
  <2> QED BY <2>1, <2>2, SameMachines
<1>12. IsSchedule(T) /\ (T.ok => S.ok) /\ (T.ok <=> S.ok /\ same)
  <2>1. S.ok \in BOOLEAN /\ rp \subseteq Machines
    BY <1>1, ScheduleFields
  <2>2. (S.ok /\ same) \in BOOLEAN
    BY <2>1, Zenon
  <2>3. r \in Seq(SliceRecord)
    BY <1>8 DEF Merged, IsProfile
  <2> HIDE DEF same, rp, p
  <2>4. T \in ScheduleRecord
    BY <2>1, <2>2, <2>3, <1>3 DEF ScheduleRecord
  <2>5. T.ok = (S.ok /\ same)
    BY <1>3
  <2> QED BY <2>4, <2>5, <1>3, <1>9 DEF IsSchedule
<1> HIDE DEF same
<1> QED BY <1>3, <1>10, <1>11, <1>12 DEF RemovesJob, T

\* remove_job_if_exists and remove_job.
IfExistsRemoves(S, j, T) ==
  RemovesJob(S, j, T) /\ (~contains_job(S, j) => T = S)

\* remove_job_if_exists takes the job out or leaves the schedule as it is.
LEMMA RemoveIfExists ==
  ASSUME NEW S, IsSchedule(S), NEW j \in Jobs
  PROVE  IfExistsRemoves(S, j, remove_job_if_exists(S, j))
<1> DEFINE T == remove_job_if_exists(S, j)
<1>1. CASE contains_job(S, j)
  <2>1. T = remove_job_internal(S, j, Least(Occurrences(S.profile, j)))
    BY <1>1 DEF remove_job_if_exists
  <2> QED BY <2>1, <1>1, InternalRemoves DEF IfExistsRemoves
<1>2. CASE ~contains_job(S, j)
  <2>1. T = S
    BY <1>2 DEF remove_job_if_exists
  <2>2. \A x \in DOMAIN S.profile : ~Runs(S.profile, j, x)
    BY <1>2 DEF contains_job, Occurrences, Runs
  <2>3. RemovesJob(S, j, S)
    BY <2>2 DEF RemovesJob, Keeps, FirstKept, SamePeriods, SamePeriod
  <2> QED BY <2>1, <2>3 DEF IfExistsRemoves
<1> QED BY <1>1, <1>2

RemovesThere(S, j, T) ==
  /\ IsSchedule(T) /\ T.repair = S.repair
  /\ T.ok => S.ok /\ contains_job(S, j)
  /\ Firm(S.profile, S.repair) =>
       /\ Keeps(S.profile, T.profile, S.repair, {j})
       /\ SamePeriods(S.profile, T.profile, Jobs \ {j})
       /\ \A x \in DOMAIN T.profile : ~Runs(T.profile, j, x)
  /\ (/\ S.ok /\ contains_job(S, j) /\ S.repair = {}
      /\ Firm(S.profile, {}) /\ Exact(S.profile)) => T.ok

\* remove_job takes out a job that is in the schedule.
LEMMA RemoveThere ==
  ASSUME NEW S, IsSchedule(S), NEW j \in Jobs
  PROVE  RemovesThere(S, j, remove_job(S, j))
<1> DEFINE U == remove_job_if_exists(S, j)
           P == contains_job(S, j)
           T == Check(U, P)
<1>1. remove_job(S, j) = T
  BY DEF remove_job
<1>2. RemovesJob(S, j, U)
  BY RemoveIfExists DEF IfExistsRemoves
<1>3. P \in BOOLEAN /\ (P <=> contains_job(S, j))
  BY DEF contains_job
<1> HIDE DEF U, P
<1>4. Checked(U, P, T)
  BY <1>2, <1>3, CheckIs DEF RemovesJob
<1> HIDE DEF T
<1> QED BY <1>1, <1>2, <1>3, <1>4 DEF RemovesJob, RemovesThere, Checked

-----------------------------------------------------------------------------
(* Time, and machines under repair.                                         *)

\* What happens to the fields of a schedule whose profile alone changes.
NewProfile(S, r, rp, T) ==
  T.profile = r /\ T.repair = rp /\ T.ok = S.ok /\ T \in ScheduleRecord

\* A schedule with another list of slices and other machines under repair.
LEMMA NewProfileIs ==
  ASSUME NEW S \in ScheduleRecord, NEW r \in Seq(SliceRecord), NEW rp \in SUBSET Machines
  PROVE  /\ NewProfile(S, r, rp, [S EXCEPT !.repair = rp, !.profile = r])
         /\ NewProfile(S, r, S.repair, [S EXCEPT !.profile = r])
  BY DEF NewProfile, ScheduleRecord

\* The first slice of the profile now begins at date.
Later(p, date, r) ==
  /\ IsProfile(r) /\ Len(r) = Len(p) /\ DOMAIN r = DOMAIN p
  /\ \A x \in DOMAIN p : /\ SameSlice(r[x], p[x]) /\ r[x].end = p[x].end
                         /\ r[x].begin = IF x = 1 THEN date ELSE p[x].begin

\* Jobs keep their machines when the present moves on, and what is left of their
\* walltimes when it moves within the first slice.
LEMMA LaterKeeps ==
  ASSUME NEW p, NEW rp, Firm(p, rp), NEW date \in Int, NEW r, Later(p, date, r)
  PROVE  /\ Firm(r, rp) /\ FirstKept(p, r, {}) /\ (Exact(p) => Exact(r))
         /\ Paced(p) /\ p[1].begin <= date /\ date <= p[1].end => Paced(r)
<1>1. /\ IsProfile(p) /\ Len(p) \in Nat /\ Len(p) >= 1 /\ DOMAIN p = 1..Len(p)
      /\ DOMAIN r = 1..Len(p) /\ Len(r) = Len(p) /\ 1 \in DOMAIN p
      /\ \A x \in DOMAIN p : p[x].begin \in Int /\ p[x].end \in Int
  BY FieldTypes DEF Firm, Sound, IsProfile, Later
<1> DEFINE f == [x \in DOMAIN p |-> x]
<1>2. Maps(p, r, f)
  BY <1>1 DEF Later, Maps
<1> HIDE DEF f
<1>3. Firm(r, rp) /\ (Exact(p) => Exact(r))
  BY <1>2, MapsKeep DEF Firm
<1>4. \A x \in DOMAIN p : r[x].jobs = p[x].jobs /\ \A j : Runs(r, j, x) <=> Runs(p, j, x)
  BY DEF Later, SameSlice, Runs
<1>5. FirstKept(p, r, {})
  BY <1>1, <1>4 DEF FirstKept
<1>6. ASSUME Paced(p), p[1].begin <= date, date <= p[1].end
      PROVE  Paced(r)
  <2>1. Timed(p) /\ Lasting(p)
    BY <1>6 DEF Paced
  <2>2. Timed(r)
    <3>1. \A x \in DOMAIN p : r[x].end = p[x].end
      BY DEF Later
    <3>2. \A x \in 2..Len(p) : r[x].begin = p[x].begin
      BY <1>1 DEF Later
    <3>3. r[1].begin = date
      BY <1>1 DEF Later
    <3>4. \A x \in 2..Len(p) : x \in DOMAIN p /\ x - 1 \in DOMAIN p
      BY <1>1
    <3>5. Len(p) \in DOMAIN p
      BY <1>1
    <3> QED BY <3>1, <3>2, <3>3, <3>4, <3>5, <2>1, <1>1, <1>6 DEF Timed
  <2>3. ASSUME NEW j \in Jobs, NEW x \in DOMAIN r, NEW z \in DOMAIN r,
               Begins(r, j, x), Ends(r, j, z)
        PROVE  Lasts(r, j, x, z)
    <3>1. x # 1 => x - 1 \in DOMAIN p
      BY <1>1
    <3>2. z # Len(p) => z + 1 \in DOMAIN p
      BY <1>1
    <3>3. Begins(p, j, x) /\ Ends(p, j, z)
      BY <3>1, <3>2, <2>3, <1>1, <1>4 DEF Begins, Ends
    <3>4. Lasts(p, j, x, z)
      BY <3>3, <2>1, <1>1 DEF Lasting
    <3>5. CASE x # 1
      <4>1. r[x].begin = p[x].begin /\ r[z].end = p[z].end
        BY <3>5, <1>1 DEF Later
      <4> QED BY <4>1, <3>4 DEF Lasts
    <3>6. CASE x = 1
      <4>1. r[x].begin = date /\ r[z].end = p[z].end
        BY <3>6, <1>1 DEF Later
      <4>2. p[z].end <= Horizon /\ Horizon \in Int /\ p[z].end \in Int /\ p[1].begin \in Int
        BY <2>1, <1>1, ScheduleAssumption DEF Timed
      <4>3. p[z].end - p[1].begin <= WalltimeFrom(walltime[j], p[1].begin)
        BY <3>4, <3>6 DEF Lasts
      <4>4. p[z].end - date <= p[z].end - p[1].begin
        BY <4>2, <1>6
      <4>5. CASE walltime[j] = NoWalltime
        BY <4>5, <4>1, <4>2, <3>6 DEF Lasts, WalltimeFrom
      <4>6. CASE walltime[j] # NoWalltime
        <5>1. walltime[j] \in Int
          BY <4>6, PlatformAssumption
        <5>2. p[z].end - p[1].begin <= walltime[j]
          BY <4>3, <4>6 DEF WalltimeFrom
        <5>3. p[z].end - date <= walltime[j]
          BY <5>1, <5>2, <4>2, <4>4
        <5> QED BY <5>3, <4>1, <4>6, <3>6 DEF Lasts, WalltimeFrom
      <4> QED BY <4>5, <4>6
    <3> QED BY <3>5, <3>6
  <2> QED BY <2>2, <2>3 DEF Paced, Lasting
<1> QED BY <1>3, <1>5, <1>6

\* update_first_slice.
Moves(S, date, T) ==
  LET inside == S.profile[1].begin <= date /\ date <= S.profile[1].end
  IN /\ IsSchedule(T) /\ T.repair = S.repair /\ T.ok = (S.ok /\ inside)
     /\ T.profile[1].begin = date /\ T.profile[1].jobs = S.profile[1].jobs
     /\ DOMAIN T.profile = DOMAIN S.profile /\ Later(S.profile, date, T.profile)
     /\ Firm(S.profile, S.repair) =>
          /\ Firm(T.profile, S.repair) /\ FirstKept(S.profile, T.profile, {})
          /\ Exact(S.profile) => Exact(T.profile)
          /\ Paced(S.profile) /\ inside => Paced(T.profile)

\* update_first_slice moves the beginning of the schedule to the date.
LEMMA UpdateFirstSlice ==
  ASSUME NEW S, IsSchedule(S), NEW date \in Int
  PROVE  Moves(S, date, update_first_slice(S, date))
<1> DEFINE p == S.profile
           new == [p[1] EXCEPT !.begin = date]
           r == [p EXCEPT ![1] = new]
           U == [S EXCEPT !.profile = r]
           inside == p[1].begin <= date /\ date <= p[1].end
           T == Check(U, inside)
<1>1. /\ S \in ScheduleRecord /\ Offers(p, S.repair) /\ IsProfile(p)
      /\ Len(p) \in Nat /\ Len(p) >= 1 /\ DOMAIN p = 1..Len(p) /\ 1 \in DOMAIN p
      /\ \A x \in DOMAIN p : p[x] \in SliceRecord
      /\ p[1].begin \in Int /\ p[1].end \in Int
  BY FieldTypes DEF IsSchedule, Offers, IsProfile
<1>2. update_first_slice(S, date) = T
  <2>1. [S EXCEPT !.profile[1].begin = date] = U
    BY <1>1 DEF ScheduleRecord
  <2> QED BY <2>1 DEF update_first_slice
<1>3. /\ new \in SliceRecord /\ SameSlice(new, p[1])
      /\ new.begin = date /\ new.end = p[1].end
  BY <1>1, NewDates
<1> HIDE DEF new
<1>4. /\ \A x \in DOMAIN p : r[x] = IF x = 1 THEN new ELSE p[x]
      /\ DOMAIN r = DOMAIN p /\ r \in Seq(SliceRecord) /\ Len(r) = Len(p)
  BY <1>1, <1>3 DEF IsProfile
<1> HIDE DEF r
<1>5. Later(p, date, r)
  BY <1>1, <1>3, <1>4 DEF Later, IsProfile, SameSlice
<1>6. NewProfile(S, r, S.repair, U)
  BY <1>1, <1>4, ScheduleFields, NewProfileIs
<1> HIDE DEF U
<1>7. IsSchedule(U) /\ U.profile = r /\ U.repair = S.repair /\ U.ok = S.ok
  <2>1. \A x \in DOMAIN r : r[x].available \cap S.repair = {}
    BY <1>1, <1>3, <1>4 DEF Offers, SameSlice
  <2> QED BY <2>1, <1>5, <1>6 DEF IsSchedule, Offers, Later, NewProfile
<1>8. inside \in BOOLEAN
  BY <1>1
<1>9. Checked(U, inside, T)
  <2> HIDE DEF inside, p
  <2> QED BY <1>7, <1>8, CheckIs
<1> HIDE DEF T
<1>10. IsSchedule(T) /\ T.profile = r /\ T.repair = S.repair /\ T.ok = (S.ok /\ inside)
  BY <1>7, <1>9 DEF Checked
<1>11. ASSUME Firm(p, S.repair)
       PROVE  /\ Firm(r, S.repair) /\ FirstKept(p, r, {}) /\ (Exact(p) => Exact(r))
              /\ Paced(p) /\ inside => Paced(r)
  <2> HIDE DEF p
  <2> QED BY <1>5, <1>11, LaterKeeps
<1>12. r[1].begin = date /\ r[1].jobs = p[1].jobs
  BY <1>1, <1>3, <1>4 DEF SameSlice
<1> QED BY <1>2, <1>4, <1>5, <1>10, <1>11, <1>12 DEF Moves

\* The slices of r have the jobs and the dates of those of p.
SameJobs(p, r) ==
  /\ IsProfile(r) /\ Len(r) = Len(p) /\ DOMAIN r = DOMAIN p
  /\ \A x \in DOMAIN p :
       r[x].jobs = p[x].jobs /\ r[x].begin = p[x].begin /\ r[x].end = p[x].end

\* What depends on the jobs of the slices alone.
LEMMA SameJobsKeep ==
  ASSUME NEW p, IsProfile(p), NEW r, SameJobs(p, r)
  PROVE  /\ (Steady(p) => Steady(r)) /\ (Paced(p) => Paced(r)) /\ FirstKept(p, r, {})
<1>1. /\ Len(p) \in Nat /\ Len(p) >= 1 /\ DOMAIN p = 1..Len(p) /\ Len(r) = Len(p)
      /\ DOMAIN r = DOMAIN p /\ 1 \in DOMAIN p
      /\ \A x \in DOMAIN p : /\ r[x].jobs = p[x].jobs
                             /\ r[x].begin = p[x].begin /\ r[x].end = p[x].end
  BY DEF IsProfile, SameJobs
<1>2. \A x \in DOMAIN p : \A j : Runs(r, j, x) <=> Runs(p, j, x)
  BY <1>1 DEF Runs
<1>3. \A x \in 2..Len(p) : x \in DOMAIN p /\ x - 1 \in DOMAIN p
  BY <1>1
<1>4. \A x \in DOMAIN p : /\ x # 1 => x - 1 \in DOMAIN p
                          /\ x # Len(p) => x + 1 \in DOMAIN p
  BY <1>1
<1>5. Steady(p) => Steady(r)
  <2>1. \A x, z \in DOMAIN p : x..z \subseteq DOMAIN p
    BY <1>1
  <2> QED BY <2>1, <1>1, <1>2 DEF Steady
<1>6. Timed(p) => Timed(r)
  <2>1. Len(p) \in DOMAIN p
    BY <1>1
  <2> QED BY <2>1, <1>1, <1>3 DEF Timed
<1>7. Lasting(p) => Lasting(r)
  <2>1. \A j : \A x \in DOMAIN p : Begins(r, j, x) <=> Begins(p, j, x)
    BY <1>2, <1>4 DEF Begins
  <2>2. \A j : \A x \in DOMAIN p : Ends(r, j, x) <=> Ends(p, j, x)
    BY <1>1, <1>2, <1>4 DEF Ends
  <2>3. \A j \in Jobs : \A x, z \in DOMAIN p : Lasts(r, j, x, z) <=> Lasts(p, j, x, z)
    BY <1>1 DEF Lasts
  <2> QED BY <2>1, <2>2, <2>3, <1>1 DEF Lasting
<1>8. FirstKept(p, r, {})
  BY <1>1, <1>2 DEF FirstKept
<1> QED BY <1>5, <1>6, <1>7, <1>8 DEF Paced

\* The jobs and dates of a slice stay, the machines offered become av.
Offered(sl, av, nb, t) ==
  /\ t \in SliceRecord /\ t.jobs = sl.jobs /\ t.allocated = sl.allocated
  /\ t.begin = sl.begin /\ t.end = sl.end
  /\ t.available = av /\ t.nb_available = nb

\* The machines a slice offers when some are withdrawn or given back.
LEMMA OfferedIs ==
  ASSUME NEW sl \in SliceRecord, NEW ms, ms \subseteq Machines
  PROVE  /\ Offered(sl, sl.available \ ms, sl.nb_available - Cardinality(ms),
                    Withdraw(sl, ms))
         /\ Offered(sl, sl.available \cup (ms \ sl.allocated),
                    sl.nb_available + Cardinality(ms \ sl.allocated), GiveBack(sl, ms))
<1>1. /\ sl.available \subseteq Machines /\ sl.nb_available \in Int
      /\ Cardinality(ms) \in Int /\ Cardinality(ms \ sl.allocated) \in Int
  <2>1. ms \ sl.allocated \subseteq Machines
    OBVIOUS
  <2> QED BY <2>1, MachinesFinite, FieldTypes
<1>2. /\ sl.available \ ms \in SUBSET Machines
      /\ sl.available \cup (ms \ sl.allocated) \in SUBSET Machines
      /\ sl.nb_available - Cardinality(ms) \in Int
      /\ sl.nb_available + Cardinality(ms \ sl.allocated) \in Int
  BY <1>1
<1>3. ASSUME NEW av \in SUBSET Machines, NEW nb \in Int
      PROVE  /\ Offered(sl, av, nb, [sl EXCEPT !.available = av, !.nb_available = nb])
             /\ Offered(sl, av, nb, [sl EXCEPT !.nb_available = nb, !.available = av])
  BY DEF Offered, SliceRecord
<1>4. /\ Withdraw(sl, ms) = [sl EXCEPT !.available = sl.available \ ms,
                                   !.nb_available = sl.nb_available - Cardinality(ms)]
      /\ GiveBack(sl, ms) = [sl EXCEPT !.nb_available = sl.nb_available + Cardinality(ms \ sl.allocated),
                                 !.available = sl.available \cup (ms \ sl.allocated)]
  BY DEF Withdraw, GiveBack, SliceRecord
<1> QED BY <1>2, <1>3, <1>4

\* A machine goes under repair.
LEMMA LostSound ==
  ASSUME NEW sl, NEW rp \in SUBSET Machines, SliceSound(sl, rp),
         NEW ms \in SUBSET Machines, NEW t,
         Offered(sl, sl.available \ (ms \ rp), sl.nb_available - Cardinality(ms \ rp), t)
  PROVE  SliceSound(t, rp \cup ms)
<1> DEFINE a == sl.available
           added == ms \ rp
<1>1. a \subseteq Machines /\ added \subseteq Machines /\ sl.nb_available \in Int
  BY FieldTypes DEF SliceSound
<1>2. /\ IsFiniteSet(a) /\ IsFiniteSet(added) /\ IsFiniteSet(a \ added)
      /\ IsFiniteSet(a \cap added)
  <2>1. a \ added \subseteq Machines /\ a \cap added \subseteq Machines
    BY <1>1
  <2> HIDE DEF a, added
  <2> QED BY <1>1, <2>1, MachinesFinite
<1>3. sl.nb_available - Cardinality(added) <= Cardinality(a \ added)
  <2>1. Cardinality(a) = Cardinality(a \ added) + Cardinality(a \cap added)
    <3> DEFINE b == a \ added
               c == a \cap added
    <3>1. b \cup c = a /\ b \cap c = {} /\ IsFiniteSet(b) /\ IsFiniteSet(c)
      BY <1>2
    <3> HIDE DEF b, c, a
    <3>2. Cardinality(b \cup c) = Cardinality(b) + Cardinality(c) - Cardinality(b \cap c)
      BY <3>1, FS_Union
    <3>3. Cardinality(b) \in Nat /\ Cardinality(c) \in Nat
      BY <3>1, FS_CardinalityType
    <3>4. Cardinality(b \cap c) = 0
      BY <3>1, FS_EmptySet
    <3>5. Cardinality(b \cup c) = Cardinality(a)
      BY <3>1, Zenon
    <3>6. Cardinality(b \cup c) = Cardinality(b) + Cardinality(c)
      BY <3>2, <3>3, <3>4
    <3> QED BY <3>5, <3>6 DEF b, c
  <2>2. Cardinality(a \cap added) <= Cardinality(added)
    <3>1. a \cap added \subseteq added
      OBVIOUS
    <3> HIDE DEF a, added
    <3> QED BY <3>1, <1>2, FS_Subset
  <2>3. sl.nb_available <= Cardinality(a)
    BY DEF SliceSound
  <2>4. /\ Cardinality(a) \in Nat /\ Cardinality(a \ added) \in Nat
        /\ Cardinality(a \cap added) \in Nat /\ Cardinality(added) \in Nat
    BY <1>2, FS_CardinalityType
  <2> HIDE DEF a, added
  <2> QED BY <2>1, <2>2, <2>3, <2>4, <1>1
<1>4. (a \ added) \cap (rp \cup ms) = {} /\ \A m \in a \ added : m \in a
  BY DEF SliceSound
<1> QED BY <1>3, <1>4 DEF SliceSound, Offered

\* A machine comes back, but not where a job holds it.
LEMMA GotSound ==
  ASSUME NEW sl, NEW rp \in SUBSET Machines, SliceSound(sl, rp),
         NEW ms, NEW t,
         Offered(sl, sl.available \cup ((rp \cap ms) \ sl.allocated),
                 sl.nb_available + Cardinality((rp \cap ms) \ sl.allocated), t)
  PROVE  SliceSound(t, rp \ ms)
<1> DEFINE a == sl.available
           back == (rp \cap ms) \ sl.allocated
<1>1. a \subseteq Machines /\ back \subseteq Machines /\ sl.nb_available \in Int
  BY FieldTypes DEF SliceSound
<1>2. IsFiniteSet(a) /\ IsFiniteSet(back)
  BY <1>1, MachinesFinite
<1>3. a \cap back = {} /\ (a \cup back) \cap (rp \ ms) = {}
  BY DEF SliceSound
<1>4. sl.nb_available + Cardinality(back) <= Cardinality(a \cup back)
  <2>1. sl.nb_available <= Cardinality(a)
    BY DEF SliceSound
  <2>2. Cardinality(a) \in Nat /\ Cardinality(back) \in Nat
    BY <1>2, FS_CardinalityType
  <2> HIDE DEF a, back
  <2>3. Cardinality(a \cup back) = Cardinality(a) + Cardinality(back)
                                   - Cardinality(a \cap back)
    BY <1>2, FS_Union
  <2>4. Cardinality(a \cap back) = 0
    BY <1>3, FS_EmptySet
  <2> QED BY <2>1, <2>2, <2>3, <2>4, <1>1
<1>5. \A j \in DOMAIN sl.jobs : sl.jobs[j] \cap (a \cup back) = {}
  BY DEF SliceSound
<1> QED BY <1>3, <1>4, <1>5 DEF SliceSound, Offered

\* What a change of the machines under repair to rp does to the schedule.
Repairs(S, rp, T) ==
  /\ IsSchedule(T) /\ T.repair = rp /\ T.ok = S.ok
  /\ SameJobs(S.profile, T.profile)
  /\ Firm(S.profile, S.repair) =>
       /\ Firm(T.profile, rp) /\ FirstKept(S.profile, T.profile, {})
       /\ Paced(S.profile) => Paced(T.profile)

\* add_repair_machine withdraws machines from every slice.
LEMMA AddRepairMachine ==
  ASSUME NEW S, IsSchedule(S), NEW ms \in SUBSET Machines
  PROVE  Repairs(S, S.repair \cup ms, add_repair_machine(S, ms))
<1> DEFINE p == S.profile
           rp == S.repair
           new == rp \cup ms
           added == ms \ rp
           r == [x \in DOMAIN p |-> Withdraw(p[x], added)]
           T == add_repair_machine(S, ms)
<1>1. /\ S \in ScheduleRecord /\ Offers(p, rp) /\ IsProfile(p)
      /\ Len(p) \in Nat /\ Len(p) >= 1 /\ DOMAIN p = 1..Len(p)
      /\ \A x \in DOMAIN p : p[x] \in SliceRecord
      /\ rp \in SUBSET Machines /\ new \in SUBSET Machines /\ added \subseteq Machines
  BY ScheduleFields DEF IsSchedule, Offers, IsProfile
<1>2. T = [S EXCEPT !.repair = new, !.profile = r]
  BY <1>1 DEF add_repair_machine, ScheduleRecord
<1>3. ASSUME NEW x \in DOMAIN p
      PROVE  Offered(p[x], p[x].available \ added,
                     p[x].nb_available - Cardinality(added), r[x])
  <2> DEFINE sl == p[x]
             out == added
  <2>1. sl \in SliceRecord /\ out \subseteq Machines
    BY <1>1
  <2> HIDE DEF sl, out
  <2>2. Offered(sl, sl.available \ out, sl.nb_available - Cardinality(out),
                Withdraw(sl, out))
    BY <2>1, OfferedIs
  <2> QED BY <2>2 DEF sl, out
<1>4. r \in Seq(SliceRecord) /\ Len(r) = Len(p) /\ DOMAIN r = DOMAIN p
  <2>1. r = [x \in 1..Len(p) |-> r[x]]
    BY <1>1
  <2> HIDE DEF r
  <2>2. r \in [1..Len(p) -> SliceRecord]
    BY <2>1, <1>1, <1>3 DEF Offered
  <2> QED BY <2>2, <1>1
<1> HIDE DEF r
<1>5. SameJobs(p, r)
  BY <1>1, <1>3, <1>4 DEF SameJobs, Offered, IsProfile
<1>6. NewProfile(S, r, new, T)
  <2> HIDE DEF new, T
  <2> QED BY <1>1, <1>2, <1>4, NewProfileIs
<1>7. Offers(r, new)
  <2>1. \A x \in DOMAIN p : r[x].available \cap new = {}
    BY <1>1, <1>3 DEF Offered, Offers
  <2> QED BY <2>1, <1>4, <1>5 DEF Offers, SameJobs
<1>8. ASSUME Firm(p, rp) PROVE Firm(r, new)
  <2>1. \A x \in DOMAIN p : SliceSound(r[x], rp \cup ms)
    <3> TAKE x \in DOMAIN p
    <3>1. SliceSound(p[x], rp)
      BY <1>8 DEF Firm, Sound
    <3>2. Offered(p[x], p[x].available \ (ms \ rp),
                  p[x].nb_available - Cardinality(ms \ rp), r[x])
      BY <1>3
    <3> DEFINE sl == p[x]
               t == r[x]
               old == rp
    <3>3. SliceSound(sl, old) /\ old \in SUBSET Machines
          /\ Offered(sl, sl.available \ (ms \ old), sl.nb_available - Cardinality(ms \ old), t)
      BY <3>1, <3>2, <1>1
    <3> HIDE DEF sl, t, old
    <3>4. SliceSound(t, old \cup ms)
      BY <3>3, LostSound
    <3> QED BY <3>4 DEF t, old
  <2>2. Steady(r)
    BY <1>1, <1>5, <1>8, SameJobsKeep DEF Firm
  <2> QED BY <2>1, <2>2, <1>4, <1>5 DEF Firm, Sound, SameJobs
<1>9. (Paced(p) => Paced(r)) /\ FirstKept(p, r, {})
  BY <1>1, <1>5, SameJobsKeep
<1> HIDE DEF T
<1>10. Repairs(S, new, T)
  BY <1>5, <1>6, <1>7, <1>8, <1>9 DEF Repairs, NewProfile, IsSchedule
<1> QED BY <1>10 DEF T

\* remove_repair_machines gives them back where nobody holds them.
LEMMA RemoveRepairMachines ==
  ASSUME NEW S, IsSchedule(S), NEW ms
  PROVE  Repairs(S, S.repair \ ms, remove_repair_machines(S, ms))
<1> DEFINE p == S.profile
           rp == S.repair
           new == rp \ ms
           removed == rp \cap ms
           r == [x \in DOMAIN p |-> GiveBack(p[x], removed)]
           T == remove_repair_machines(S, ms)
<1>1. /\ S \in ScheduleRecord /\ Offers(p, rp) /\ IsProfile(p)
      /\ Len(p) \in Nat /\ Len(p) >= 1 /\ DOMAIN p = 1..Len(p)
      /\ \A x \in DOMAIN p : p[x] \in SliceRecord
      /\ rp \in SUBSET Machines /\ new \in SUBSET Machines /\ removed \subseteq Machines
  BY ScheduleFields DEF IsSchedule, Offers, IsProfile
<1>2. T = [S EXCEPT !.repair = new, !.profile = r]
  BY <1>1 DEF remove_repair_machines, ScheduleRecord
<1>3. ASSUME NEW x \in DOMAIN p
      PROVE  Offered(p[x], p[x].available \cup (removed \ p[x].allocated),
                     p[x].nb_available + Cardinality(removed \ p[x].allocated), r[x])
  <2> DEFINE sl == p[x]
             in == removed
  <2>1. sl \in SliceRecord /\ in \subseteq Machines
    BY <1>1
  <2> HIDE DEF sl, in
  <2>2. Offered(sl, sl.available \cup (in \ sl.allocated),
                sl.nb_available + Cardinality(in \ sl.allocated), GiveBack(sl, in))
    BY <2>1, OfferedIs
  <2> QED BY <2>2 DEF sl, in
<1>4. r \in Seq(SliceRecord) /\ Len(r) = Len(p) /\ DOMAIN r = DOMAIN p
  <2>1. r = [x \in 1..Len(p) |-> r[x]]
    BY <1>1
  <2> HIDE DEF r
  <2>2. r \in [1..Len(p) -> SliceRecord]
    BY <2>1, <1>1, <1>3 DEF Offered
  <2> QED BY <2>2, <1>1
<1> HIDE DEF r
<1>5. SameJobs(p, r)
  BY <1>1, <1>3, <1>4 DEF SameJobs, Offered, IsProfile
<1>6. NewProfile(S, r, new, T)
  <2> HIDE DEF new, T
  <2> QED BY <1>1, <1>2, <1>4, NewProfileIs
<1>7. Offers(r, new)
  <2>1. \A x \in DOMAIN p : r[x].available \cap new = {}
    BY <1>1, <1>3 DEF Offered, Offers
  <2> QED BY <2>1, <1>4, <1>5 DEF Offers, SameJobs
<1>8. ASSUME Firm(p, rp) PROVE Firm(r, new)
  <2>1. \A x \in DOMAIN p : SliceSound(r[x], rp \ ms)
    <3> TAKE x \in DOMAIN p
    <3>1. SliceSound(p[x], rp)
      BY <1>8 DEF Firm, Sound
    <3> DEFINE sl == p[x]
               t == r[x]
               old == rp
    <3>3. /\ SliceSound(sl, old) /\ old \in SUBSET Machines
          /\ Offered(sl, sl.available \cup ((old \cap ms) \ sl.allocated),
                     sl.nb_available + Cardinality((old \cap ms) \ sl.allocated), t)
      BY <3>1, <1>1, <1>3
    <3> HIDE DEF sl, t, old
    <3>4. SliceSound(t, old \ ms)
      BY <3>3, GotSound
    <3> QED BY <3>4 DEF t, old
  <2>2. Steady(r)
    BY <1>1, <1>5, <1>8, SameJobsKeep DEF Firm
  <2> QED BY <2>1, <2>2, <1>4, <1>5 DEF Firm, Sound, SameJobs
<1>9. (Paced(p) => Paced(r)) /\ FirstKept(p, r, {})
  BY <1>1, <1>5, SameJobsKeep
<1> HIDE DEF T
<1>10. Repairs(S, new, T)
  BY <1>5, <1>6, <1>7, <1>8, <1>9 DEF Repairs, NewProfile, IsSchedule
<1> QED BY <1>10 DEF T

-----------------------------------------------------------------------------
(* The loops that remove jobs.                                              *)

\* What has become of a schedule becomes what one more removal makes of it.
LEMMA BecomesMore ==
  ASSUME NEW S, NEW out, NEW T, Becomes(S, T, out), NEW j \in out, NEW U,
         IsSchedule(U), U.repair = T.repair, U.ok => T.ok,
         Firm(T.profile, T.repair) => Keeps(T.profile, U.profile, T.repair, {j})
  PROVE  Becomes(S, U, out)
<1>1. ASSUME Firm(S.profile, S.repair)
      PROVE  Keeps(S.profile, U.profile, S.repair, out)
  <2>1. Keeps(S.profile, T.profile, S.repair, out) /\ T.repair = S.repair
    BY <1>1 DEF Becomes
  <2>2. Keeps(T.profile, U.profile, S.repair, {j})
    BY <2>1 DEF Keeps
  <2>3. out \cup {j} = out
    OBVIOUS
  <2>4. Keeps(S.profile, U.profile, S.repair, out \cup {j})
    BY <2>1, <2>2, KeepsTwice
  <2> QED BY <2>3, <2>4
<1> QED BY <1>1 DEF Becomes

\* One more job is gone.
LEMMA ShedsMore ==
  ASSUME NEW p, NEW q, NEW out, Sheds(p, q, out), NEW j \in out, NEW r,
         SamePeriods(q, r, Jobs \ {j}), \A x \in DOMAIN r : ~Runs(r, j, x)
  PROVE  Sheds(p, r, out)
  BY DEF Sheds, SamePeriods, SamePeriod, IsPlanned

\* Before the loop nothing has happened.
LEMMA BecomesItself ==
  ASSUME NEW S, IsSchedule(S), NEW out
  PROVE  Becomes(S, S, out) /\ Sheds(S.profile, S.profile, out)
  BY DEF Becomes, Keeps, FirstKept, Sheds

\* What the two loops yield.
Removed(S, T, out) ==
  /\ Becomes(S, T, out)
  /\ Firm(S.profile, S.repair) => Sheds(S.profile, T.profile, out)

\* Several jobs are taken out one after the other.
LEMMA RemoveAll ==
  ASSUME NEW S, IsSchedule(S), NEW out \in SUBSET Jobs
  PROVE  /\ Removed(S, FoldLeft(remove_job, S, Ascending(out)), out)
         /\ Removed(S, FoldLeft(remove_job_if_exists, S, Ascending(out)), out)
<1> DEFINE c == [from |-> S, out |-> out]
           q == Ascending(out)
<1>1. Increasing(out, q)
  BY JobsFinite, AscendingIs
<1>2. /\ FoldLeft(remove_job, S, q) = RL!Folded(c, S, q)
      /\ FoldLeft(remove_job_if_exists, S, q) = DL!Folded(c, S, q)
  BY DEF RemovePass, DropPass, RL!Folded, RL!FoldLeft, RL!MapThenFoldSet,
         DL!Folded, DL!FoldLeft, DL!MapThenFoldSet, FoldLeft, MapThenFoldSet,
         RL!Max, DL!Max, Max
<1> HIDE DEF q
<1>3. q \in Seq(out) /\ \A i \in 1..Len(q) : q[i] \in out
  BY <1>1 DEF Increasing
<1>4. c.from = S /\ c.out = out
  OBVIOUS
<1> HIDE DEF c
<1>5. RemovalLoop(c, 0, S)
  BY <1>4, BecomesItself DEF RemovalLoop
<1>6. ASSUME NEW i \in 1..Len(q), NEW T, RemovalLoop(c, i - 1, T)
      PROVE  /\ RemovalLoop(c, i, RemovePass(c, T, q[i]))
             /\ RemovalLoop(c, i, DropPass(c, T, q[i]))
  <2> DEFINE j == q[i]
             U == remove_job(T, j)
             V == remove_job_if_exists(T, j)
  <2>1. j \in out /\ j \in Jobs /\ Becomes(S, T, out) /\ IsSchedule(T)
    BY <1>3, <1>4, <1>6 DEF RemovalLoop, Becomes
  <2> HIDE DEF j
  <2>2. RemovesThere(T, j, U) /\ RemovesJob(T, j, V)
    BY <2>1, RemoveThere, RemoveIfExists DEF IfExistsRemoves
  <2> HIDE DEF U, V
  <2>3. Becomes(S, U, out)
    BY <2>1, <2>2, BecomesMore DEF RemovesThere
  <2>4. Becomes(S, V, out)
    BY <2>1, <2>2, BecomesMore DEF RemovesJob
  <2>5. ASSUME Firm(S.profile, S.repair)
        PROVE  Sheds(S.profile, U.profile, out) /\ Sheds(S.profile, V.profile, out)
    <3>1. Sheds(S.profile, T.profile, out) /\ Firm(T.profile, T.repair)
      BY <2>1, <2>5, <1>4, <1>6 DEF RemovalLoop, Becomes, Keeps
    <3>2. /\ SamePeriods(T.profile, U.profile, Jobs \ {j})
          /\ \A x \in DOMAIN U.profile : ~Runs(U.profile, j, x)
      BY <2>2, <3>1 DEF RemovesThere
    <3>3. /\ SamePeriods(T.profile, V.profile, Jobs \ {j})
          /\ \A x \in DOMAIN V.profile : ~Runs(V.profile, j, x)
      BY <2>2, <3>1 DEF RemovesJob
    <3> QED BY <2>1, <3>1, <3>2, <3>3, ShedsMore
  <2> QED BY <2>3, <2>4, <2>5, <1>4 DEF RemovalLoop, RemovePass, DropPass, U, V, j
<1>7. RemovalLoop(c, Len(q), RL!Folded(c, S, q))
  <2>1. \A i \in 1..Len(q) : \A T : RemovalLoop(c, i - 1, T)
          => RemovalLoop(c, i, RemovePass(c, T, q[i]))
    BY <1>6
  <2> QED BY <2>1, <1>3, <1>5, RL!LoopInvariant
<1>8. RemovalLoop(c, Len(q), DL!Folded(c, S, q))
  <2>1. \A i \in 1..Len(q) : \A T : RemovalLoop(c, i - 1, T)
          => RemovalLoop(c, i, DropPass(c, T, q[i]))
    BY <1>6
  <2> QED BY <2>1, <1>3, <1>5, DL!LoopInvariant
<1> QED BY <1>2, <1>4, <1>7, <1>8 DEF RemovalLoop, Removed, q

\* The empty schedule.
LEMMA NewScheduleIs ==
  LET S == NewSchedule(0)
  IN /\ IsSchedule(S) /\ S.ok = TRUE /\ S.repair = {}
     /\ Firm(S.profile, {}) /\ Paced(S.profile) /\ Exact(S.profile)
<1> DEFINE sl == [begin |-> 0, end |-> Horizon, available |-> Machines,
                  allocated |-> {}, nb_available |-> Cardinality(Machines),
                  jobs |-> NoJobs, nb_reservations |-> 0, has_reservation |-> FALSE]
           p == <<sl>>
           S == NewSchedule(0)
<1>1. sl \in SliceRecord /\ DOMAIN sl.jobs = {}
  <2>1. Horizon \in Int /\ Cardinality(Machines) \in Int
    BY MachinesFinite, ScheduleAssumption
  <2>2. NoJobs \in Allotments /\ DOMAIN NoJobs = {}
    <3>1. NoJobs \in [{} -> SUBSET Machines] /\ {} \in SUBSET Jobs
      BY DEF NoJobs
    <3> QED BY <3>1 DEF Allotments, NoJobs
  <2> QED BY <2>1, <2>2 DEF SliceRecord
<1>2. SliceSound(sl, {}) /\ SliceExact(sl)
  <2>1. Cardinality(Machines) \in Int
    BY MachinesFinite
  <2> QED BY <1>1, <2>1 DEF SliceSound, SliceExact
<1>3. sl.begin = 0 /\ sl.end = Horizon /\ sl.available \cap {} = {}
  OBVIOUS
<1>4. S.profile = p /\ S.repair = {} /\ S.ok = TRUE /\ S = [profile |-> p,
         repair |-> {}, size |-> 0, nb_jobs_size |-> 0, nb_reservations_size |-> 0,
         ok |-> TRUE]
  BY DEF NewSchedule
<1> HIDE DEF sl, S
<1>5. p \in Seq(SliceRecord) /\ Len(p) = 1 /\ DOMAIN p = {1} /\ p[1] = sl
  BY <1>1
<1> HIDE DEF p
<1>6. IsProfile(p) /\ Offers(p, {}) /\ Sound(p, {}) /\ Exact(p)
  BY <1>2, <1>3, <1>5 DEF IsProfile, Offers, Sound, Exact
<1>7. \A j, x : x \in DOMAIN p => ~Runs(p, j, x)
  BY <1>1, <1>5 DEF Runs
<1>8. Steady(p) /\ Lasting(p)
  BY <1>7 DEF Steady, Lasting, Begins
<1>9. Timed(p)
  BY <1>3, <1>5, ScheduleAssumption DEF Timed
<1>10. IsSchedule(S)
  BY <1>4, <1>5, <1>6 DEF IsSchedule, ScheduleRecord
<1> QED BY <1>4, <1>6, <1>8, <1>9, <1>10 DEF Firm, Paced, S

-----------------------------------------------------------------------------
(* The schedule under the calls of the algorithms, without reservations.    *)

\* The invariant of module Schedule.  Until a machine fails, each slice offers
\* every machine that no job of the slice holds.
ScheduleInv ==
  /\ IsSchedule(schedule) /\ failures \in Nat
  /\ Firm(schedule.profile, schedule.repair) /\ Paced(schedule.profile)
  /\ failures = 0 => /\ schedule.ok /\ schedule.repair = {}
                     /\ Exact(schedule.profile)

\* The invariant holds in a new schedule.
LEMMA InitFits == ScheduleInit => ScheduleInv
  BY NewScheduleIs DEF ScheduleInit, ScheduleInv

\* What becomes of a schedule keeps the invariant, when no assertion fails
\* before the first failure.
LEMMA BecomesFits ==
  ASSUME ScheduleInv, NEW out, IsSchedule(schedule'), schedule'.repair = schedule.repair,
         Keeps(schedule.profile, schedule'.profile, schedule.repair, out),
         failures' = failures, failures = 0 => schedule'.ok
  PROVE  ScheduleInv'
  BY DEF ScheduleInv, Keeps

\* AddJob keeps the invariant.
LEMMA AddFits ==
  ASSUME ScheduleInv, NEW j \in Jobs, AddJob(j)
  PROVE  ScheduleInv'
<1> DEFINE a == add_job_first_fit(schedule, j, Machines, FALSE)
<1>1. /\ schedule' = a.schedule /\ failures' = failures /\ ~contains_job(schedule, j)
  BY DEF AddJob
<1>2. AddsFirst(schedule, j, FALSE, a)
  BY AddFirstFit DEF ScheduleInv
<1> HIDE DEF a
<1>3. /\ IsSchedule(a.schedule) /\ a.schedule.repair = schedule.repair
      /\ Keeps(schedule.profile, a.schedule.profile, schedule.repair, {})
  BY <1>1, <1>2 DEF AddsFirst, Inserts, ScheduleInv
<1>4. failures = 0 => a.schedule.ok
  BY <1>1, <1>2 DEF AddsFirst, ScheduleInv
<1> QED BY <1>1, <1>3, <1>4, BecomesFits

\* AddJobAfter keeps the invariant.
LEMMA AddAfterFits ==
  ASSUME ScheduleInv, NEW j \in Jobs, AddJobAfter(j)
  PROVE  ScheduleInv'
<1> DEFINE date == not_before[j]
           a == add_job_first_fit_after_time(schedule, j, date, Machines, FALSE)
<1>1. /\ schedule' = a.schedule /\ failures' = failures /\ ~contains_job(schedule, j)
      /\ date > now
  BY DEF AddJobAfter
<1>2. date \in Int /\ date < Horizon /\ now \in Int
  <2>1. date \in 0..(Horizon - 1) /\ Horizon \in Int
    BY CallsAssumption, ScheduleAssumption
  <2>2. now \in Int
    BY FieldTypes DEF now, ScheduleInv, IsSchedule, Offers, IsProfile
  <2> HIDE DEF date
  <2> QED BY <2>1, <2>2
<1>3. AddsAfter(schedule, j, date, FALSE, a)
  <2> HIDE DEF date
  <2> QED BY <1>2, AddFirstFitAfterTime DEF ScheduleInv
<1> HIDE DEF a, date
<1>4. /\ IsSchedule(a.schedule) /\ a.schedule.repair = schedule.repair
      /\ Keeps(schedule.profile, a.schedule.profile, schedule.repair, {})
  BY <1>1, <1>3 DEF AddsAfter, Inserts, ScheduleInv
<1>5. failures = 0 => a.schedule.ok
  BY <1>1, <1>2, <1>3 DEF AddsAfter, ScheduleInv, Paced, now
<1> QED BY <1>1, <1>4, <1>5, BecomesFits

\* RemoveJob keeps the invariant.
LEMMA RemoveFits ==
  ASSUME ScheduleInv, NEW j \in Jobs, RemoveJob(j)
  PROVE  ScheduleInv'
<1> DEFINE T == remove_job(schedule, j)
<1>1. schedule' = T /\ failures' = failures /\ contains_job(schedule, j)
  BY DEF RemoveJob
<1>2. RemovesThere(schedule, j, T)
  BY RemoveThere DEF ScheduleInv
<1> HIDE DEF T
<1>3. /\ IsSchedule(T) /\ T.repair = schedule.repair
      /\ Keeps(schedule.profile, T.profile, schedule.repair, {j})
  BY <1>2 DEF RemovesThere, ScheduleInv
<1>4. failures = 0 => T.ok
  BY <1>1, <1>2 DEF RemovesThere, ScheduleInv
<1> QED BY <1>1, <1>3, <1>4, BecomesFits

\* Advance keeps the invariant.
LEMMA AdvanceFits ==
  ASSUME ScheduleInv, NEW date \in Nat, Advance(date)
  PROVE  ScheduleInv'
<1> DEFINE T == update_first_slice(schedule, date)
           p == schedule.profile
<1>1. /\ schedule' = T /\ failures' = failures
      /\ p[1].begin <= date /\ date <= p[1].end
  <2>1. p[1].begin \in Int
    BY FieldTypes DEF ScheduleInv, IsSchedule, Offers, IsProfile
  <2> QED BY <2>1 DEF Advance, now
<1>2. Moves(schedule, date, T)
  BY UpdateFirstSlice DEF ScheduleInv
<1> HIDE DEF T
<1>3. IsSchedule(T) /\ T.repair = schedule.repair /\ (failures = 0 => T.ok)
  BY <1>1, <1>2 DEF Moves, ScheduleInv
<1>4. Keeps(p, T.profile, schedule.repair, {})
  BY <1>1, <1>2 DEF Moves, ScheduleInv, Keeps
<1> QED BY <1>1, <1>3, <1>4, BecomesFits

\* Without reservations none is ready to be started.
LEMMA StartReservationsFits ==
  ASSUME ScheduleInv, Reservations = {}, StartReservations
  PROVE  /\ ScheduleInv' /\ schedule'.repair = schedule.repair
         /\ SamePeriods(schedule.profile, schedule'.profile, Jobs)
<1> DEFINE S == schedule
           p == S.profile
           sl == p[2]
           rem == remove_reservations_if_ready(S)
           new == [sl EXCEPT !.nb_reservations = @ - (IF 0 > sl.nb_reservations
                                                      THEN sl.nb_reservations ELSE 0)]
           T == [S EXCEPT !.profile = [p EXCEPT ![2] = new]]
<1>1. /\ S \in ScheduleRecord /\ IsProfile(p) /\ p \in Seq(SliceRecord)
      /\ Len(p) \in Nat /\ Len(p) >= 1 /\ DOMAIN p = 1..Len(p)
      /\ Firm(p, S.repair) /\ Paced(p)
  BY DEF ScheduleInv, IsSchedule, Offers, IsProfile
<1>2. Ascending({}) = << >>
  <2>1. Increasing({}, Ascending({}))
    BY FS_EmptySet, AscendingIs
  <2>2. Ascending({}) \in Seq({})
    BY <2>1 DEF Increasing
  <2> QED BY <2>2, EmptySeq
<1>3. /\ rem.schedule = S \/ (rem.schedule = T /\ Len(p) >= 2)
      /\ rem.removed = << >>
  <2>1. CASE Len(p) < 2 \/ ~p[2].has_reservation \/ p[1].begin # p[2].begin
    <3>1. rem = [schedule |-> S, ready |-> FALSE, removed |-> << >>]
      BY <2>1 DEF remove_reservations_if_ready
    <3> QED BY <3>1
  <2>2. CASE ~(Len(p) < 2 \/ ~p[2].has_reservation \/ p[1].begin # p[2].begin)
    <3> DEFINE T0 == [S EXCEPT !.profile[2].nb_reservations =
                                 @ - (IF Cardinality({}) > sl.nb_reservations
                                      THEN sl.nb_reservations ELSE Cardinality({}))]
    <3>1. T0 = T
      BY <1>1, FS_EmptySet DEF ScheduleRecord
    <3>2. rem = [schedule |-> FoldLeft(remove_job_if_exists, T0, Ascending({})),
                 ready |-> TRUE, removed |-> Ascending({})]
      BY <2>2 DEF remove_reservations_if_ready
    <3>3. FoldLeft(remove_job_if_exists, T0, << >>) = DL!Folded(0, T0, << >>)
      BY DEF DropPass, DL!Folded, DL!FoldLeft, DL!MapThenFoldSet, FoldLeft,
             MapThenFoldSet, DL!Max, Max
    <3>4. FoldLeft(remove_job_if_exists, T0, << >>) = T0
      BY <3>3, DL!LoopOverNothing
    <3> HIDE DEF T0
    <3>5. rem.schedule = T0 /\ rem.removed = << >>
      BY <3>2, <3>4, <1>2
    <3> QED BY <3>1, <3>5, <2>2, <1>1
  <2> QED BY <2>1, <2>2
<1>4. schedule' = rem.schedule /\ failures' = failures
  <2>1. schedule' = FoldLeft(LAMBDA U, r : add_current_reservation(U, r, assigned[r]).schedule,
                             rem.schedule, rem.removed)
    BY DEF StartReservations
  <2> HIDE DEF rem
  <2>2. schedule' = SL!Folded(assigned, rem.schedule, << >>)
    BY <1>3, <2>1 DEF StartPass, SL!Folded, SL!FoldLeft, SL!MapThenFoldSet, FoldLeft,
           MapThenFoldSet, SL!Max, Max
  <2> QED BY <2>2, SL!LoopOverNothing DEF StartReservations
<1>5. CASE rem.schedule = S
  <2>1. Keeps(p, p, S.repair, {}) /\ SamePeriods(p, p, Jobs)
    BY <1>1, <1>5 DEF Keeps, FirstKept, SamePeriods, SamePeriod
  <2> QED BY <2>1, <1>4, <1>5, BecomesFits DEF ScheduleInv
<1>6. CASE rem.schedule = T /\ Len(p) >= 2
  <2> DEFINE r == [p EXCEPT ![2] = new]
             date == p[1].begin
  <2>1. sl \in SliceRecord /\ 1 \in DOMAIN p /\ 2 \in DOMAIN p
    BY <1>1, <1>6
  <2>2. new \in SliceRecord /\ SameSlice(new, sl) /\ new.begin = sl.begin /\ new.end = sl.end
    BY <2>1 DEF SliceRecord, SameSlice
  <2> HIDE DEF new, T, rem
  <2>3. /\ r \in Seq(SliceRecord) /\ Len(r) = Len(p) /\ DOMAIN r = DOMAIN p
        /\ \A x \in DOMAIN p : r[x] = IF x = 2 THEN new ELSE p[x]
    BY <1>1, <2>1, <2>2
  <2>4. NewProfile(S, r, S.repair, T)
    BY <1>1, <2>3, ScheduleFields, NewProfileIs DEF T
  <2>5. date \in Int /\ date <= p[1].end
    BY <1>1, <2>1, FieldTypes DEF Paced, Timed
  <2> HIDE DEF r
  <2>6. Later(p, date, r)
    BY <1>1, <2>2, <2>3 DEF Later, SameSlice, IsProfile
  <2> HIDE DEF p
  <2>7. /\ Firm(r, S.repair) /\ FirstKept(p, r, {}) /\ (Exact(p) => Exact(r)) /\ Paced(r)
    BY <1>1, <2>5, <2>6, LaterKeeps DEF date
  <2>8. Keeps(p, r, S.repair, {})
    BY <2>7 DEF Keeps
  <2>9. IsSchedule(T) /\ T.profile = r /\ T.repair = S.repair /\ T.ok = S.ok
    BY <2>4, <2>7 DEF NewProfile, IsSchedule, Offers, Firm, Sound, SliceSound
  <2>10. failures = 0 => T.ok
    BY <2>9 DEF ScheduleInv
  <2>11. SamePeriods(p, r, Jobs)
    <3>1. \A j \in Jobs : Alike(p, r, j)
      BY <2>6 DEF Alike, Later, SameSlice, Runs, date
    <3>2. IsProfile(p) /\ Steady(p) /\ IsProfile(r) /\ DOMAIN r = DOMAIN p
          /\ r[1].begin = p[1].begin
      BY <1>1, <2>1, <2>6 DEF Firm, Later, date
    <3>3. \A j \in Jobs : SamePeriod(p, r, j)
      BY <3>1, <3>2, AlikePeriods
    <3> QED BY <3>2, <3>3 DEF SamePeriods
  <2> QED BY <2>8, <2>9, <2>10, <2>11, <1>4, <1>6, BecomesFits DEF p
<1> HIDE DEF rem, T
<1> QED BY <1>3, <1>5, <1>6

\* MachineDown keeps the invariant.
LEMMA DownFits ==
  ASSUME ScheduleInv, NEW m \in Machines, MachineDown(m)
  PROVE  ScheduleInv'
<1> DEFINE S == add_repair_machine(schedule, {m})
           out == get_jobs_running_on_machines(S, {m})
           T == FoldLeft(remove_job_if_exists, S, Ascending(out))
<1>1. schedule' = T /\ failures' = failures + 1
  BY DEF MachineDown
<1>2. Repairs(schedule, schedule.repair \cup {m}, S)
  <2>1. {m} \in SUBSET Machines
    OBVIOUS
  <2> QED BY <2>1, AddRepairMachine DEF ScheduleInv
<1> HIDE DEF S
<1>3. IsSchedule(S) /\ Firm(S.profile, S.repair) /\ Paced(S.profile)
  BY <1>2 DEF Repairs, ScheduleInv
<1>4. out \in SUBSET Jobs
  <2>1. S.profile[1] \in SliceRecord
    BY <1>3 DEF IsSchedule, Offers, IsProfile
  <2>2. DOMAIN S.profile[1].jobs \subseteq Jobs
    BY <2>1, FieldTypes
  <2> QED BY <2>2 DEF get_jobs_running_on_machines, OnMachines, RunningJobs
<1> HIDE DEF out
<1>5. Becomes(S, T, out)
  BY <1>3, <1>4, RemoveAll DEF Removed
<1> HIDE DEF T
<1>6. IsSchedule(T) /\ T.repair = S.repair /\ Firm(T.profile, S.repair) /\ Paced(T.profile)
  BY <1>3, <1>5 DEF Becomes, Keeps
<1>7. failures + 1 \in Nat /\ failures + 1 # 0
  BY DEF ScheduleInv
<1> QED BY <1>1, <1>6, <1>7 DEF ScheduleInv

\* MachineUp keeps the invariant.
LEMMA UpFits ==
  ASSUME ScheduleInv, NEW m \in Machines, MachineUp(m)
  PROVE  ScheduleInv'
<1> DEFINE T == remove_repair_machines(schedule, {m})
<1>1. schedule' = T /\ failures' = failures /\ m \in schedule.repair
  BY DEF MachineUp
<1>2. Repairs(schedule, schedule.repair \ {m}, T)
  BY RemoveRepairMachines DEF ScheduleInv
<1> HIDE DEF T
<1>3. failures # 0
  BY <1>1 DEF ScheduleInv
<1> QED BY <1>1, <1>2, <1>3 DEF Repairs, ScheduleInv

\* Every step of the schedule keeps the invariant.
LEMMA ScheduleStep ==
  ASSUME Reservations = {}, ScheduleInv, [ScheduleNext]_scheduleVars
  PROVE  ScheduleInv'
<1>1. CASE UNCHANGED scheduleVars
  BY <1>1 DEF scheduleVars, ScheduleInv
<1>2. ASSUME NEW j \in Jobs, AddJob(j) PROVE ScheduleInv'
  BY <1>2, AddFits
<1>3. ASSUME NEW j \in Jobs, AddJobAfter(j) PROVE ScheduleInv'
  BY <1>3, AddAfterFits
<1>4. ASSUME NEW j \in Jobs, RemoveJob(j) PROVE ScheduleInv'
  BY <1>4, RemoveFits
<1>5. ASSUME NEW date \in 0..LastDate, Advance(date) PROVE ScheduleInv'
  <2>1. date \in Nat
    BY CallsAssumption
  <2> QED BY <2>1, <1>5, AdvanceFits
<1>6. ASSUME NEW r \in Reservations, MakeReservation(r) PROVE ScheduleInv'
  OBVIOUS
<1>7. CASE StartReservations
  BY <1>7, StartReservationsFits
<1>8. ASSUME NEW m \in Failing, MachineDown(m) PROVE ScheduleInv'
  BY <1>8, CallsAssumption, DownFits
<1>9. ASSUME NEW m \in Failing, MachineUp(m) PROVE ScheduleInv'
  BY <1>9, CallsAssumption, UpFits
<1> QED BY <1>1, <1>2, <1>3, <1>4, <1>5, <1>6, <1>7, <1>8, <1>9 DEF ScheduleNext

\* Without reservations the invariant of the schedule always holds.
THEOREM ScheduleFits ==
  ASSUME Reservations = {}
  PROVE  ScheduleSpec => []ScheduleInv
<1>1. ScheduleInv /\ [ScheduleNext]_scheduleVars => ScheduleInv'
  BY ScheduleStep
<1> QED BY InitFits, <1>1, PTL DEF ScheduleSpec

\* No assertion of class Schedule fails before a machine has failed.
THEOREM NoAssertionFails ==
  ASSUME Reservations = {}
  PROVE  ScheduleSpec => []AssertionsHold
<1>1. ScheduleInv => AssertionsHold
  BY DEF ScheduleInv, AssertionsHold
<1> QED BY <1>1, ScheduleFits, PTL

\* No slice gives a machine to two jobs, or offers one that is not free.
THEOREM NoMachineTwice ==
  ASSUME Reservations = {}
  PROVE  ScheduleSpec => []NothingOfferedTwice
<1>1. ScheduleInv => NothingOfferedTwice
  <2> SUFFICES ASSUME ScheduleInv PROVE NothingOfferedTwice
    OBVIOUS
  <2>1. \A i \in Slices : SliceSound(Slice(i), schedule.repair)
    BY DEF ScheduleInv, Firm, Sound, Slice, Slices
  <2> QED BY <2>1 DEF NothingOfferedTwice, SliceSound, MachinesOf
<1> QED BY <1>1, ScheduleFits, PTL

\* A job is in consecutive slices, on as many machines as it asks for and the
\* same in each, for its walltime or what is left of it.
THEOREM JobsStayWhole ==
  ASSUME Reservations = {}
  PROVE  ScheduleSpec => []JobsUnbroken
<1>1. ASSUME ScheduleInv, NEW j \in Planned
      PROVE  LET occ == Occurrences(schedule.profile, j)
                 f == Least(occ)
                 l == CHOOSE x \in occ : \A y \in occ : y <= x
             IN /\ occ = f..l
                /\ \A i \in occ : Slice(i).jobs[j] = Slice(f).jobs[j]
                /\ Cardinality(Slice(f).jobs[j]) = nb_requested_resources[j]
                /\ LET w == WalltimeFrom(walltime[j], Slice(f).begin)
                   IN IF f = 1 THEN Slice(l).end - Slice(f).begin <= w
                      ELSE Slice(l).end - Slice(f).begin = w
  <2> DEFINE p == schedule.profile
             occ == Occurrences(p, j)
             f == Least(occ)
             l == CHOOSE x \in occ : \A y \in occ : y <= x
  <2>1. /\ IsProfile(p) /\ Len(p) \in Nat /\ DOMAIN p = 1..Len(p)
        /\ Sound(p, schedule.repair) /\ Steady(p) /\ Lasting(p) /\ j \in Jobs
    BY <1>1 DEF ScheduleInv, Firm, Sound, Paced, IsProfile, Planned
  <2>2. occ # {} /\ occ \in SUBSET (1..Len(p)) /\ occ \in SUBSET Nat
        /\ \A x : x \in occ <=> x \in DOMAIN p /\ Runs(p, j, x)
    BY <2>1 DEF Planned, contains_job, Occurrences, Runs
  <2>3. f \in occ /\ \A y \in occ : f <= y
    <3> HIDE DEF occ
    <3> QED BY <2>2, LeastIs
  <2>4. \E x \in occ : \A y \in occ : y <= x
    <3> DEFINE last == Least({x \in f..Len(p) : x = Len(p) \/ j \notin DOMAIN p[x + 1].jobs})
    <3>1. Stays(p, j, f, last)
      BY <2>1, <2>2, StayIs
    <3> HIDE DEF last, f, occ, p
    <3>2. last \in DOMAIN p /\ Runs(p, j, last) /\ f \in 1..Len(p) /\ last \in f..Len(p)
      <4>1. f \in DOMAIN p /\ last \in f..Len(p) /\ \A x \in f..last : Runs(p, j, x)
        BY <3>1 DEF Stays
      <4>2. last \in f..last /\ f \in 1..Len(p) /\ last \in DOMAIN p
        BY <4>1, <2>1
      <4> QED BY <4>1, <4>2
    <3>3. ASSUME NEW y \in occ, ~(y <= last) PROVE FALSE
      <4>1. /\ y \in DOMAIN p /\ Runs(p, j, y) /\ y \in Int /\ last \in Int
            /\ last + 1 \in last..y /\ last # Len(p)
        BY <3>2, <3>3, <2>1, <2>2
      <4>2. Runs(p, j, last + 1)
        BY <4>1, <3>2, <2>1 DEF Steady
      <4> QED BY <4>1, <4>2, <3>1 DEF Stays
    <3> QED BY <3>2, <3>3, <2>2
  <2>5. l \in occ /\ \A y \in occ : y <= l
    <3> HIDE DEF occ
    <3> QED BY <2>4
  <2> HIDE DEF l, f, occ
  <2>6. f \in DOMAIN p /\ l \in DOMAIN p /\ f \in Int /\ l \in Int
        /\ Runs(p, j, f) /\ Runs(p, j, l)
    BY <2>1, <2>2, <2>3, <2>5
  <2>7. occ = f..l
    <3>1. \A x \in occ : x \in f..l
      BY <2>2, <2>3, <2>5, <2>6
    <3>2. \A x \in f..l : x \in DOMAIN p /\ Runs(p, j, x)
      BY <2>1, <2>6 DEF Steady
    <3> QED BY <3>1, <3>2, <2>2
  <2>8. \A i \in occ : p[i].jobs[j] = p[f].jobs[j]
    BY <2>1, <2>2, <2>6 DEF Steady
  <2>9. Cardinality(p[f].jobs[j]) = nb_requested_resources[j]
    BY <2>1, <2>6 DEF Sound, SliceSound, Runs
  <2>10. Begins(p, j, f) /\ Ends(p, j, l)
    <3>1. f # 1 => ~Runs(p, j, f - 1)
      <4>1. f # 1 => f - 1 \in DOMAIN p /\ ~(f <= f - 1)
        BY <2>1, <2>6
      <4> QED BY <4>1, <2>2, <2>3
    <3>2. l # Len(p) => ~Runs(p, j, l + 1)
      <4>1. l # Len(p) => l + 1 \in DOMAIN p /\ ~(l + 1 <= l)
        BY <2>1, <2>6
      <4> QED BY <4>1, <2>2, <2>5
    <3> QED BY <3>1, <3>2, <2>6 DEF Begins, Ends
  <2>11. Lasts(p, j, f, l)
    BY <2>1, <2>6, <2>10 DEF Lasting
  <2> QED BY <2>7, <2>8, <2>9, <2>11 DEF Lasts, Slice, f, l, occ
<1>2. ScheduleInv => JobsUnbroken
  BY <1>1 DEF JobsUnbroken
<1> QED BY <1>2, ScheduleFits, PTL
-----------------------------------------------------------------------------
(* The queue of algorithm easy_bf2, and what its decisions keep.            *)

\* The queue once it is sorted: each of its jobs is in it once.
IsQueue(T, q) == q \in Seq(T) /\ RL!Distinct(q)

\* sort_queue keeps the jobs of the queue.
LEMMA SortedIs ==
  ASSUME NEW T \in SUBSET Jobs, NEW q \in Seq(T)
  PROVE  IsQueue(T, sort_queue(q))
<1> DEFINE S == ToSet(q)
           ahead == [a \in S |-> {b \in S : Precedes(b, a)}]
           r == RL!Ranked(S, ahead)
<1>1. S \subseteq T /\ S \subseteq Jobs
  BY DEF ToSet
<1>2. \A a \in S : a \in Int /\ subtime[a] \in Int
  BY <1>1, PlatformAssumption, EasyAssumption
<1> HIDE DEF S
<1>3. \A x \in S : ahead[x] \subseteq S \ {x}
  BY <1>2 DEF Precedes
<1>4. ASSUME NEW x \in S, NEW y \in S, x \in ahead[y]
      PROVE  ahead[x] \subseteq ahead[y]
  <2>1. Precedes(x, y)
    BY <1>4
  <2> SUFFICES ASSUME NEW z \in S, Precedes(z, x) PROVE Precedes(z, y)
    OBVIOUS
  <2> QED BY <2>1, <1>2 DEF Precedes
<1>5. \A x, y \in S : x # y => x \in ahead[y] \/ y \in ahead[x]
  BY <1>2 DEF Precedes
<1>6. RL!Orders(S, ahead)
  BY <1>3, <1>4, <1>5 DEF RL!Orders
<1>7. RL!IsFiniteSet(S)
  BY <1>1, JobsFinite, SameSets
<1>8. sort_queue(q) = r
  <2>1. sort_queue(q) = Listed(S, ahead)
    BY DEF sort_queue, S
  <2> HIDE DEF ahead
  <2> QED BY <2>1, SameSets DEF Listed, RL!Ranked
<1>9. RL!ListsOnce(S, r)
  <2> HIDE DEF ahead
  <2> QED BY <1>6, <1>7, RL!RankedIs DEF RL!Lists
<1> HIDE DEF r
<1>10. r \in Seq(T) /\ RL!Distinct(r)
  BY <1>1, <1>9 DEF RL!ListsOnce
<1> QED BY <1>8, <1>10 DEF IsQueue

\* What is left of a list when it is limited to a set.
Picks(T, q, S, r) ==
  r \in Seq(T \cap S) /\ (RL!Distinct(q) => RL!Distinct(r))

\* Only keeps the elements that are in the set.
LEMMA OnlyIs ==
  ASSUME NEW T, NEW q \in Seq(T), NEW S
  PROVE  Picks(T, q, S, Only(q, S))
<1> DEFINE D == {i \in DOMAIN q : q[i] \in S}
           at == Ascending(D)
           r == [x \in DOMAIN at |-> q[at[x]]]
<1>1. Only(q, S) = r
  BY DEF Only
<1>2. /\ D \subseteq DOMAIN q /\ D \in SUBSET Int /\ IsFiniteSet(D)
      /\ \A i \in D : i \in DOMAIN q
  <2>1. D \subseteq 1..Len(q) /\ Len(q) \in Int /\ DOMAIN q = 1..Len(q)
    OBVIOUS
  <2> HIDE DEF D
  <2>2. IsFiniteSet(1..Len(q))
    BY <2>1, FS_Interval
  <2>3. IsFiniteSet(D)
    BY <2>1, <2>2, FS_Subset
  <2> QED BY <2>1, <2>3
<1>3. \A i \in D : q[i] \in T \cap S
  OBVIOUS
<1> HIDE DEF D
<1>4. Increasing(D, at)
  BY <1>2, AscendingIs
<1> HIDE DEF at
<1>5. /\ at \in Seq(D) /\ DOMAIN at = 1..Len(at) /\ Len(at) \in Nat
      /\ \A x \in 1..Len(at) : at[x] \in D
  BY <1>4 DEF Increasing
<1>6. \A i, k \in DOMAIN at : at[i] = at[k] => i = k
  <2>1. TAKE i, k \in DOMAIN at
  <2>2. i \in Int /\ k \in Int /\ at[i] \in Int /\ at[k] \in Int
    <3>1. i \in 1..Len(at) /\ k \in 1..Len(at)
      BY <1>5
    <3> QED BY <3>1, <1>2, <1>5
  <2>3. (i < k => at[i] < at[k]) /\ (k < i => at[k] < at[i])
    BY <1>4 DEF Increasing
  <2> QED BY <2>2, <2>3
<1>7. r \in Seq(T \cap S)
  <2>1. r \in [1..Len(at) -> T \cap S]
    BY <1>3, <1>5
  <2> HIDE DEF r
  <2> QED BY <2>1, <1>5
<1>8. RL!Distinct(q) => RL!Distinct(r)
  <2>1. \A x \in DOMAIN at : at[x] \in DOMAIN q
    BY <1>2, <1>5
  <2> QED BY <2>1, <1>6 DEF RL!Distinct
<1> QED BY <1>1, <1>7, <1>8 DEF Picks
\* A decision in progress, when c says which jobs run, on which machines, which
\* jobs wait, and which machines are under repair.
Decides(c, A) ==
  /\ A = [sched |-> A.sched, queue |-> A.queue, executed |-> A.executed]
  /\ IsSchedule(A.sched) /\ A.sched.repair = c.repair
  /\ IsQueue(c.waits, A.queue)
  /\ DOMAIN A.executed \subseteq c.waits
  /\ \A k \in DOMAIN A.queue : A.queue[k] \notin DOMAIN A.executed
  /\ \A j \in DOMAIN A.executed : A.executed[j] \cap c.repair = {}
  /\ A.sched.ok =>
       /\ Firm(A.sched.profile, c.repair)
       /\ \A j \in c.running : Holds(A.sched.profile, j, c.on[j])
       /\ \A j \in DOMAIN A.executed : Holds(A.sched.profile, j, A.executed[j])

\* What c says of the jobs.
Knows(c) == c.running \subseteq Jobs /\ c.waits \subseteq Jobs \ c.running

\* What the handling of job j makes of a decision.
Handles(c, A, j, B) ==
  Decides(c, B) /\ DOMAIN B.executed \subseteq DOMAIN A.executed \cup {j}

\* A job that starts is executed.
LEMMA ExecuteDecides ==
  ASSUME NEW c, Knows(c), NEW A, Decides(c, A), NEW j \in c.waits, NEW a,
         AddsFirst(A.sched, j, TRUE, a), a.started_in_first_slice
  PROVE  Handles(c, A, j, Execute(A, j, a))
<1> DEFINE q == Only(A.queue, Jobs \ {j})
           e == Put(A.executed, j, a.used)
           E == Execute(A, j, a)
<1>1. /\ E = [sched |-> a.schedule, queue |-> q, executed |-> e]
      /\ E.sched = a.schedule /\ E.queue = q /\ E.executed = e
  BY DEF Execute
<1>2. /\ A.queue \in Seq(c.waits) /\ RL!Distinct(A.queue)
      /\ DOMAIN A.executed \subseteq c.waits
      /\ \A k \in DOMAIN A.queue : A.queue[k] \notin DOMAIN A.executed
      /\ \A y \in DOMAIN A.executed : A.executed[y] \cap c.repair = {}
      /\ A.sched.repair = c.repair
  BY DEF Decides, IsQueue
<1>3. /\ IsSchedule(a.schedule) /\ a.schedule.repair = c.repair
      /\ a.used \cap c.repair = {}
  BY <1>2 DEF AddsFirst, Inserts
<1>4. DOMAIN e = DOMAIN A.executed \cup {j} /\ e[j] = a.used
      /\ \A y \in DOMAIN A.executed : y # j => e[y] = A.executed[y]
  BY DEF Put
<1>5. IsQueue(c.waits, q) /\ \A k \in DOMAIN q : q[k] \notin DOMAIN e
  <2> DEFINE W == {A.queue[k] : k \in DOMAIN A.queue}
  <2>1. W \subseteq c.waits /\ A.queue \in Seq(W) /\ W \cap DOMAIN A.executed = {}
    <3>1. A.queue = [k \in 1..Len(A.queue) |-> A.queue[k]] /\ Len(A.queue) \in Nat
          /\ DOMAIN A.queue = 1..Len(A.queue)
      BY <1>2
    <3>2. \A k \in DOMAIN A.queue : A.queue[k] \in c.waits
      BY <1>2
    <3>3. A.queue \in [1..Len(A.queue) -> W]
      BY <3>1
    <3>4. A.queue \in Seq(W)
      BY <3>1, <3>3
    <3> QED BY <3>2, <3>4, <1>2
  <2> HIDE DEF W
  <2>2. Picks(W, A.queue, Jobs \ {j}, q)
    BY <2>1, OnlyIs
  <2> HIDE DEF q, e
  <2>3. q \in Seq(W \cap (Jobs \ {j})) /\ RL!Distinct(q)
    BY <2>2, <1>2 DEF Picks
  <2>4. \A k \in DOMAIN q : q[k] \in W /\ q[k] # j
    BY <2>3
  <2>5. q \in Seq(c.waits)
    BY <2>1, <2>3
  <2> QED BY <2>1, <2>3, <2>4, <2>5, <1>4 DEF IsQueue
<1>6. ASSUME a.schedule.ok
      PROVE  /\ Firm(a.schedule.profile, c.repair)
             /\ \A y \in c.running : Holds(a.schedule.profile, y, c.on[y])
             /\ \A y \in DOMAIN e : Holds(a.schedule.profile, y, e[y])
  <2>1. A.sched.ok /\ ~contains_job(A.sched, j)
    BY <1>6 DEF AddsFirst, Inserts
  <2>2. /\ Firm(A.sched.profile, c.repair)
        /\ \A y \in c.running : Holds(A.sched.profile, y, c.on[y])
        /\ \A y \in DOMAIN A.executed : Holds(A.sched.profile, y, A.executed[y])
    BY <2>1 DEF Decides
  <2>3. /\ Keeps(A.sched.profile, a.schedule.profile, c.repair, {})
        /\ Holds(a.schedule.profile, j, a.used)
    BY <2>1, <2>2, <1>2 DEF AddsFirst, Inserts
  <2>4. /\ Firm(a.schedule.profile, c.repair)
        /\ \A y \in Jobs : \A ms : Holds(A.sched.profile, y, ms)
             => Holds(a.schedule.profile, y, ms)
    BY <2>3 DEF Keeps, FirstKept, Holds
  <2> HIDE DEF e
  <2> QED BY <2>2, <2>3, <2>4, <1>2, <1>4 DEF Knows
<1> HIDE DEF E, e, q
<1>7. Decides(c, E)
  <2>1. \A y \in DOMAIN e : e[y] \cap c.repair = {}
    BY <1>2, <1>3, <1>4
  <2>2. DOMAIN e \subseteq c.waits
    BY <1>2, <1>4
  <2>3. E = [sched |-> E.sched, queue |-> E.queue, executed |-> E.executed]
    BY <1>1
  <2> QED BY <2>1, <2>2, <2>3, <1>1, <1>3, <1>5, <1>6 DEF Decides
<1>8. Handles(c, A, j, E)
  BY <1>1, <1>4, <1>7 DEF Handles
<1> QED BY <1>8 DEF E

\* The decision with another schedule, in which the jobs that run or start are
\* where they were.
LEMMA RescheduleDecides ==
  ASSUME NEW c, Knows(c), NEW A, Decides(c, A), NEW S, IsSchedule(S),
         S.repair = c.repair, S.ok => A.sched.ok, NEW out, out \cap c.running = {},
         S.ok => out \cap DOMAIN A.executed = {},
         S.ok => Firm(S.profile, c.repair) /\ FirstKept(A.sched.profile, S.profile, out)
  PROVE  Decides(c, [A EXCEPT !.sched = S])
<1> DEFINE B == [A EXCEPT !.sched = S]
<1>1. B = [sched |-> S, queue |-> A.queue, executed |-> A.executed]
  <2>1. A = [sched |-> A.sched, queue |-> A.queue, executed |-> A.executed]
    BY DEF Decides
  <2> QED BY <2>1
<1>2. B.sched = S /\ B.queue = A.queue /\ B.executed = A.executed
  BY <1>1
<1> HIDE DEF B
<1>3. ASSUME S.ok
      PROVE  /\ \A y \in c.running : Holds(S.profile, y, c.on[y])
             /\ \A y \in DOMAIN A.executed : Holds(S.profile, y, A.executed[y])
  <2>1. \A y \in Jobs \ out : \A ms : Holds(A.sched.profile, y, ms)
          => Holds(S.profile, y, ms)
    BY <1>3 DEF FirstKept, Holds
  <2>2. c.running \subseteq Jobs \ out /\ DOMAIN A.executed \subseteq Jobs \ out
    BY <1>3 DEF Knows, Decides
  <2>3. /\ \A y \in c.running : Holds(A.sched.profile, y, c.on[y])
        /\ \A y \in DOMAIN A.executed : Holds(A.sched.profile, y, A.executed[y])
    BY <1>3 DEF Decides
  <2> QED BY <2>1, <2>2, <2>3
<1>4. Decides(c, B)
  <2>1. B = [sched |-> B.sched, queue |-> B.queue, executed |-> B.executed]
    BY <1>1, <1>2
  <2>2. /\ IsQueue(c.waits, A.queue) /\ DOMAIN A.executed \subseteq c.waits
        /\ \A k \in DOMAIN A.queue : A.queue[k] \notin DOMAIN A.executed
        /\ \A j \in DOMAIN A.executed : A.executed[j] \cap c.repair = {}
    BY DEF Decides
  <2> QED BY <2>1, <2>2, <1>2, <1>3 DEF Decides
<1> QED BY <1>4 DEF B

\* Planning the priority job executes it or leaves it planned.
LEMMA PlanDecides ==
  ASSUME NEW c, Knows(c), NEW A, Decides(c, A), NEW j \in c.waits
  PROVE  Handles(c, A, j, Plan(A, j))
<1> DEFINE a == add_job_first_fit(A.sched, j, Machines, TRUE)
<1>1. j \in Jobs /\ IsSchedule(A.sched) /\ A.sched.repair = c.repair
  BY DEF Knows, Decides
<1>2. AddsFirst(A.sched, j, TRUE, a)
  BY <1>1, AddFirstFit
<1>3. Plan(A, j) = IF a.started_in_first_slice THEN Execute(A, j, a)
                   ELSE [A EXCEPT !.sched = a.schedule]
  BY DEF Plan
<1> HIDE DEF a
<1>4. CASE a.started_in_first_slice
  BY <1>2, <1>3, <1>4, ExecuteDecides
<1>5. CASE ~a.started_in_first_slice
  <2> DEFINE S == a.schedule
  <2>1. IsSchedule(S) /\ S.repair = c.repair /\ (S.ok => A.sched.ok)
    BY <1>1, <1>2 DEF AddsFirst, Inserts
  <2>2. ASSUME S.ok
        PROVE  Firm(S.profile, c.repair) /\ FirstKept(A.sched.profile, S.profile, {})
    <3>1. ~contains_job(A.sched, j) /\ Firm(A.sched.profile, A.sched.repair)
      BY <2>1, <2>2, <1>1, <1>2 DEF AddsFirst, Decides
    <3> QED BY <3>1, <1>1, <1>2 DEF AddsFirst, Inserts, Keeps
  <2> HIDE DEF S
  <2>3. Decides(c, [A EXCEPT !.sched = S])
    BY <2>1, <2>2, RescheduleDecides
  <2>4. [A EXCEPT !.sched = S].executed = A.executed
    BY DEF Decides
  <2> QED BY <2>3, <2>4, <1>3, <1>5 DEF Handles, S
<1> QED BY <1>4, <1>5

\* Backfilling a job executes it or leaves the schedule as it was.
LEMMA BackfillDecides ==
  ASSUME NEW c, Knows(c), NEW A, Decides(c, A), NEW j \in c.waits
  PROVE  Handles(c, A, j, Backfill(A, j))
<1> DEFINE a == add_job_first_fit(A.sched, j, Machines, TRUE)
           S == remove_job(a.schedule, j)
<1>1. j \in Jobs \ c.running /\ IsSchedule(A.sched) /\ A.sched.repair = c.repair
  BY DEF Knows, Decides
<1>2. AddsFirst(A.sched, j, TRUE, a)
  BY <1>1, AddFirstFit
<1>3. Backfill(A, j) = IF a.started_in_first_slice THEN Execute(A, j, a)
                       ELSE [A EXCEPT !.sched = S]
  BY DEF Backfill
<1> HIDE DEF a
<1>4. IsSchedule(a.schedule) /\ a.schedule.repair = c.repair
  BY <1>1, <1>2 DEF AddsFirst, Inserts
<1>5. RemovesThere(a.schedule, j, S)
  BY <1>1, <1>4, RemoveThere
<1> HIDE DEF S
<1>6. CASE a.started_in_first_slice
  BY <1>2, <1>3, <1>6, ExecuteDecides
<1>7. CASE ~a.started_in_first_slice
  <2>1. IsSchedule(S) /\ S.repair = c.repair /\ (S.ok => a.schedule.ok)
        /\ (a.schedule.ok => A.sched.ok)
    BY <1>2, <1>4, <1>5 DEF RemovesThere, AddsFirst, Inserts
  <2>2. ASSUME S.ok
        PROVE  /\ Firm(S.profile, c.repair) /\ FirstKept(A.sched.profile, S.profile, {j})
               /\ {j} \cap DOMAIN A.executed = {}
    <3>1. ~contains_job(A.sched, j) /\ Firm(A.sched.profile, c.repair)
      BY <2>1, <2>2, <1>1, <1>2 DEF AddsFirst, Decides
    <3>2. Keeps(A.sched.profile, a.schedule.profile, c.repair, {})
      BY <3>1, <1>1, <1>2 DEF AddsFirst, Inserts
    <3>3. Keeps(a.schedule.profile, S.profile, c.repair, {j})
      BY <3>2, <1>4, <1>5 DEF RemovesThere, Keeps
    <3>4. Keeps(A.sched.profile, S.profile, c.repair, {} \cup {j})
      BY <3>2, <3>3, KeepsTwice
    <3>5. \A y \in DOMAIN A.executed : Runs(A.sched.profile, y, 1)
      BY <2>1, <2>2 DEF Decides, Holds
    <3>6. ~Runs(A.sched.profile, j, 1)
      <4>1. 1 \in DOMAIN A.sched.profile
        BY <1>1 DEF IsSchedule, Offers, IsProfile
      <4> QED BY <4>1, <3>1 DEF contains_job, Occurrences, Runs
    <3>7. FirstKept(A.sched.profile, S.profile, {j})
      <4>1. {} \cup {j} = {j}
        OBVIOUS
      <4> QED BY <4>1, <3>4 DEF Keeps
    <3> QED BY <3>3, <3>5, <3>6, <3>7 DEF Keeps
  <2>3. Decides(c, [A EXCEPT !.sched = S])
    <3>1. {j} \cap c.running = {}
      BY <1>1
    <3> QED BY <2>1, <2>2, <3>1, RescheduleDecides
  <2>4. [A EXCEPT !.sched = S].executed = A.executed
    BY DEF Decides
  <2> QED BY <2>3, <2>4, <1>3, <1>7 DEF Handles
<1> QED BY <1>6, <1>7

\* A job that waits leaves the schedule.
LEMMA LeaveDecides ==
  ASSUME NEW c, Knows(c), NEW A, Decides(c, A), NEW j \in c.waits,
         j \notin DOMAIN A.executed
  PROVE  /\ Decides(c, [A EXCEPT !.sched = remove_job(A.sched, j)])
         /\ Decides(c, [A EXCEPT !.sched = remove_job_if_exists(A.sched, j)])
<1> DEFINE S == remove_job(A.sched, j)
           T == remove_job_if_exists(A.sched, j)
<1>1. /\ j \in Jobs /\ IsSchedule(A.sched) /\ A.sched.repair = c.repair
      /\ {j} \cap c.running = {} /\ {j} \cap DOMAIN A.executed = {}
  BY DEF Knows, Decides
<1>2. RemovesThere(A.sched, j, S) /\ RemovesJob(A.sched, j, T)
  BY <1>1, RemoveThere, RemoveIfExists DEF IfExistsRemoves
<1> HIDE DEF S, T
<1>3. A.sched.ok => Firm(A.sched.profile, c.repair)
  BY DEF Decides
<1>4. Decides(c, [A EXCEPT !.sched = S])
  <2>1. IsSchedule(S) /\ S.repair = c.repair /\ (S.ok => A.sched.ok)
    BY <1>1, <1>2 DEF RemovesThere
  <2>2. S.ok => Keeps(A.sched.profile, S.profile, c.repair, {j})
    BY <2>1, <1>1, <1>2, <1>3 DEF RemovesThere
  <2> QED BY <1>1, <2>1, <2>2, RescheduleDecides DEF Keeps
<1>5. Decides(c, [A EXCEPT !.sched = T])
  <2>1. IsSchedule(T) /\ T.repair = c.repair /\ (T.ok => A.sched.ok)
    BY <1>1, <1>2 DEF RemovesJob
  <2>2. T.ok => Keeps(A.sched.profile, T.profile, c.repair, {j})
    BY <2>1, <1>1, <1>2, <1>3 DEF RemovesJob
  <2> QED BY <1>1, <2>1, <2>2, RescheduleDecides DEF Keeps
<1> QED BY <1>4, <1>5 DEF S, T

\* What is done with a job of the queue when it is its turn.
LEMMA ConsiderDecides ==
  ASSUME NEW c, Knows(c), NEW A, Decides(c, A), NEW j \in c.waits,
         j \notin DOMAIN A.executed
  PROVE  Handles(c, A, j, Consider(A, j))
<1> DEFINE C0 == IF contains_job(A.sched, j)
                 THEN [A EXCEPT !.sched = remove_job(@, j)] ELSE A
<1>1. Consider(A, j) = IF j = first_job(A.queue) THEN Plan(C0, j) ELSE Backfill(C0, j)
  BY DEF Consider
<1>2. Decides(c, C0)
  <2>1. [A EXCEPT !.sched = remove_job(@, j)] = [A EXCEPT !.sched = remove_job(A.sched, j)]
    BY DEF Decides
  <2> QED BY <2>1, LeaveDecides
<1>3. C0.executed = A.executed
  BY DEF Decides
<1> HIDE DEF C0
<1>4. Handles(c, C0, j, Plan(C0, j)) /\ Handles(c, C0, j, Backfill(C0, j))
  BY <1>2, PlanDecides, BackfillDecides
<1> QED BY <1>1, <1>3, <1>4 DEF Handles
-----------------------------------------------------------------------------
(* The loops of a decision.                                                 *)

\* The jobs at the head of the queue; the whole queue, e.list, of which those
\* still to be considered have not started; the jobs queued by this decision.
HeadsPass(c, B, j) == RunHead(B, j)
HeadsLoop(c, i, B) == Decides(c, B)
HL == INSTANCE Folding WITH Step <- HeadsPass, Inv <- HeadsLoop

QueuePass(e, B, j) == Consider(B, j)
QueueLoop(e, i, B) ==
  Decides(e.c, B) /\ \A k \in (i + 1)..Len(e.list) : e.list[k] \notin DOMAIN B.executed
QL == INSTANCE Folding WITH Step <- QueuePass, Inv <- QueueLoop

RecentPass(e, R, j) == BackfillRecent(e.head, R, j)
RecentLoop(e, i, R) == Decides(e.c, R.dec)
NL == INSTANCE Folding WITH Step <- RecentPass, Inv <- RecentLoop

\* Executing the jobs at the head of the queue.
LEMMA RunHeadsDecides ==
  ASSUME NEW c, Knows(c), NEW A, Decides(c, A)
  PROVE  Decides(c, RunHeads(A))
<1> DEFINE q == A.queue
<1>1. RunHeads(A) = HL!Folded(c, A, q)
  BY DEF RunHeads, HeadsPass, HL!Folded, HL!FoldLeft, HL!MapThenFoldSet,
         FoldLeft, MapThenFoldSet, HL!Max, Max
<1>2. q \in Seq(c.waits) /\ \A i \in 1..Len(q) : q[i] \in c.waits
  BY DEF Decides, IsQueue
<1>3. HeadsLoop(c, 0, A)
  BY DEF HeadsLoop
<1> HIDE DEF q
<1>4. ASSUME NEW i \in 1..Len(q), NEW B, HeadsLoop(c, i - 1, B)
      PROVE  HeadsLoop(c, i, HeadsPass(c, B, q[i]))
  <2> DEFINE j == q[i]
  <2>1. j \in c.waits /\ Decides(c, B)
    BY <1>2, <1>4 DEF HeadsLoop
  <2> HIDE DEF j
  <2>2. Decides(c, Plan(B, j))
    BY <2>1, PlanDecides DEF Handles
  <2> QED BY <2>1, <2>2 DEF HeadsPass, RunHead, HeadsLoop, j
<1>5. HeadsLoop(c, Len(q), HL!Folded(c, A, q))
  BY <1>2, <1>3, <1>4, HL!LoopInvariant
<1> QED BY <1>1, <1>5 DEF HeadsLoop

\* Backfilling the whole queue behind the priority job.
LEMMA BackfillAllDecides ==
  ASSUME NEW c, Knows(c), NEW A, Decides(c, A)
  PROVE  Decides(c, BackfillAll(A))
<1> DEFINE q == A.queue
           e == [c |-> c, list |-> q]
           F == FoldLeft(Consider, A, q)
<1>1. F = QL!Folded(e, A, q)
  BY DEF QueuePass, QL!Folded, QL!FoldLeft, QL!MapThenFoldSet,
         FoldLeft, MapThenFoldSet, QL!Max, Max
<1>2. BackfillAll(A) = A \/ BackfillAll(A) = F
  BY DEF BackfillAll
<1>3. /\ q \in Seq(c.waits) /\ RL!Distinct(q) /\ e.c = c /\ e.list = q
      /\ \A k \in DOMAIN q : q[k] \notin DOMAIN A.executed
      /\ Len(q) \in Nat /\ DOMAIN q = 1..Len(q) /\ \A k \in DOMAIN q : q[k] \in c.waits
  BY DEF Decides, IsQueue
<1> HIDE DEF q, e, F
<1>4. QueueLoop(e, 0, A)
  BY <1>3 DEF QueueLoop
<1>5. ASSUME NEW i \in 1..Len(q), NEW B, QueueLoop(e, i - 1, B)
      PROVE  QueueLoop(e, i, QueuePass(e, B, q[i]))
  <2> DEFINE j == q[i]
             D == Consider(B, j)
  <2>1. /\ j \in c.waits /\ Decides(c, B)
        /\ \A k \in i..Len(q) : q[k] \notin DOMAIN B.executed
    <3>1. (i - 1) + 1 = i
      BY <1>3
    <3> QED BY <3>1, <1>3, <1>5 DEF QueueLoop
  <2>2. j \notin DOMAIN B.executed
    <3>1. i \in i..Len(q)
      BY <1>3
    <3> QED BY <3>1, <2>1
  <2> HIDE DEF j
  <2>3. Handles(c, B, j, D)
    BY <2>1, <2>2, ConsiderDecides
  <2> HIDE DEF D
  <2>4. \A k \in (i + 1)..Len(q) : q[k] \notin DOMAIN D.executed
    <3>1. TAKE k \in (i + 1)..Len(q)
    <3>2. k \in i..Len(q) /\ k \in DOMAIN q /\ i \in DOMAIN q /\ k # i
      BY <1>3
    <3>3. q[k] # j
      BY <3>2, <1>3 DEF RL!Distinct, j
    <3> QED BY <3>2, <3>3, <2>1, <2>3 DEF Handles
  <2> QED BY <2>3, <2>4, <1>3 DEF Handles, QueueLoop, QueuePass, D, j
<1>6. QueueLoop(e, Len(q), QL!Folded(e, A, q))
  BY <1>3, <1>4, <1>5, QL!LoopInvariant
<1> QED BY <1>1, <1>2, <1>3, <1>6 DEF QueueLoop

\* Backfilling the jobs that have just come.
LEMMA BackfillNewDecides ==
  ASSUME NEW c, Knows(c), NEW A, Decides(c, A), NEW recent \in Seq(c.waits)
  PROVE  Decides(c, BackfillNew(A, recent))
<1> DEFINE e == [c |-> c, head |-> first_job(A.queue)]
           first == [dec |-> A, left |-> Cardinality(A.sched.profile[1].available)]
           F == NL!Folded(e, first, recent)
<1>1. BackfillNew(A, recent) = F.dec
  BY DEF BackfillNew, RecentPass, NL!Folded, NL!FoldLeft, NL!MapThenFoldSet,
         FoldLeft, MapThenFoldSet, NL!Max, Max
<1>2. e.c = c /\ first.dec = A
  OBVIOUS
<1> HIDE DEF e, first
<1>3. RecentLoop(e, 0, first)
  BY <1>2 DEF RecentLoop
<1>4. ASSUME NEW i \in 1..Len(recent), NEW R, RecentLoop(e, i - 1, R)
      PROVE  RecentLoop(e, i, RecentPass(e, R, recent[i]))
  <2> DEFINE j == recent[i]
             B == Backfill(R.dec, j)
             S == BackfillRecent(e.head, R, j)
  <2>1. j \in c.waits /\ Decides(c, R.dec)
    BY <1>2, <1>4 DEF RecentLoop
  <2>2. S.dec = B \/ S = R
    BY DEF BackfillRecent
  <2> HIDE DEF j
  <2>3. Decides(c, B)
    BY <2>1, BackfillDecides DEF Handles
  <2> HIDE DEF B, S
  <2>4. Decides(c, S.dec)
    BY <2>1, <2>2, <2>3
  <2> QED BY <2>4, <1>2 DEF RecentLoop, RecentPass, S, j
<1>5. RecentLoop(e, Len(recent), F)
  BY <1>3, <1>4, NL!LoopInvariant
<1> HIDE DEF F
<1> QED BY <1>1, <1>2, <1>5 DEF RecentLoop

\* A decision before it has considered any job.
Begun(c, A) ==
  /\ A = [sched |-> A.sched, queue |-> A.queue, executed |-> A.executed]
  /\ IsSchedule(A.sched) /\ A.sched.repair = c.repair
  /\ A.queue \in Seq(c.waits) /\ DOMAIN A.executed = {}
  /\ A.sched.ok =>
       /\ Firm(A.sched.profile, c.repair)
       /\ \A j \in c.running : Holds(A.sched.profile, j, c.on[j])

\* Sorting the queue with the plan of the priority job that follows from it.
LEMMA HeadDecides ==
  ASSUME NEW c, Knows(c), NEW A, Begun(c, A), NEW before, before # 0 => before \in c.waits
  PROVE  Decides(c, sort_queue_while_handling_priority_job(A, before))
<1> DEFINE B == [A EXCEPT !.queue = sort_queue(@)]
           C0 == [B EXCEPT !.sched = remove_job_if_exists(@, before)]
<1>1. /\ B = [sched |-> A.sched, queue |-> sort_queue(A.queue), executed |-> A.executed]
      /\ B.sched = A.sched /\ B.queue = sort_queue(A.queue) /\ B.executed = A.executed
  <2>1. A = [sched |-> A.sched, queue |-> A.queue, executed |-> A.executed]
    BY DEF Begun
  <2> QED BY <2>1
<1>2. sort_queue_while_handling_priority_job(A, before) =
        IF first_job(B.queue) = before THEN B
        ELSE RunHeads(IF before = 0 THEN B ELSE C0)
  BY DEF sort_queue_while_handling_priority_job
<1> HIDE DEF B
<1>3. IsQueue(c.waits, B.queue)
  <2>1. c.waits \in SUBSET Jobs /\ A.queue \in Seq(c.waits)
    BY DEF Knows, Begun
  <2> QED BY <2>1, <1>1, SortedIs
<1>4. Decides(c, B)
  <2>1. B = [sched |-> B.sched, queue |-> B.queue, executed |-> B.executed]
    BY <1>1
  <2> QED BY <2>1, <1>1, <1>3 DEF Begun, Decides
<1>5. before # 0 => Decides(c, C0)
  <2>1. C0 = [B EXCEPT !.sched = remove_job_if_exists(B.sched, before)]
    BY <1>1
  <2>2. before \notin DOMAIN B.executed
    BY <1>1 DEF Begun
  <2> HIDE DEF C0
  <2> QED BY <2>1, <2>2, <1>4, LeaveDecides
<1> HIDE DEF C0
<1>6. Decides(c, RunHeads(B)) /\ (before # 0 => Decides(c, RunHeads(C0)))
  BY <1>4, <1>5, RunHeadsDecides
<1> QED BY <1>2, <1>4, <1>6
-----------------------------------------------------------------------------
(* The failures that a decision of easy_bf2 handles.                        *)

\* The jobs that run and are not killed have their machines in the schedule,
\* and none of the machines under repair but ms.
Suffers(c, D, ms) ==
  /\ D = [sched |-> D.sched, kill |-> D.kill, repairs |-> D.repairs]
  /\ IsSchedule(D.sched) /\ Firm(D.sched.profile, D.sched.repair)
  /\ \A j \in c.running \ D.kill :
       /\ Holds(D.sched.profile, j, c.on[j])
       /\ c.on[j] \cap (D.sched.repair \ ms) = {}

FailPass(e, D, m) == FailOn(e.time, D, m)
FailLoop(e, i, D) == Suffers(e.c, D, {})
FL == INSTANCE Folding WITH Step <- FailPass, Inv <- FailLoop

\* Once the jobs on ms are killed, none of those left is on ms.
LEMMA KillSuffers ==
  ASSUME Reservations = {}, NEW c, c.running \subseteq Jobs, NEW ms,
         NEW D, Suffers(c, D, ms)
  PROVE  Suffers(c, KillJobsOn(D, ms), {})
<1> DEFINE out == get_jobs_running_on_machines(D.sched, ms)
           U == FoldLeft(remove_job_if_exists, D.sched, Ascending(out))
           K == KillJobsOn(D, ms)
<1>1. /\ IsSchedule(D.sched) /\ Firm(D.sched.profile, D.sched.repair)
      /\ D = [sched |-> D.sched, kill |-> D.kill, repairs |-> D.repairs]
  BY DEF Suffers
<1>2. /\ K = [sched |-> U, kill |-> D.kill \cup out, repairs |-> D.repairs]
      /\ K.sched = U /\ K.kill = D.kill \cup out /\ K.repairs = D.repairs
  <2>1. K = [D EXCEPT !.kill = D.kill \cup out, !.sched = U]
    BY DEF KillJobsOn
  <2> HIDE DEF K, U, out
  <2> QED BY <2>1, <1>1
<1>3. out \in SUBSET Jobs
  <2>1. D.sched.profile[1] \in SliceRecord
    BY <1>1 DEF IsSchedule, Offers, IsProfile
  <2>2. DOMAIN D.sched.profile[1].jobs \subseteq Jobs
    BY <2>1, FieldTypes
  <2> QED BY <2>2 DEF get_jobs_running_on_machines, OnMachines, RunningJobs
<1>4. ASSUME NEW j, NEW os, Holds(D.sched.profile, j, os), j \notin out
      PROVE  os \cap ms = {}
  BY <1>4 DEF Holds, Runs, get_jobs_running_on_machines, OnMachines, RunningJobs
<1> HIDE DEF out
<1>5. Becomes(D.sched, U, out)
  BY <1>1, <1>3, RemoveAll DEF Removed
<1> HIDE DEF U, K
<1>6. /\ IsSchedule(U) /\ U.repair = D.sched.repair /\ Firm(U.profile, U.repair)
      /\ FirstKept(D.sched.profile, U.profile, out)
  BY <1>1, <1>5 DEF Becomes, Keeps
<1>7. ASSUME NEW j \in c.running \ (D.kill \cup out)
      PROVE  Holds(U.profile, j, c.on[j]) /\ c.on[j] \cap U.repair = {}
  <2>1. Holds(D.sched.profile, j, c.on[j]) /\ c.on[j] \cap (D.sched.repair \ ms) = {}
    BY <1>7 DEF Suffers
  <2>2. c.on[j] \cap ms = {}
    BY <1>4, <1>7, <2>1
  <2>3. Holds(U.profile, j, c.on[j])
    BY <1>6, <1>7, <2>1 DEF FirstKept, Holds
  <2> QED BY <1>6, <2>1, <2>2, <2>3
<1>8. Suffers(c, K, {})
  <2>1. K = [sched |-> K.sched, kill |-> K.kill, repairs |-> K.repairs]
    BY <1>2
  <2> QED BY <2>1, <1>2, <1>6, <1>7 DEF Suffers
<1> QED BY <1>8 DEF K

\* What one failure does to the schedule and the running jobs.
LEMMA FailSuffers ==
  ASSUME Reservations = {}, NEW c, c.running \subseteq Jobs, NEW m \in Machines,
         NEW D, Suffers(c, D, {}), NEW time
  PROVE  Suffers(c, FailOn(time, D, m), {})
<1> DEFINE S == add_repair_machine(D.sched, {m})
           r == Append(D.repairs, m)
           U == [D EXCEPT !.sched = S, !.repairs = r]
<1>1. /\ IsSchedule(D.sched) /\ Firm(D.sched.profile, D.sched.repair)
      /\ D = [sched |-> D.sched, kill |-> D.kill, repairs |-> D.repairs]
  BY DEF Suffers
<1>2. \/ FailOn(time, D, m) = D
      \/ FailOn(time, D, m) = KillJobsOn(D, {m})
      \/ FailOn(time, D, m) = KillJobsOn(U, {m})
  <2>1. [D EXCEPT !.sched = add_repair_machine(@, {m}), !.repairs = Append(@, m)] = U
    BY <1>1
  <2> QED BY <2>1 DEF FailOn, on_machine_instant_down_up, on_machine_down_for_repair
<1>3. Suffers(c, KillJobsOn(D, {m}), {})
  <2>1. Suffers(c, D, {m})
    BY DEF Suffers
  <2> QED BY <2>1, KillSuffers
<1>4. /\ U = [sched |-> S, kill |-> D.kill, repairs |-> r]
      /\ U.sched = S /\ U.kill = D.kill /\ U.repairs = r
  <2> HIDE DEF S, r
  <2> DEFINE V == [D EXCEPT !.sched = S]
  <2>1. V = [sched |-> S, kill |-> D.kill, repairs |-> D.repairs]
    BY <1>1
  <2>2. U = [V EXCEPT !.repairs = r]
    BY Zenon
  <2> HIDE DEF V, U
  <2>3. U = [sched |-> S, kill |-> D.kill, repairs |-> r]
    BY <2>1, <2>2
  <2> QED BY <2>3
<1>5. Repairs(D.sched, D.sched.repair \cup {m}, S)
  BY <1>1, AddRepairMachine
<1> HIDE DEF S, U, r
<1>6. /\ IsSchedule(S) /\ S.repair = D.sched.repair \cup {m}
      /\ Firm(S.profile, S.repair) /\ FirstKept(D.sched.profile, S.profile, {})
  BY <1>1, <1>5 DEF Repairs
<1>7. Suffers(c, U, {m})
  <2>1. ASSUME NEW j \in c.running \ D.kill
        PROVE  Holds(S.profile, j, c.on[j]) /\ c.on[j] \cap (S.repair \ {m}) = {}
    <3>1. Holds(D.sched.profile, j, c.on[j]) /\ c.on[j] \cap (D.sched.repair \ {}) = {}
      BY <2>1 DEF Suffers
    <3>2. Holds(S.profile, j, c.on[j])
      BY <1>6, <2>1, <3>1 DEF FirstKept, Holds
    <3> QED BY <1>6, <3>1, <3>2
  <2>2. U = [sched |-> U.sched, kill |-> U.kill, repairs |-> U.repairs]
    BY <1>4
  <2> QED BY <2>1, <2>2, <1>4, <1>6 DEF Suffers
<1>8. Suffers(c, KillJobsOn(U, {m}), {})
  BY <1>7, KillSuffers
<1> QED BY <1>2, <1>3, <1>8

\* What the failures of these machines leave of the schedule S.
Failed(time, S, machines) ==
  FoldLeft(LAMBDA D, m : FailOn(time, D, m),
           [sched |-> S, kill |-> {}, repairs |-> << >>], machines)

\* What the failures of one message do.
LEMMA FailuresSuffer ==
  ASSUME Reservations = {}, NEW c, c.running \subseteq Jobs,
         NEW S, IsSchedule(S), Firm(S.profile, S.repair),
         \A j \in c.running : Holds(S.profile, j, c.on[j]) /\ c.on[j] \cap S.repair = {},
         NEW time, NEW machines \in Seq(Machines)
  PROVE  Suffers(c, Failed(time, S, machines), {})
<1> DEFINE e == [c |-> c, time |-> time]
           first == [sched |-> S, kill |-> {}, repairs |-> << >>]
           F == Failed(time, S, machines)
<1>1. F = FL!Folded(e, first, machines)
  BY DEF Failed, FailPass, FL!Folded, FL!FoldLeft, FL!MapThenFoldSet,
         FoldLeft, MapThenFoldSet, FL!Max, Max
<1>2. e.c = c /\ e.time = time
  OBVIOUS
<1> HIDE DEF e, F
<1>3. FailLoop(e, 0, first)
  BY <1>2 DEF FailLoop, Suffers
<1>4. ASSUME NEW i \in 1..Len(machines), NEW D, FailLoop(e, i - 1, D)
      PROVE  FailLoop(e, i, FailPass(e, D, machines[i]))
  BY <1>2, <1>4, FailSuffers DEF FailLoop, FailPass
<1>5. FailLoop(e, Len(machines), FL!Folded(e, first, machines))
  BY <1>3, <1>4, FL!LoopInvariant
<1> QED BY <1>1, <1>2, <1>5 DEF FailLoop, F
-----------------------------------------------------------------------------
(* The invariant of easy_bf and easy_bf2, without reservations.             *)

\* The jobs that a decision may start.
Waiting == InStatus("queued") \cup {j \in ToSet(released) : Acceptable(j)}

\* While no assertion has failed, the jobs that run have in the first slice the
\* machines that Batsim has given them; and at any time none of these is under
\* repair.
EasyInv ==
  /\ IsSchedule(sched)
  /\ sched.ok =>
       /\ Firm(sched.profile, sched.repair)
       /\ \A j \in InStatus("running") : Holds(sched.profile, j, on[j])
  /\ \A j \in InStatus("running") : on[j] \cap sched.repair = {}
  /\ queue \in Seq(InStatus("queued")) /\ released \in Seq(InStatus("released"))
  /\ ended \subseteq InStatus("done")
  /\ status = [j \in Jobs |-> status[j]] /\ clock \in Nat /\ deferred \in Nat

\* The invariant of easy_bf2 holds in the beginning.
LEMMA EasyInit == Init2 => EasyInv
<1> SUFFICES ASSUME Init2 PROVE EasyInv
  OBVIOUS
<1>1. /\ sched = NewSchedule(0) /\ queue = << >> /\ clock = 0 /\ released = << >>
      /\ ended = {} /\ status = [j \in Jobs |-> "todo"] /\ deferred = 0
  BY DEF Init2, Init
<1>2. InStatus("running") = {} /\ status = [j \in Jobs |-> status[j]]
  BY <1>1 DEF InStatus
<1>3. IsSchedule(sched) /\ Firm(sched.profile, sched.repair)
  <2> DEFINE S == NewSchedule(0)
  <2>1. IsSchedule(S) /\ S.repair = {} /\ Firm(S.profile, {})
    BY NewScheduleIs
  <2> HIDE DEF S
  <2>2. IsSchedule(S) /\ Firm(S.profile, S.repair)
    BY <2>1
  <2> QED BY <2>2, <1>1 DEF S
<1> QED BY <1>1, <1>2, <1>3 DEF EasyInv

\* What a decision starts from: A is what it has received, S the schedule.
Received(A, S) ==
  /\ A = [sched |-> A.sched, queue |-> A.queue, executed |-> A.executed]
  /\ IsSchedule(S) /\ S.repair = sched.repair /\ Firm(S.profile, S.repair)
  /\ \A j \in InStatus("running") : Holds(S.profile, j, on[j])
  /\ A.queue \in Seq(Waiting) /\ DOMAIN A.executed = {}

\* The jobs that wait, and those that have just been released.
LEMMA JobsAre ==
  ASSUME EasyInv
  PROVE  /\ Waiting \subseteq Jobs \ InStatus("running") /\ Accepted \in Seq(Waiting)
         /\ \A j \in ToSet(released) : j \in Jobs /\ status[j] = "released"
<1>1. \A j \in ToSet(released) : j \in Jobs /\ status[j] = "released"
  <2>1. released \in Seq(InStatus("released"))
    BY DEF EasyInv
  <2> QED BY <2>1 DEF ToSet, InStatus
<1>2. Waiting \subseteq Jobs \ InStatus("running")
  BY <1>1 DEF Waiting, InStatus
<1>3. Accepted \in Seq(Waiting)
  <2> DEFINE T == ToSet(released)
             ok == {j \in Jobs : Acceptable(j)}
  <2>1. released \in Seq(T)
    <3> DEFINE q == released
    <3>1. q = [k \in 1..Len(q) |-> q[k]] /\ Len(q) \in Nat /\ DOMAIN q = 1..Len(q)
      BY DEF EasyInv
    <3>2. q \in [1..Len(q) -> T]
      BY <3>1 DEF ToSet
    <3> QED BY <3>1, <3>2
  <2>2. T \cap ok \subseteq Waiting
    BY DEF Waiting
  <2> HIDE DEF T, ok
  <2>3. Only(released, ok) \in Seq(T \cap ok)
    BY <2>1, OnlyIs DEF Picks
  <2>4. Only(released, ok) \in Seq(Waiting)
    BY <2>2, <2>3
  <2> QED BY <2>4 DEF Accepted, ok
<1> QED BY <1>1, <1>2, <1>3

\* The state in which the decisions begin.
LEMMA ReceiveIs ==
  ASSUME EasyInv, sched.ok
  PROVE  Received(Receive(sched, queue), update_first_slice(Receive(sched, queue).sched, clock))
<1> DEFINE A == Receive(sched, queue)
           T == FoldLeft(remove_job, sched, Ascending(ended))
           S == update_first_slice(T, clock)
<1>1. /\ A = [sched |-> T, queue |-> queue \o Accepted, executed |-> NoJobs]
      /\ A.sched = T /\ A.queue = queue \o Accepted /\ A.executed = NoJobs
  BY DEF Receive
<1>2. ended \in SUBSET Jobs /\ ended \cap InStatus("running") = {}
  BY DEF EasyInv, InStatus
<1>3. Becomes(sched, T, ended)
  BY <1>2, RemoveAll DEF EasyInv, Removed
<1> HIDE DEF A, T
<1>4. Firm(sched.profile, sched.repair)
  BY DEF EasyInv
<1>5. /\ IsSchedule(T) /\ T.repair = sched.repair /\ Firm(T.profile, T.repair)
      /\ FirstKept(sched.profile, T.profile, ended)
  BY <1>3, <1>4 DEF Becomes, Keeps
<1>6. Moves(T, clock, S)
  <2>1. clock \in Int
    BY DEF EasyInv
  <2> QED BY <2>1, <1>5, UpdateFirstSlice
<1> HIDE DEF S
<1>7. /\ IsSchedule(S) /\ S.repair = sched.repair /\ Firm(S.profile, S.repair)
      /\ FirstKept(T.profile, S.profile, {})
  BY <1>5, <1>6 DEF Moves
<1>8. \A j \in InStatus("running") : Holds(S.profile, j, on[j])
  <2>1. TAKE j \in InStatus("running")
  <2>2. j \in Jobs /\ j \notin ended /\ Holds(sched.profile, j, on[j])
    BY <1>2 DEF EasyInv, InStatus
  <2>3. Holds(T.profile, j, on[j])
    BY <2>2, <1>5 DEF FirstKept, Holds
  <2> QED BY <2>2, <2>3, <1>7 DEF FirstKept, Holds
<1>9. A.queue \in Seq(Waiting)
  <2>1. queue \in Seq(Waiting)
    <3>1. InStatus("queued") \subseteq Waiting /\ queue \in Seq(InStatus("queued"))
      BY DEF Waiting, EasyInv
    <3> QED BY <3>1
  <2>2. Accepted \in Seq(Waiting)
    BY JobsAre
  <2>3. queue \o Accepted \in Seq(Waiting)
    BY <2>1, <2>2, ConcatProperties
  <2> QED BY <2>3, <1>1
<1>10. DOMAIN A.executed = {}
  BY <1>1 DEF NoJobs
<1>11. Received(A, S)
  <2>1. A = [sched |-> A.sched, queue |-> A.queue, executed |-> A.executed]
    BY <1>1
  <2> QED BY <2>1, <1>7, <1>8, <1>9, <1>10 DEF Received
<1>12. S = update_first_slice(A.sched, clock)
  BY <1>1 DEF S
<1> QED BY <1>11, <1>12 DEF A

\* What c says of the jobs at a decision that kills the jobs killed.
Deciding(c, killed) ==
  /\ c.running = InStatus("running") \ killed /\ c.waits = Waiting /\ c.on = on
  /\ \A j \in c.running : on[j] \cap c.repair = {}

\* The part of a decision that both algorithms have.
LEMMA PlanningDecides ==
  ASSUME EasyInv, NEW c, NEW killed, Deciding(c, killed), NEW A, Begun(c, A)
  PROVE  LET D == sort_queue_while_handling_priority_job(A, first_job(queue))
         IN Decides(c, IF ended = {} THEN BackfillNew(D, Accepted) ELSE BackfillAll(D))
<1> DEFINE before == first_job(queue)
           D == sort_queue_while_handling_priority_job(A, before)
<1>1. Knows(c) /\ Accepted \in Seq(c.waits)
  <2>1. InStatus("running") \subseteq Jobs
    BY DEF InStatus
  <2> QED BY <2>1, JobsAre DEF Deciding, Knows
<1>2. before # 0 => before \in c.waits
  <2>1. queue # << >> => Head(queue) \in InStatus("queued")
    BY DEF EasyInv
  <2> QED BY <2>1 DEF first_job, Waiting, Deciding
<1> HIDE DEF before
<1>3. Decides(c, D)
  BY <1>1, <1>2, HeadDecides
<1> HIDE DEF D
<1>4. Decides(c, BackfillNew(D, Accepted)) /\ Decides(c, BackfillAll(D))
  BY <1>1, <1>3, BackfillNewDecides, BackfillAllDecides
<1> QED BY <1>4 DEF D, before
\* The answer of the scheduler keeps the invariant.
LEMMA DecisionFits ==
  ASSUME EasyInv, NEW c, NEW killed, killed \subseteq InStatus("running"),
         Deciding(c, killed), NEW E, Decides(c, E), Reply(E),
         status' = [j \in Jobs |-> IF j \in killed THEN "done" ELSE StatusAfter(E)[j]],
         ended' = killed, clock' = clock, deferred' \in Nat
  PROVE  EasyInv'
<1> DEFINE x == E.executed
<1>1. /\ sched' = E.sched /\ queue' = E.queue /\ released' = << >>
      /\ \A j \in Jobs : on'[j] = IF j \in DOMAIN x THEN x[j] ELSE on[j]
  BY DEF Reply
<1>2. /\ IsSchedule(E.sched) /\ E.sched.repair = c.repair
      /\ E.queue \in Seq(c.waits) /\ DOMAIN x \subseteq c.waits
      /\ \A k \in DOMAIN E.queue : E.queue[k] \notin DOMAIN x
      /\ \A j \in DOMAIN x : x[j] \cap c.repair = {}
      /\ E.sched.ok =>
           /\ Firm(E.sched.profile, c.repair)
           /\ \A j \in c.running : Holds(E.sched.profile, j, on[j])
           /\ \A j \in DOMAIN x : Holds(E.sched.profile, j, x[j])
  BY DEF Decides, IsQueue, Deciding
<1>3. /\ c.waits = Waiting /\ c.running = InStatus("running") \ killed
      /\ \A j \in c.running : on[j] \cap c.repair = {}
      /\ Waiting \subseteq Jobs \ InStatus("running")
      /\ \A j \in ToSet(released) : j \in Jobs /\ status[j] = "released"
  BY JobsAre DEF Deciding
<1>4. ASSUME NEW j \in Jobs
      PROVE  status'[j] = IF j \in killed THEN "done"
                          ELSE IF j \in DOMAIN x THEN "running"
                          ELSE IF j \in ToSet(released) /\ ~Acceptable(j) THEN "rejected"
                          ELSE IF j \in ToSet(released) THEN "queued" ELSE status[j]
  BY DEF StatusAfter
<1> HIDE DEF x
<1>5. ASSUME NEW j \in InStatus("running")'
      PROVE  /\ j \in c.running \/ j \in DOMAIN x
             /\ j \in DOMAIN x => on'[j] = x[j]
             /\ j \notin DOMAIN x => on'[j] = on[j]
  <2>1. j \in Jobs /\ status'[j] = "running"
    BY <1>5 DEF InStatus
  <2>2. j \in DOMAIN x \/ (j \notin killed /\ status[j] = "running")
    BY <2>1, <1>4
  <2> QED BY <2>1, <2>2, <1>1, <1>3 DEF InStatus
<1>6. \A j \in InStatus("running")' : on'[j] \cap c.repair = {}
  <2>1. TAKE j \in InStatus("running")'
  <2> QED BY <1>2, <1>3, <1>5
<1>7. E.sched.ok => \A j \in InStatus("running")' : Holds(E.sched.profile, j, on'[j])
  <2>1. SUFFICES ASSUME E.sched.ok, NEW j \in InStatus("running")'
                 PROVE  Holds(E.sched.profile, j, on'[j])
    OBVIOUS
  <2>2. CASE j \in DOMAIN x
    BY <2>1, <2>2, <1>2, <1>5
  <2>3. CASE j \notin DOMAIN x
    BY <2>1, <2>3, <1>2, <1>5
  <2> QED BY <2>2, <2>3
<1>8. E.queue \in Seq(InStatus("queued")')
  <2> DEFINE q == E.queue
  <2>1. q = [k \in 1..Len(q) |-> q[k]] /\ Len(q) \in Nat /\ DOMAIN q = 1..Len(q)
    BY <1>2
  <2>2. \A k \in DOMAIN q : q[k] \in Waiting /\ q[k] \notin DOMAIN x
    BY <1>2, <1>3
  <2>3. \A j \in Waiting : j \notin DOMAIN x => j \in InStatus("queued")'
    <3>1. TAKE j \in Waiting
    <3>2. j \in Jobs /\ j \notin killed
      BY <1>3
    <3>3. j \in ToSet(released) => Acceptable(j)
      <4>1. j \in ToSet(released) => j \notin InStatus("queued")
        BY <1>3 DEF InStatus
      <4> QED BY <4>1 DEF Waiting
    <3>4. j \notin ToSet(released) => status[j] = "queued"
      BY DEF Waiting, InStatus
    <3>5. j \notin DOMAIN x => status'[j] = "queued"
      BY <3>2, <3>3, <3>4, <1>4
    <3> QED BY <3>2, <3>5 DEF InStatus
  <2> HIDE DEF q
  <2>4. q \in [1..Len(q) -> InStatus("queued")']
    BY <2>1, <2>2, <2>3
  <2>5. q \in Seq(InStatus("queued")')
    BY <2>1, <2>4
  <2> QED BY <2>5 DEF q
<1>9. killed \subseteq InStatus("done")'
  <2>1. \A j \in killed : j \in Jobs /\ status'[j] = "done"
    BY <1>4 DEF InStatus
  <2> QED BY <2>1 DEF InStatus
<1>10. status' = [j \in Jobs |-> status'[j]]
  OBVIOUS
<1>11. released' \in Seq(InStatus("released")') /\ clock' \in Nat
  BY <1>1 DEF EasyInv
<1>12. IsSchedule(sched')
  BY <1>1, <1>2
<1>13. sched'.ok =>
         /\ Firm(sched'.profile, sched'.repair)
         /\ \A j \in InStatus("running")' : Holds(sched'.profile, j, on'[j])
  BY <1>1, <1>2, <1>7
<1>14. \A j \in InStatus("running")' : on'[j] \cap sched'.repair = {}
  BY <1>1, <1>2, <1>6
<1>15. queue' \in Seq(InStatus("queued")') /\ ended' \subseteq InStatus("done")'
  BY <1>1, <1>8, <1>9
<1> QED BY <1>10, <1>11, <1>12, <1>13, <1>14, <1>15 DEF EasyInv

\* make_decisions of easy_bf keeps the invariant.
LEMMA make_decisionsFits ==
  ASSUME EasyInv, make_decisions, UNCHANGED deferred
  PROVE  EasyInv'
<1> DEFINE A == Receive(sched, queue)
           S == update_first_slice(A.sched, clock)
           B == [A EXCEPT !.sched = update_first_slice(@, clock)]
           D == sort_queue_while_handling_priority_job(B, first_job(queue))
           E == IF ended = {} THEN BackfillNew(D, Accepted) ELSE BackfillAll(D)
           c == [running |-> InStatus("running"), waits |-> Waiting, on |-> on,
                 repair |-> sched.repair]
<1>1. /\ Reply(E) /\ status' = StatusAfter(E) /\ ended' = {}
      /\ clock' = clock /\ sched.ok /\ deferred' = deferred
  BY DEF make_decisions
<1>2. Received(A, S)
  BY <1>1, ReceiveIs
<1> HIDE DEF A
<1>3. B = [sched |-> S, queue |-> A.queue, executed |-> A.executed]
  BY <1>2 DEF Received
<1> HIDE DEF S, B
<1>4. Deciding(c, {})
  <2>1. InStatus("running") = InStatus("running") \ {}
    OBVIOUS
  <2> QED BY <2>1 DEF Deciding, EasyInv
<1>5. Begun(c, B)
  <2>1. /\ B.sched = S /\ B.queue = A.queue /\ B.executed = A.executed
        /\ B = [sched |-> B.sched, queue |-> B.queue, executed |-> B.executed]
    BY <1>3
  <2>2. /\ IsSchedule(S) /\ S.repair = sched.repair /\ Firm(S.profile, S.repair)
        /\ \A j \in InStatus("running") : Holds(S.profile, j, on[j])
        /\ A.queue \in Seq(Waiting) /\ DOMAIN A.executed = {}
    BY <1>2 DEF Received
  <2>3. /\ c.running = InStatus("running") /\ c.waits = Waiting /\ c.on = on
        /\ c.repair = sched.repair
    OBVIOUS
  <2> HIDE DEF c
  <2>4. Firm(S.profile, c.repair)
    BY <2>2, <2>3
  <2>5. \A j \in c.running : Holds(S.profile, j, c.on[j])
    BY <2>2, <2>3
  <2> QED BY <2>1, <2>2, <2>3, <2>4, <2>5 DEF Begun
<1> HIDE DEF c
<1>6. Decides(c, E)
  BY <1>4, <1>5, PlanningDecides
<1> HIDE DEF D, E
<1>7. status' = [j \in Jobs |-> IF j \in {} THEN "done" ELSE StatusAfter(E)[j]]
  BY <1>1 DEF StatusAfter
<1>8. deferred' \in Nat /\ {} \subseteq InStatus("running")
  BY <1>1 DEF EasyInv
<1> QED BY <1>1, <1>4, <1>6, <1>7, <1>8, DecisionFits

\* make_decisions of easy_bf2 keeps the invariant.
LEMMA make_decisions2Fits ==
  ASSUME Reservations = {}, EasyInv, make_decisions2
  PROVE  EasyInv'
<1>1. PICK machines \in [1..deferred -> Machines] :
        LET A == Receive(sched, queue)
            F == HandleFailures([A EXCEPT !.sched = update_first_slice(@, clock)], machines)
            D == sort_queue_while_handling_priority_job(
                   [A EXCEPT !.sched = F.sched], first_job(queue))
            E == IF ended = {} THEN BackfillNew(D, Accepted) ELSE BackfillAll(D)
            killed == F.kill \cap InStatus("running")
        IN /\ sched.ok /\ Reply(E)
           /\ status' = [j \in Jobs |-> IF j \in killed THEN "done" ELSE StatusAfter(E)[j]]
           /\ ended' = killed /\ clock' = clock /\ deferred' = 0
  BY DEF make_decisions2
<1> DEFINE A == Receive(sched, queue)
           S == update_first_slice(A.sched, clock)
           B == [A EXCEPT !.sched = update_first_slice(@, clock)]
           F == HandleFailures(B, machines)
           G == [A EXCEPT !.sched = F.sched]
           D == sort_queue_while_handling_priority_job(G, first_job(queue))
           E == IF ended = {} THEN BackfillNew(D, Accepted) ELSE BackfillAll(D)
           killed == F.kill \cap InStatus("running")
           c0 == [running |-> InStatus("running"), on |-> on]
           c == [running |-> InStatus("running") \ killed, waits |-> Waiting, on |-> on,
                 repair |-> F.sched.repair]
<1>2. /\ sched.ok /\ Reply(E)
      /\ status' = [j \in Jobs |-> IF j \in killed THEN "done" ELSE StatusAfter(E)[j]]
      /\ ended' = killed /\ clock' = clock /\ deferred' = 0
  BY <1>1
<1>3. Received(A, S)
  BY <1>2, ReceiveIs
<1> HIDE DEF A
<1>4. B = [sched |-> S, queue |-> A.queue, executed |-> A.executed] /\ B.sched = S
  BY <1>3 DEF Received
<1> HIDE DEF S, B
<1>5. Suffers(c0, F, {})
  <2>1. F = Failed(repair_time, B.sched, machines)
    BY DEF HandleFailures, Failed, FoldLeft, MapThenFoldSet
  <2>2. machines \in Seq(Machines)
    <3>1. deferred \in Nat
      BY DEF EasyInv
    <3> QED BY <3>1
  <2>3. c0.running = InStatus("running") /\ c0.on = on /\ c0.running \subseteq Jobs
    BY DEF InStatus
  <2> HIDE DEF c0, F
  <2>4. IsSchedule(B.sched) /\ Firm(B.sched.profile, B.sched.repair)
    BY <1>3, <1>4 DEF Received
  <2>5. \A j \in c0.running :
          Holds(B.sched.profile, j, c0.on[j]) /\ c0.on[j] \cap B.sched.repair = {}
    BY <2>3, <1>3, <1>4 DEF Received, EasyInv
  <2>6. Suffers(c0, Failed(repair_time, B.sched, machines), {})
    BY <2>2, <2>3, <2>4, <2>5, FailuresSuffer
  <2> QED BY <2>1, <2>6
<1> HIDE DEF F
<1>6. /\ IsSchedule(F.sched) /\ Firm(F.sched.profile, F.sched.repair)
      /\ \A j \in InStatus("running") \ killed :
           Holds(F.sched.profile, j, on[j]) /\ on[j] \cap F.sched.repair = {}
  <2>1. c0.running = InStatus("running") /\ c0.on = on
    OBVIOUS
  <2>2. \A j : j \in InStatus("running") \ killed => j \in c0.running \ F.kill
    BY <2>1
  <2> HIDE DEF c0, killed
  <2> QED BY <2>1, <2>2, <1>5 DEF Suffers
<1> HIDE DEF c0
<1>7. G = [sched |-> F.sched, queue |-> A.queue, executed |-> A.executed]
  BY <1>3 DEF Received
<1> HIDE DEF G
<1>8. killed \subseteq InStatus("running")
  OBVIOUS
<1> HIDE DEF killed
<1>9. /\ c.running = InStatus("running") \ killed /\ c.waits = Waiting /\ c.on = on
      /\ c.repair = F.sched.repair
  OBVIOUS
<1> HIDE DEF c
<1>10. Deciding(c, killed)
  BY <1>6, <1>9 DEF Deciding
<1>11. Begun(c, G)
  <2>1. /\ G.sched = F.sched /\ G.queue = A.queue /\ G.executed = A.executed
        /\ G = [sched |-> G.sched, queue |-> G.queue, executed |-> G.executed]
    BY <1>7
  <2>2. A.queue \in Seq(Waiting) /\ DOMAIN A.executed = {}
    BY <1>3 DEF Received
  <2>3. Firm(F.sched.profile, c.repair)
    BY <1>6, <1>9
  <2>4. \A j \in c.running : Holds(F.sched.profile, j, c.on[j])
    BY <1>6, <1>9
  <2> QED BY <2>1, <2>2, <2>3, <2>4, <1>6, <1>9 DEF Begun
<1>12. Decides(c, E)
  BY <1>10, <1>11, PlanningDecides
<1> HIDE DEF D, E
<1>13. deferred' \in Nat
  BY <1>2
<1> QED BY <1>2, <1>8, <1>10, <1>12, <1>13, DecisionFits

\* The submission of a job keeps the invariant.
LEMMA SubmitFits ==
  ASSUME EasyInv, NEW j \in Jobs, Submit(j), UNCHANGED deferred
  PROVE  EasyInv'
<1>1. /\ status[j] = "todo" /\ status' = [status EXCEPT ![j] = "released"]
      /\ released' = Append(released, j)
      /\ UNCHANGED <<sched, queue, clock, began, on, ended, deferred>>
  BY DEF Submit
<1>2. /\ released \in Seq(InStatus("released")) /\ status = [k \in Jobs |-> status[k]]
  BY DEF EasyInv
<1>3. /\ status' = [k \in Jobs |-> status'[k]]
      /\ \A k \in Jobs : status'[k] = IF k = j THEN "released" ELSE status[k]
  BY <1>1, <1>2
<1>4. /\ InStatus("running")' = InStatus("running")
      /\ InStatus("queued")' = InStatus("queued") /\ InStatus("done")' = InStatus("done")
      /\ InStatus("released")' = InStatus("released") \cup {j}
  BY <1>1, <1>3 DEF InStatus
<1>5. released' \in Seq(InStatus("released")')
  <2>1. released \in Seq(InStatus("released") \cup {j})
    BY <1>2
  <2> QED BY <2>1, <1>1, <1>4
<1> QED BY <1>1, <1>3, <1>4, <1>5 DEF EasyInv

\* The end of a job keeps the invariant.
LEMMA EndFits ==
  ASSUME EasyInv, NEW j \in Jobs, End(j), UNCHANGED deferred
  PROVE  EasyInv'
<1>1. /\ status[j] = "running" /\ status' = [status EXCEPT ![j] = "done"]
      /\ ended' = ended \cup {j}
      /\ UNCHANGED <<sched, queue, clock, began, on, released, deferred>>
  BY DEF End
<1>2. ended \subseteq InStatus("done") /\ status = [k \in Jobs |-> status[k]]
  BY DEF EasyInv
<1>3. /\ status' = [k \in Jobs |-> status'[k]]
      /\ \A k \in Jobs : status'[k] = IF k = j THEN "done" ELSE status[k]
  BY <1>1, <1>2
<1>4. /\ InStatus("running")' \subseteq InStatus("running")
      /\ InStatus("queued")' = InStatus("queued")
      /\ InStatus("released")' = InStatus("released")
      /\ InStatus("done")' = InStatus("done") \cup {j}
  BY <1>1, <1>3 DEF InStatus
<1> QED BY <1>1, <1>2, <1>3, <1>4 DEF EasyInv

\* Only the machines under repair change when a call of Batsim arrives.
LEMMA CallFits ==
  ASSUME EasyInv, NEW t \in timers, on_requested_call(t)
  PROVE  EasyInv'
<1>1. /\ sched.ok
      /\ Failure(t) \/ RepairDone(t)
      /\ UNCHANGED <<queue, clock, status, began, on, released, ended>>
  BY DEF on_requested_call, batsim
<1>2. \A s : InStatus(s)' = InStatus(s)
  BY <1>1 DEF InStatus
<1>3. CASE Failure(t)
  <2>1. sched' = sched /\ (deferred' = deferred + 1 \/ deferred' = deferred)
    BY <1>3 DEF Failure
  <2>2. deferred' \in Nat
    BY <2>1 DEF EasyInv
  <2> QED BY <2>1, <2>2, <1>1, <1>2 DEF EasyInv
<1>4. CASE RepairDone(t)
  <2> DEFINE S == remove_repair_machines(sched, {t.id})
  <2>1. sched' = S /\ deferred' = deferred
    BY <1>4 DEF RepairDone
  <2>2. Repairs(sched, sched.repair \ {t.id}, S)
    BY RemoveRepairMachines DEF EasyInv
  <2> HIDE DEF S
  <2>3. /\ IsSchedule(S) /\ S.repair = sched.repair \ {t.id} /\ S.ok = sched.ok
        /\ Firm(S.profile, S.repair) /\ FirstKept(sched.profile, S.profile, {})
    BY <2>2, <1>1 DEF Repairs, EasyInv
  <2>4. \A j \in InStatus("running") : Holds(S.profile, j, on[j])
    <3>1. \A j \in InStatus("running") : j \in Jobs /\ Holds(sched.profile, j, on[j])
      BY <1>1 DEF EasyInv, InStatus
    <3> QED BY <3>1, <2>3 DEF FirstKept, Holds
  <2>5. \A j \in InStatus("running") : on[j] \cap S.repair = {}
    BY <2>3 DEF EasyInv
  <2> QED BY <2>1, <2>3, <2>4, <2>5, <1>1, <1>2 DEF EasyInv
<1> QED BY <1>1, <1>3, <1>4

\* Every step of easy_bf2 keeps the invariant.
LEMMA EasyStep ==
  ASSUME Reservations = {}, EasyInv, [Next2]_vars2
  PROVE  EasyInv'
<1>1. ASSUME UNCHANGED <<sched, queue, status, on, released, ended, deferred>>,
             clock' \in Nat
      PROVE  EasyInv'
  BY <1>1 DEF EasyInv, InStatus
<1>2. ASSUME Tick, UNCHANGED deferred PROVE EasyInv'
  <2>1. clock' \in Nat
    BY <1>2 DEF Tick, EasyInv
  <2> QED BY <2>1, <1>1, <1>2 DEF Tick
<1>3. CASE UNCHANGED vars2
  <2>1. clock' \in Nat
    BY <1>3 DEF vars2, vars, EasyInv
  <2> QED BY <2>1, <1>1, <1>3 DEF vars2, vars, faults
<1>4. CASE algorithm = "easy_bf" /\ Next /\ UNCHANGED faults
  <2>1. UNCHANGED deferred
    BY <1>4 DEF faults
  <2>2. ASSUME NEW j \in Jobs, Submit(j) \/ End(j) PROVE EasyInv'
    BY <2>1, <2>2, SubmitFits, EndFits
  <2>3. CASE Tick
    BY <2>1, <2>3, <1>2
  <2>4. CASE make_decisions
    BY <2>1, <2>4, make_decisionsFits
  <2> QED BY <1>4, <2>2, <2>3, <2>4 DEF Next
<1>5. ASSUME NEW j \in Jobs, (Submit(j) \/ End(j)) /\ UNCHANGED faults PROVE EasyInv'
  BY <1>5, SubmitFits, EndFits DEF faults
<1>6. CASE NoMoreStatic
  <2>1. clock' \in Nat
    BY <1>6 DEF NoMoreStatic, vars, EasyInv
  <2> QED BY <2>1, <1>1, <1>6 DEF NoMoreStatic, vars
<1>7. ASSUME NEW t \in timers, on_requested_call(t) PROVE EasyInv'
  BY <1>7, CallFits
<1>8. CASE Tick2
  BY <1>2, <1>8 DEF Tick2, faults
<1>9. CASE make_decisions2
  BY <1>9, make_decisions2Fits
<1> QED BY <1>3, <1>4, <1>5, <1>6, <1>7, <1>8, <1>9 DEF Next2

\* The invariant always holds, whichever of the two algorithms runs.
THEOREM EasyFits ==
  ASSUME Reservations = {}
  PROVE  Spec2 => []EasyInv
<1>1. EasyInv /\ [Next2]_vars2 => EasyInv'
  BY EasyStep
<1> QED BY EasyInit, <1>1, PTL DEF Spec2

\* A machine that fails takes its jobs with it, and is given to no other before
\* it leaves the list of machines under repair.
THEOREM NoJobOnRepair ==
  ASSUME Reservations = {}
  PROVE  Spec2 => []RunsOnWorkingMachines
<1>1. EasyInv => RunsOnWorkingMachines
  BY DEF EasyInv, RunsOnWorkingMachines
<1> QED BY <1>1, EasyFits, PTL

\* While no assertion has failed, the schedule agrees with Batsim on the jobs
\* that run and on their machines.
THEOREM ScheduleAgrees ==
  ASSUME Reservations = {}
  PROVE  Spec2 => []RunningAgrees
<1>1. EasyInv => RunningAgrees
  BY DEF EasyInv, RunningAgrees, Holds, Runs, RunningJobs
<1> QED BY <1>1, EasyFits, PTL
-----------------------------------------------------------------------------
(* The calendar that the schedule implements.                               *)

AllocationRecords == [begin : Int, end : Int, machines : SUBSET Machines]

CalendarTyped ==
  /\ today \in Nat /\ repair \subseteq Machines
  /\ DOMAIN alloc \subseteq Jobs
  /\ alloc \in [DOMAIN alloc -> AllocationRecords]

\* The invariant is inductive with the types of the allocations: an addition takes
\* free machines, a reservation takes out the jobs in its way, and the passing of
\* time only shortens what has begun.
CalendarInv == CalendarTyped /\ NoOverlap

\* Taking allocations away keeps the others, and what they promise.
LEMMA CalendarLoses ==
  ASSUME CalendarInv, NEW out, alloc' = [k \in Allocated \ out |-> alloc[k]],
         today' \in Nat, repair' \subseteq Machines
  PROVE  CalendarInv'
  BY DEF CalendarInv, CalendarTyped, NoOverlap, Allocated, Overlaps

\* The allocation with one more job, which overlaps none of the others.
LEMMA CalendarGains ==
  ASSUME CalendarInv, NEW j \in Jobs, j \notin Allocated,
         NEW a \in AllocationRecords, NEW out,
         alloc' = With([k \in Allocated \ out |-> alloc[k]], j, a),
         \A k \in Allocated \ out :
           alloc[k].machines \cap a.machines # {} => ~Overlaps(alloc[k], a.begin, a.end),
         today' \in Nat, repair' \subseteq Machines
  PROVE  CalendarInv'
<1> DEFINE D == (Allocated \ out) \cup {j}
<1>1. /\ alloc' = [k \in D |-> IF k = j THEN a ELSE alloc[k]]
      /\ DOMAIN alloc' = D
  BY DEF With, Allocated
<1>2. CalendarTyped'
  BY <1>1 DEF CalendarInv, CalendarTyped, Allocated
<1>3. ASSUME NEW i \in D, NEW k \in D, i # k,
             alloc'[i].machines \cap alloc'[k].machines # {}
      PROVE  ~Overlaps(alloc'[i], alloc'[k].begin, alloc'[k].end)
  <2>1. CASE i = j
    BY <1>1, <1>3, <2>1 DEF Overlaps, CalendarInv, CalendarTyped, Allocated, AllocationRecords
  <2>2. CASE k = j
    BY <1>1, <1>3, <2>2 DEF Overlaps, CalendarInv, CalendarTyped, Allocated, AllocationRecords
  <2>3. CASE i # j /\ k # j
    BY <1>1, <1>3, <2>3 DEF Overlaps, CalendarInv, NoOverlap, Allocated
  <2> QED BY <2>1, <2>2, <2>3
<1>4. NoOverlap'
  BY <1>1, <1>3 DEF NoOverlap, Allocated, Overlaps
<1> QED BY <1>2, <1>4 DEF CalendarInv

\* A fresh schedule satisfies the invariant.
LEMMA CalendarStarts == CalendarInit => CalendarInv
  BY DEF CalendarInit, CalendarInv, CalendarTyped, NoOverlap, Allocated, Overlaps

\* A job is added on machines that are free for its whole duration.
LEMMA AddFromKeeps ==
  ASSUME ConstantsTyped, CalendarInv, NEW j \in Jobs, NEW d \in Nat, AddFrom(j, d)
  PROVE  CalendarInv'
<1>1. PICK b \in d..Forever : \E ms \in SUBSET Free(b, EndOf(j, b)) :
        alloc' = With(alloc, j, [begin |-> b, end |-> EndOf(j, b), machines |-> ms])
  BY DEF AddFrom
<1>2. PICK ms \in SUBSET Free(b, EndOf(j, b)) :
        alloc' = With(alloc, j, [begin |-> b, end |-> EndOf(j, b), machines |-> ms])
  BY <1>1
<1> DEFINE a == [begin |-> b, end |-> EndOf(j, b), machines |-> ms]
<1>3. b \in Int /\ EndOf(j, b) \in Int
  BY PlatformAssumption DEF ConstantsTyped, EndOf
<1>4. a \in AllocationRecords
  BY <1>3 DEF AllocationRecords, Free
<1>5. alloc' = With([k \in Allocated \ {} |-> alloc[k]], j, a)
  BY <1>2 DEF With, Allocated
<1>6. \A k \in Allocated \ {} :
        alloc[k].machines \cap a.machines # {} => ~Overlaps(alloc[k], a.begin, a.end)
  BY DEF Free
<1>7. j \notin Allocated /\ today' \in Nat /\ repair' \subseteq Machines
  BY DEF AddFrom, CalendarInv, CalendarTyped
<1> QED BY <1>4, <1>5, <1>6, <1>7, CalendarGains

\* add_job_first_fit keeps the invariant.
LEMMA AddKeeps ==
  ASSUME ConstantsTyped, CalendarInv, NEW j \in Jobs, Add(j)
  PROVE  CalendarInv'
<1>1. (IF earliest[j] > today THEN earliest[j] ELSE today) \in Nat
  BY PlatformAssumption DEF ConstantsTyped, CalendarInv, CalendarTyped
<1> QED BY <1>1, AddFromKeeps DEF Add

\* remove_job keeps the invariant.
LEMMA TakeOutKeeps ==
  ASSUME CalendarInv, NEW j \in Jobs, TakeOut(j)
  PROVE  CalendarInv'
  BY CalendarLoses DEF TakeOut, CalendarInv, CalendarTyped

\* A reservation takes out every job that overlaps it on one of its machines.
LEMMA ReserveKeeps ==
  ASSUME ConstantsTyped, CalendarInv, NEW r \in Reservations, Reserve(r)
  PROVE  CalendarInv'
<1> DEFINE e == planned[r] + walltime[r]
           inTheWay(ms) == {j \in Allocated : /\ alloc[j].machines \cap ms # {}
                                              /\ Overlaps(alloc[j], planned[r], e)}
<1>1. PICK ms \in SUBSET Machines, out \in SUBSET (Allocated \ Reservations) :
        /\ inTheWay(ms) \subseteq out
        /\ alloc' = With([k \in Allocated \ out |-> alloc[k]], r,
                         [begin |-> planned[r], end |-> e, machines |-> ms])
  BY DEF Reserve
<1> DEFINE a == [begin |-> planned[r], end |-> e, machines |-> ms]
<1>2. r \in Jobs /\ a \in AllocationRecords
  BY PlatformAssumption DEF ConstantsTyped, AllocationRecords
<1>3. \A k \in Allocated \ out :
        alloc[k].machines \cap a.machines # {} => ~Overlaps(alloc[k], a.begin, a.end)
  BY <1>1
<1>4. r \notin Allocated /\ today' \in Nat /\ repair' \subseteq Machines
  BY DEF Reserve, CalendarInv, CalendarTyped
<1> QED BY <1>1, <1>2, <1>3, <1>4, CalendarGains

\* What has begun is shortened to what is left of it.
LEMMA PassKeeps ==
  ASSUME ConstantsTyped, CalendarInv, Pass
  PROVE  CalendarInv'
<1>1. PICK t \in (today + 1)..Forever :
        /\ alloc' = [j \in Allocated |->
                       [alloc[j] EXCEPT !.begin = IF @ < t THEN t ELSE @]]
        /\ today' = t /\ UNCHANGED <<repair, failed>>
  BY DEF Pass
<1>2. t \in Nat
  BY PlatformAssumption DEF ConstantsTyped, CalendarInv, CalendarTyped
<1>3. DOMAIN alloc' = Allocated
  BY <1>1
<1>4. ASSUME NEW j \in Allocated
      PROVE  /\ alloc[j] \in AllocationRecords
             /\ alloc'[j] \in AllocationRecords
             /\ alloc'[j].machines = alloc[j].machines
             /\ alloc'[j].end = alloc[j].end
             /\ alloc'[j].begin >= alloc[j].begin
  <2>1. alloc[j] \in AllocationRecords
    BY DEF CalendarInv, CalendarTyped, Allocated
  <2>2. alloc'[j] = [alloc[j] EXCEPT !.begin = IF @ < t THEN t ELSE @]
    BY <1>1
  <2> QED BY <2>1, <2>2, <1>2 DEF AllocationRecords
<1>5. CalendarTyped'
  BY <1>1, <1>2, <1>3, <1>4 DEF CalendarInv, CalendarTyped, Allocated
<1>6. ASSUME NEW j \in Allocated, NEW k \in Allocated, j # k,
             alloc'[j].machines \cap alloc'[k].machines # {}
      PROVE  ~Overlaps(alloc'[j], alloc'[k].begin, alloc'[k].end)
  <2>1. ~Overlaps(alloc[j], alloc[k].begin, alloc[k].end)
    BY <1>4, <1>6 DEF CalendarInv, NoOverlap
  <2> QED BY <2>1, <1>4 DEF Overlaps, AllocationRecords
<1>7. NoOverlap'
  BY <1>3, <1>6 DEF NoOverlap, Allocated, Overlaps
<1> QED BY <1>5, <1>7 DEF CalendarInv

\* A machine that goes down keeps the invariant.
LEMMA DownKeeps ==
  ASSUME CalendarInv, NEW m \in Machines, Down(m)
  PROVE  CalendarInv'
<1>1. PICK out : alloc' = [j \in Allocated \ out |-> alloc[j]]
  BY DEF Down
<1>2. today' \in Nat /\ repair' \subseteq Machines
  BY DEF Down, CalendarInv, CalendarTyped
<1> QED BY <1>1, <1>2, CalendarLoses

\* A machine that comes back keeps the invariant.
LEMMA UpKeeps ==
  ASSUME CalendarInv, NEW m \in Machines, Up(m)
  PROVE  CalendarInv'
  BY DEF Up, CalendarInv, CalendarTyped, NoOverlap, Allocated, Overlaps

\* Whatever the jobs, the machines and the calls, no machine is given to two
\* jobs for periods that overlap: what the slices of schedule.cpp implement.
THEOREM CalendarSound ==
  ASSUME ConstantsTyped
  PROVE  CalendarSpec => []NoOverlap
<1>1. CalendarInv /\ [CalendarNext]_calendarVars => CalendarInv'
  <2> SUFFICES ASSUME CalendarInv, [CalendarNext]_calendarVars
               PROVE  CalendarInv'
    OBVIOUS
  <2>1. ASSUME NEW j \in Jobs, Add(j)
        PROVE  CalendarInv'
    BY <2>1, AddKeeps
  <2>2. ASSUME NEW j \in Jobs, TakeOut(j)
        PROVE  CalendarInv'
    BY <2>2, TakeOutKeeps
  <2>3. ASSUME NEW r \in Reservations, Reserve(r)
        PROVE  CalendarInv'
    BY <2>3, ReserveKeeps
  <2>4. ASSUME NEW m \in Machines, Down(m)
        PROVE  CalendarInv'
    BY <2>4, DownKeeps
  <2>5. ASSUME NEW m \in Machines, Up(m)
        PROVE  CalendarInv'
    BY <2>5, UpKeeps
  <2>6. CASE Pass
    BY <2>6, PassKeeps
  <2>7. CASE UNCHANGED calendarVars
    BY <2>7 DEF calendarVars, CalendarInv, CalendarTyped, NoOverlap, Allocated, Overlaps
  <2> QED BY <2>1, <2>2, <2>3, <2>4, <2>5, <2>6, <2>7 DEF CalendarNext
<1>2. CalendarInv => NoOverlap
  BY DEF CalendarInv
<1> QED BY <1>1, <1>2, CalendarStarts, PTL DEF CalendarSpec
-----------------------------------------------------------------------------
(* The schedule implements the calendar: the slices of a job make up its    *)
(* allocation.  A machine that first fit finds in the slices of an anchor   *)
(* is held by no allocation that overlaps with them; and where enough       *)
(* machines are free in the calendar there is an anchor.                    *)

\* Later slices begin and end later, and only after the ones before have ended.
LEMMA DatesFollow ==
  ASSUME NEW p, IsProfile(p), Timed(p), NEW x \in DOMAIN p, NEW y \in DOMAIN p, x <= y
  PROVE  /\ p[x].begin <= p[y].begin /\ p[x].end <= p[y].end
         /\ x < y => p[x].end <= p[y].begin
         /\ p[y].begin \in Int /\ p[y].end \in Int /\ p[y].end <= Horizon
<1>1. /\ Len(p) \in Nat /\ DOMAIN p = 1..Len(p) /\ x \in Int /\ y \in Int
      /\ \A z \in DOMAIN p : p[z].begin \in Int /\ p[z].end \in Int
  BY FieldTypes DEF IsProfile
<1>2. y \in x..Len(p)
  BY <1>1
<1>3. p[x].end <= p[y].end /\ p[y].end <= Horizon
  BY <1>2, DatesGrow DEF Timed
<1>4. CASE x = y
  BY <1>1, <1>3, <1>4
<1>5. CASE x < y
  <2>1. y \in 2..Len(p) /\ y - 1 \in DOMAIN p /\ y - 1 \in x..Len(p)
    BY <1>1, <1>5
  <2>2. p[y].begin = p[y - 1].end
    BY <2>1 DEF Timed
  <2>3. p[x].begin <= p[y - 1].end /\ p[x].end <= p[y - 1].end
    BY <2>1, DatesGrow
  <2> QED BY <1>1, <1>3, <2>2, <2>3
<1> QED BY <1>1, <1>4, <1>5

\* The machines that work and that no job of the profile holds between b and e.
Spare(p, rp, b, e) ==
  {m \in Machines \ rp : \A j \in Jobs :
     IsPlanned(p, j) /\ m \in PeriodOf(p, j).machines
       => ~C!Overlaps(PeriodOf(p, j), b, e)}

\* A machine that is available in slices that last until e is spare.
LEMMA AvailableIsSpare ==
  ASSUME NEW p, NEW rp, Firm(p, rp), Timed(p), NEW i \in DOMAIN p, NEW k \in i..Len(p),
         NEW m \in Machines, \A x \in i..k : m \in p[x].available,
         NEW e \in Int, e <= p[k].end
  PROVE  m \in Spare(p, rp, p[i].begin, e)
<1>1. /\ IsProfile(p) /\ Steady(p) /\ Len(p) \in Nat /\ DOMAIN p = 1..Len(p)
      /\ i \in Int /\ k \in Int /\ i <= k /\ i \in i..k /\ k \in DOMAIN p
      /\ \A x \in DOMAIN p : SliceSound(p[x], rp)
      /\ \A x \in DOMAIN p : p[x].begin \in Int /\ p[x].end \in Int
  BY FieldTypes DEF Firm, Sound, IsProfile
<1>2. m \notin rp
  <2>1. m \in p[i].available /\ p[i].available \cap rp = {}
    BY <1>1 DEF SliceSound
  <2> QED BY <2>1
<1>3. ASSUME NEW j \in Jobs, IsPlanned(p, j), m \in PeriodOf(p, j).machines,
             C!Overlaps(PeriodOf(p, j), p[i].begin, e)
      PROVE  FALSE
  <2>1. PICK f, l \in DOMAIN p : Fills(p, j, f, l)
    BY <1>1, <1>3, SomeFilled
  <2>2. PeriodOf(p, j) = [begin |-> p[f].begin, end |-> p[l].end, machines |-> p[f].jobs[j]]
    BY <1>1, <2>1, PeriodIs
  <2>3. p[f].begin < e /\ p[i].begin < p[l].end /\ m \in p[f].jobs[j]
    BY <1>3, <2>2 DEF C!Overlaps
  <2>4. f \in Int /\ l \in Int /\ f <= l /\ \A x \in DOMAIN p : Runs(p, j, x) <=> x \in f..l
    BY <1>1, <2>1 DEF Fills
  <2>5. f <= k
    <3>1. k < f => p[k].end <= p[f].begin
      BY <1>1, DatesFollow
    <3> QED BY <3>1, <1>1, <2>3, <2>4
  <2>6. i <= l
    <3>1. l < i => p[l].end <= p[i].begin
      BY <1>1, DatesFollow
    <3> QED BY <3>1, <1>1, <2>3, <2>4
  <2>7. PICK y \in DOMAIN p : y \in i..k /\ y \in f..l
    <3>1. CASE f <= i
      BY <3>1, <1>1, <2>4, <2>6
    <3>2. CASE i <= f
      BY <3>2, <1>1, <2>4, <2>5
    <3> QED BY <3>1, <3>2, <1>1, <2>4
  <2>8. Runs(p, j, y) /\ Runs(p, j, f) /\ f \in DOMAIN p
    BY <2>4, <2>7
  <2>9. p[y].jobs[j] = p[f].jobs[j]
    BY <1>1, <2>8 DEF Steady
  <2>10. m \in p[y].available /\ p[y].jobs[j] \cap p[y].available = {}
    BY <1>1, <2>7, <2>8 DEF SliceSound, Runs
  <2> QED BY <2>3, <2>9, <2>10
<1> QED BY <1>2, <1>3 DEF Spare

\* A machine that is spare between c and e is available in a slice in between,
\* when no machine is or has been under repair.
LEMMA SpareIsAvailable ==
  ASSUME NEW p, Firm(p, {}), Exact(p), Timed(p), NEW c \in Int, NEW e \in Int,
         NEW m \in Spare(p, {}, c, e), NEW y \in DOMAIN p, p[y].begin < e, c < p[y].end
  PROVE  m \in p[y].available
<1>1. /\ IsProfile(p) /\ Steady(p) /\ m \in Machines /\ SliceExact(p[y])
      /\ Len(p) \in Nat /\ DOMAIN p = 1..Len(p)
      /\ \A x \in DOMAIN p : p[x].begin \in Int /\ p[x].end \in Int
      /\ DOMAIN p[y].jobs \subseteq Jobs
  BY FieldTypes DEF Firm, Sound, Exact, IsProfile, Spare
<1>2. ASSUME NEW j \in DOMAIN p[y].jobs, m \in p[y].jobs[j]
      PROVE  FALSE
  <2>1. j \in Jobs /\ IsPlanned(p, j) /\ Runs(p, j, y)
    BY <1>1 DEF IsPlanned, Runs
  <2>2. PICK f, l \in DOMAIN p : Fills(p, j, f, l)
    BY <1>1, <2>1, SomeFilled
  <2>3. PeriodOf(p, j) = [begin |-> p[f].begin, end |-> p[l].end, machines |-> p[f].jobs[j]]
    BY <1>1, <2>2, PeriodIs
  <2>4. f <= y /\ y <= l /\ Runs(p, j, f)
    <3>1. y \in f..l /\ f \in Int /\ l \in Int /\ f <= l
      BY <1>1, <2>1, <2>2 DEF Fills
    <3>2. f \in f..l
      BY <3>1
    <3> QED BY <3>1, <3>2, <2>2 DEF Fills
  <2>5. p[f].begin <= p[y].begin /\ p[y].end <= p[l].end
    BY <1>1, <2>4, DatesFollow
  <2>6. p[f].begin < e /\ c < p[l].end
    BY <1>1, <2>5
  <2>7. m \in p[f].jobs[j]
    BY <1>1, <1>2, <2>1, <2>4 DEF Steady
  <2>8. m \in PeriodOf(p, j).machines /\ C!Overlaps(PeriodOf(p, j), c, e)
    BY <2>3, <2>6, <2>7 DEF C!Overlaps
  <2> QED BY <2>1, <2>8 DEF Spare
<1> QED BY <1>1, <1>2 DEF SliceExact

\* Job j may start at date c, as the calendar says it.
MayStart(p, rp, j, c) ==
  /\ C!EndOf(j, c) <= Horizon
  /\ Cardinality(Spare(p, rp, c, C!EndOf(j, c))) >= nb_requested_resources[j]

\* A job that starts at b ends when it has had its walltime.
LEMMA EndOfIs ==
  ASSUME NEW j \in Jobs, NEW b \in Int
  PROVE  /\ WalltimeFrom(walltime[j], b) \in Int /\ C!EndOf(j, b) \in Int
         /\ C!EndOf(j, b) = b + WalltimeFrom(walltime[j], b)
         /\ walltime[j] # NoWalltime =>
              walltime[j] \in Nat \ {0} /\ C!EndOf(j, b) = b + walltime[j]
         /\ walltime[j] = NoWalltime => C!EndOf(j, b) = Horizon
<1>1. Horizon \in Int /\ (walltime[j] # NoWalltime => walltime[j] \in Nat \ {0})
  BY PlatformAssumption, ScheduleAssumption
<1> QED BY <1>1 DEF WalltimeFrom, C!EndOf

\* The slice that holds a date at which the job may start is an anchor.
LEMMA AnchorThere ==
  ASSUME NEW p, Firm(p, {}), Exact(p), Timed(p), NEW j \in Jobs,
         NEW x \in DOMAIN p, NEW c \in Int, p[x].begin <= c, c < p[x].end,
         MayStart(p, {}, j, c)
  PROVE  \E k \in x..Len(p) :
           IsAnchor(p, x, k, nb_requested_resources[j], walltime[j], Machines)
<1> DEFINE w == WalltimeFrom(walltime[j], p[x].begin)
           e == C!EndOf(j, c)
           n == nb_requested_resources[j]
           spare == Spare(p, {}, c, e)
           ends == {k \in x..Len(p) : p[k].end - p[x].begin >= w}
           k == Least(ends)
<1>1. /\ IsProfile(p) /\ Len(p) \in Nat /\ DOMAIN p = 1..Len(p) /\ x \in 1..Len(p)
      /\ \A y \in DOMAIN p : p[y].begin \in Int /\ p[y].end \in Int
      /\ \A y \in DOMAIN p : SliceSound(p[y], {}) /\ SliceExact(p[y])
      /\ Horizon \in Int /\ n \in Nat
  BY FieldTypes, ScheduleAssumption, PlatformAssumption DEF Firm, Sound, Exact, IsProfile
<1>2. w \in Int /\ e \in Int /\ p[x].begin + w <= e /\ e <= Horizon /\ c < e
  <2>1. c < Horizon
    BY <1>1 DEF Timed
  <2>2. e <= Horizon
    BY DEF MayStart
  <2> DEFINE b == p[x].begin
  <2>3. b \in Int /\ b <= c
    BY <1>1
  <2>4. w \in Int /\ e \in Int
    BY <2>3, EndOfIs
  <2>5. CASE walltime[j] # NoWalltime
    <3>1. walltime[j] \in Nat \ {0} /\ e = c + walltime[j] /\ w = walltime[j]
      BY <2>5, EndOfIs DEF WalltimeFrom
    <3> HIDE DEF e, w, b
    <3>2. b + w <= e /\ c < e
      BY <2>3, <3>1
    <3> QED BY <2>2, <2>4, <3>2 DEF b
  <2>6. CASE walltime[j] = NoWalltime
    <3>1. e = Horizon /\ w = Horizon - b
      BY <2>6, EndOfIs DEF WalltimeFrom
    <3> HIDE DEF e, w, b
    <3>2. b + w <= e /\ c < e
      BY <1>1, <2>1, <2>3, <3>1
    <3> QED BY <2>2, <2>4, <3>2 DEF b
  <2> QED BY <2>5, <2>6
<1>3. Len(p) \in x..Len(p) /\ p[Len(p)].end = Horizon
  BY <1>1 DEF Timed
<1>4. k \in ends /\ \A y \in ends : k <= y
  <2>1. p[Len(p)].end - p[x].begin >= w
    <3> HIDE DEF w, e
    <3> QED BY <1>1, <1>2, <1>3
  <2>2. Len(p) \in ends
    BY <1>3, <2>1
  <2>3. ends \in SUBSET Nat /\ ends # {}
    BY <1>1, <2>2
  <2> HIDE DEF ends
  <2> QED BY <2>3, LeastIs
<1> HIDE DEF k
<1>5. k \in x..Len(p) /\ p[k].end - p[x].begin >= w
  BY <1>4
<1>6. ASSUME k > x PROVE p[k - 1].end - p[x].begin < w /\ k - 1 \in DOMAIN p
  <2>1. k - 1 \in x..Len(p) /\ ~(k <= k - 1) /\ k - 1 \in DOMAIN p
    BY <1>1, <1>5, <1>6
  <2>2. k - 1 \notin ends
    BY <1>4, <2>1
  <2>3. p[k - 1].end - p[x].begin \in Int
    BY <1>1, <2>1
  <2> QED BY <2>1, <2>2, <2>3, <1>2
<1>7. Spans(p, x, k, w)
  BY <1>5, <1>6 DEF Spans
<1> HIDE DEF ends, w, e
<1>8. ASSUME NEW y \in x..k, NEW m \in spare PROVE y \in DOMAIN p /\ m \in p[y].available
  <2>1. y \in DOMAIN p /\ x <= y /\ y \in Int
    BY <1>1, <1>5
  <2>2. c < p[y].end
    <3>1. p[x].end <= p[y].end
      BY <1>1, <2>1, DatesFollow
    <3> QED BY <1>1, <2>1, <3>1
  <2>3. p[y].begin < e
    <3>1. CASE y = x
      BY <3>1, <1>1, <1>2
    <3>2. CASE y # x
      <4> DEFINE l == Len(p)
      <4>a. /\ l \in Nat /\ k \in x..l /\ x \in 1..l /\ y \in x..k /\ DOMAIN p = 1..l
        BY <1>1, <1>5
      <4>b. l = Len(p)
        OBVIOUS
      <4> HIDE DEF l
      <4>1. k > x /\ y \in 2..Len(p) /\ y - 1 \in DOMAIN p /\ y - 1 <= k - 1
        BY <3>2, <4>a, <4>b
      <4>2. p[y].begin = p[y - 1].end
        BY <4>1 DEF Timed
      <4>3. p[y - 1].end <= p[k - 1].end
        BY <4>1, <1>1, <1>6, DatesFollow
      <4>4. p[k - 1].end - p[x].begin < w /\ k - 1 \in DOMAIN p
        BY <4>1, <1>6
      <4>5. /\ p[y].begin \in Int /\ p[y - 1].end \in Int /\ p[k - 1].end \in Int
            /\ p[x].begin \in Int
        BY <4>1, <4>4, <2>1, <1>1
      <4> QED BY <4>2, <4>3, <4>4, <4>5, <1>2
    <3> QED BY <3>1, <3>2
  <2> QED BY <1>2, <2>1, <2>2, <2>3, SpareIsAvailable
<1>9. n <= Cardinality(spare) /\ spare \subseteq Machines /\ Cardinality(spare) \in Nat
  <2>1. spare \subseteq Machines
    BY DEF Spare
  <2>2. Cardinality(spare) >= n
    BY DEF MayStart, e
  <2> HIDE DEF spare
  <2> QED BY <1>1, <2>1, <2>2, MachinesFinite
<1> HIDE DEF spare, n
<1>10. ASSUME NEW y \in x..k PROVE p[y].nb_available >= n
  <2>1. y \in DOMAIN p
    BY <1>1, <1>5
  <2> DEFINE a == p[y].available
  <2>2. spare \subseteq a /\ a \subseteq Machines /\ p[y].nb_available = Cardinality(a)
    BY <1>1, <1>8, <2>1, FieldTypes DEF SliceExact, SliceSound
  <2> HIDE DEF a
  <2>3. Cardinality(spare) <= Cardinality(a) /\ Cardinality(a) \in Nat
    BY <2>2, MachinesFinite, FS_Subset
  <2> QED BY <1>1, <1>9, <2>2, <2>3
<1>11. Cardinality(CommonMachines(p, x..k) \cap Machines) >= n
  <2> DEFINE a == CommonMachines(p, x..k) \cap Machines
  <2>1. spare \subseteq a /\ a \subseteq Machines
    BY <1>8, <1>9 DEF CommonMachines
  <2> HIDE DEF a
  <2>2. Cardinality(spare) <= Cardinality(a) /\ Cardinality(a) \in Nat
    BY <2>1, MachinesFinite, FS_Subset
  <2>3. Cardinality(a) >= n
    BY <1>1, <1>9, <2>2
  <2> QED BY <2>3 DEF a
<1>12. IsAnchor(p, x, k, n, walltime[j], Machines)
  BY <1>7, <1>10, <1>11 DEF IsAnchor, w
<1> QED BY <1>5, <1>12 DEF n

\* Where first fit has put the job: at the first anchor.
FitsFirst(p, i0, j, a) ==
  LET n == nb_requested_resources[j]
      w == walltime[j]
  IN a.inserted =>
       \E i \in i0..Len(p) : \E k \in i..Len(p) :
         /\ IsAnchor(p, i, k, n, w, Machines)
         /\ \A x \in Anchors(p, i0, n, w, Machines) : i <= x
         /\ a.begin = p[i].begin /\ a.end = p[i].begin + WalltimeFrom(w, p[i].begin)
         /\ a.used \subseteq CommonMachines(p, i..k) /\ Cardinality(a.used) = n

\* FirstFitFrom yields the first slice from which the job fits.
LEMMA FirstFitFits ==
  ASSUME NEW S, IsSchedule(S), NEW j \in Jobs, NEW i0 \in DOMAIN S.profile
  PROVE  FitsFirst(S.profile, i0, j, FirstFitFrom(S, i0, j, Machines))
<1> DEFINE p == S.profile
           n == nb_requested_resources[j]
           w == walltime[j]
           anchors == Anchors(p, i0, n, w, Machines)
           i == Least(anchors)
           k == CHOOSE l \in i..Len(p) : IsAnchor(p, i, l, n, w, Machines)
           a == FirstFitFrom(S, i0, j, Machines)
<1>1. Len(p) \in Nat /\ DOMAIN p = 1..Len(p) /\ i0 \in 1..Len(p) /\ n \in Nat
  BY PlatformAssumption DEF IsSchedule, Offers, IsProfile
<1>2. CASE anchors = {}
  <2>1. a = NoAlloc(S)
    BY <1>2 DEF FirstFitFrom
  <2>2. a.inserted = FALSE
    BY <2>1 DEF NoAlloc
  <2> QED BY <2>2 DEF FitsFirst
<1>3. CASE anchors # {}
  <2>1. anchors \in SUBSET Nat
    BY <1>1 DEF Anchors
  <2>2. i \in anchors /\ \A x \in anchors : i <= x
    <3> HIDE DEF anchors
    <3> QED BY <2>1, <1>3, LeastIs
  <2>3. i \in i0..Len(p) /\ \E l \in i..Len(p) : IsAnchor(p, i, l, n, w, Machines)
    <3> HIDE DEF i
    <3> QED BY <2>2 DEF Anchors
  <2>4. k \in i..Len(p) /\ IsAnchor(p, i, k, n, w, Machines)
    <3> HIDE DEF i
    <3> QED BY <2>3
  <2> DEFINE common == CommonMachines(p, i..k) \cap Machines
             ms == LeftOf(common, n)
  <2>5. a = PutAt(S, j, i, k, Machines)
    BY <1>3 DEF FirstFitFrom
  <2> HIDE DEF i, k, anchors
  <2>6. /\ a.begin = p[i].begin /\ a.end = p[i].begin + WalltimeFrom(w, p[i].begin)
        /\ a.used = ms
    BY <2>5 DEF PutAt
  <2>7. ms \subseteq common /\ Cardinality(ms) = n
    <3>1. common \subseteq Machines
      OBVIOUS
    <3>2. n <= Cardinality(common)
      <4>1. Cardinality(common) >= n
        BY <2>4 DEF IsAnchor
      <4> HIDE DEF common
      <4> QED BY <3>1, <4>1, <1>1, MachinesFinite
    <3>3. IsFiniteSet(common) /\ common \in SUBSET Int
      BY <3>1, MachinesFinite
    <3> HIDE DEF common, n
    <3> QED BY <3>2, <3>3, <1>1, LeftOfIs
  <2>8. a.used \subseteq CommonMachines(p, i..k) /\ Cardinality(a.used) = n
    <3> HIDE DEF ms, a
    <3> QED BY <2>6, <2>7
  <2> HIDE DEF a, ms
  <2>9. /\ IsAnchor(p, i, k, n, w, Machines)
        /\ \A x \in Anchors(p, i0, n, w, Machines) : i <= x
        /\ a.begin = p[i].begin /\ a.end = p[i].begin + WalltimeFrom(w, p[i].begin)
        /\ a.used \subseteq CommonMachines(p, i..k) /\ Cardinality(a.used) = n
    BY <2>2, <2>4, <2>6, <2>8 DEF anchors
  <2>10. i \in i0..Len(p) /\ k \in i..Len(p)
    BY <2>3, <2>4
  <2> HIDE DEF p
  <2>11. FitsFirst(p, i0, j, a)
    BY <2>9, <2>10 DEF FitsFirst
  <2> QED BY <2>11 DEF p, a
<1> QED BY <1>2, <1>3

\* The job starts no earlier than d and, when no machine is or has been under
\* repair, at no later date than it has to, on machines that are spare.
Earliest(p, rp, d, j, a) ==
  a.inserted =>
    /\ a.begin \in d..Horizon /\ a.end = C!EndOf(j, a.begin) /\ a.end <= Horizon
    /\ a.used \subseteq Spare(p, rp, a.begin, a.end)
    /\ Cardinality(a.used) = nb_requested_resources[j]
    /\ rp = {} /\ Exact(p) => \A c \in d..(a.begin - 1) : ~MayStart(p, {}, j, c)

\* The first slice that fits begins at the earliest date that is possible.
LEMMA EarliestIs ==
  ASSUME NEW p, NEW rp, Firm(p, rp), Timed(p), NEW j \in Jobs, NEW i0 \in DOMAIN p,
         NEW a, FitsFirst(p, i0, j, a)
  PROVE  Earliest(p, rp, p[i0].begin, j, a)
<1> SUFFICES ASSUME a.inserted PROVE Earliest(p, rp, p[i0].begin, j, a)
  BY DEF Earliest
<1> DEFINE n == nb_requested_resources[j]
           w == walltime[j]
           d == p[i0].begin
<1> DEFINE At(i, k) ==
             /\ IsAnchor(p, i, k, n, w, Machines)
             /\ \A x \in Anchors(p, i0, n, w, Machines) : i <= x
             /\ a.begin = p[i].begin /\ a.end = p[i].begin + WalltimeFrom(w, p[i].begin)
             /\ a.used \subseteq CommonMachines(p, i..k) /\ Cardinality(a.used) = n
<1>a. PICK i \in i0..Len(p) : \E k \in i..Len(p) : At(i, k)
  BY DEF FitsFirst
<1>b. PICK k \in i..Len(p) : At(i, k)
  BY <1>a
<1>1. /\ IsAnchor(p, i, k, n, w, Machines)
      /\ \A x \in Anchors(p, i0, n, w, Machines) : i <= x
      /\ a.begin = p[i].begin /\ a.end = p[i].begin + WalltimeFrom(w, p[i].begin)
      /\ a.used \subseteq CommonMachines(p, i..k) /\ Cardinality(a.used) = n
  BY <1>b
<1> HIDE DEF At
<1>2. /\ IsProfile(p) /\ Len(p) \in Nat /\ DOMAIN p = 1..Len(p)
      /\ i0 \in 1..Len(p) /\ i \in 1..Len(p) /\ k \in 1..Len(p) /\ i0 <= i
      /\ \A y \in DOMAIN p : p[y].begin \in Int /\ p[y].end \in Int
  BY FieldTypes DEF Firm, Sound, IsProfile
<1>3. a.begin \in Int /\ a.end \in Int /\ a.end = C!EndOf(j, a.begin)
  <2> DEFINE b == p[i].begin
  <2>1. a.begin = b /\ a.end = b + WalltimeFrom(walltime[j], b) /\ b \in Int
    BY <1>1, <1>2
  <2> HIDE DEF b
  <2>2. b + WalltimeFrom(walltime[j], b) = C!EndOf(j, b) /\ C!EndOf(j, b) \in Int
    BY <2>1, EndOfIs
  <2> QED BY <2>1, <2>2
<1>4. a.end <= p[k].end /\ p[k].end <= Horizon /\ a.end <= Horizon
  <2>1. p[k].end - p[i].begin >= WalltimeFrom(w, p[i].begin)
    BY <1>1 DEF IsAnchor, Spans
  <2>2. WalltimeFrom(w, p[i].begin) \in Int
    BY <1>2, EndOfIs
  <2>3. p[k].end <= Horizon /\ Horizon \in Int
    BY <1>2, ScheduleAssumption DEF Timed
  <2>4. a.end = p[i].begin + WalltimeFrom(w, p[i].begin)
    BY <1>1
  <2> QED BY <1>2, <1>3, <2>1, <2>2, <2>3, <2>4
<1>5. d <= a.begin /\ a.begin <= Horizon
  <2>1. p[i0].begin <= p[i].begin
    BY <1>2, DatesFollow
  <2>2. p[i].begin <= p[Len(p)].end /\ p[Len(p)].end = Horizon
    <3>1. Len(p) \in i..Len(p)
      BY <1>2
    <3> QED BY <3>1, <1>2, DatesGrow DEF Timed
  <2> QED BY <1>1, <2>1, <2>2
<1>6. a.used \subseteq Spare(p, rp, a.begin, a.end)
  <2> SUFFICES ASSUME NEW m \in a.used PROVE m \in Spare(p, rp, p[i].begin, a.end)
    BY <1>1
  <2>1. m \in Machines /\ \A x \in i..k : m \in p[x].available
    BY <1>1 DEF CommonMachines
  <2> QED BY <2>1, <1>2, <1>3, <1>4, AvailableIsSpare
<1>7. ASSUME rp = {}, Exact(p), NEW c \in d..(a.begin - 1), MayStart(p, {}, j, c)
      PROVE  FALSE
  <2>1. d \in Int /\ c \in Int /\ d <= c /\ c < a.begin
    BY <1>2, <1>3, <1>7
  <2>2. p[1].begin <= c /\ c < Horizon
    <3>1. p[1].begin <= p[i0].begin /\ 1 \in DOMAIN p /\ p[1].begin \in Int
      BY <1>2, DatesFollow
    <3> QED BY <3>1, <2>1, <1>3, <1>5, ScheduleAssumption
  <2>3. PICK x \in DOMAIN p : p[x].begin <= c /\ c < p[x].end
    BY <1>2, <2>1, <2>2, SomeSliceHolds
  <2>4. x \in i0..Len(p)
    <3>1. x < i0 => p[x].end <= p[i0].begin
      BY <1>2, DatesFollow
    <3>2. ~(x < i0)
      BY <3>1, <1>2, <2>1, <2>3
    <3> QED BY <3>2, <1>2
  <2>5. x \in Anchors(p, i0, n, w, Machines)
    <3>1. \E l \in x..Len(p) : IsAnchor(p, x, l, n, w, Machines)
      BY <1>7, <2>1, <2>3, AnchorThere
    <3> QED BY <2>4, <3>1 DEF Anchors
  <2>6. p[i].begin <= p[x].begin
    BY <1>1, <1>2, <2>5, DatesFollow
  <2> QED BY <1>1, <1>2, <2>1, <2>3, <2>6
<1>8. a.begin \in d..Horizon
  BY <1>2, <1>3, <1>5, ScheduleAssumption
<1> QED BY <1>1, <1>3, <1>4, <1>6, <1>7, <1>8 DEF Earliest

\* The same periods leave the same machines spare.
LEMMA SameSpare ==
  ASSUME NEW p, NEW q, SamePeriods(p, q, Jobs), NEW rp, NEW b, NEW e
  PROVE  Spare(q, rp, b, e) = Spare(p, rp, b, e)
<1> SUFFICES ASSUME NEW m \in Machines \ rp, NEW j \in Jobs
             PROVE  (IsPlanned(q, j) /\ m \in PeriodOf(q, j).machines
                       => ~C!Overlaps(PeriodOf(q, j), b, e))
                    <=> (IsPlanned(p, j) /\ m \in PeriodOf(p, j).machines
                           => ~C!Overlaps(PeriodOf(p, j), b, e))
  BY DEF Spare
<1> QED BY DEF SamePeriods, SamePeriod

\* The assertions on an insertion leave it where it is.
LEMMA AssertedThere ==
  ASSUME NEW a, DOMAIN a = {"schedule", "used", "begin", "end", "started_in_first_slice",
                            "inserted"},
         NEW P, NEW mustFit, NEW p, NEW rp, NEW d, NEW j, Earliest(p, rp, d, j, a)
  PROVE  Earliest(p, rp, d, j, Asserted(a, P, mustFit))
<1> DEFINE b == Asserted(a, P, mustFit)
<1>1. b.inserted = a.inserted /\ b.begin = a.begin /\ b.end = a.end /\ b.used = a.used
  BY DEF Asserted
<1> HIDE DEF b
<1>2. Earliest(p, rp, d, j, b)
  BY <1>1 DEF Earliest
<1> QED BY <1>2 DEF b

\* add_job_first_fit starts the job at the earliest date.
LEMMA AddIsEarliest ==
  ASSUME NEW S, IsSchedule(S), Firm(S.profile, S.repair), Timed(S.profile), NEW j \in Jobs
  PROVE  Earliest(S.profile, S.repair, S.profile[1].begin, j,
                  add_job_first_fit(S, j, Machines, FALSE))
<1> DEFINE f == FirstFitFrom(S, 1, j, Machines)
<1>1. 1 \in DOMAIN S.profile
  BY DEF IsSchedule, Offers, IsProfile
<1>2. FitsFirst(S.profile, 1, j, f) /\ Inserts(S, f, j)
  BY <1>1, FirstFitFits, FirstFitInserts
<1>3. add_job_first_fit(S, j, Machines, FALSE) = Asserted(f, ~contains_job(S, j), FALSE)
  BY DEF add_job_first_fit
<1> HIDE DEF f
<1>4. Earliest(S.profile, S.repair, S.profile[1].begin, j, f)
  BY <1>1, <1>2, EarliestIs
<1> DEFINE P == ~contains_job(S, j)
<1>5. DOMAIN f = {"schedule", "used", "begin", "end", "started_in_first_slice",
                  "inserted"}
  BY <1>2 DEF Inserts
<1> HIDE DEF P
<1>6. Earliest(S.profile, S.repair, S.profile[1].begin, j, Asserted(f, P, FALSE))
  BY <1>4, <1>5, AssertedThere
<1> QED BY <1>3, <1>6 DEF P

\* add_job_first_fit_after_time does so from the given date on.
LEMMA AddAfterIsEarliest ==
  ASSUME NEW S, IsSchedule(S), Firm(S.profile, S.repair), Paced(S.profile), NEW j \in Jobs,
         NEW date \in Int
  PROVE  Earliest(S.profile, S.repair, date, j,
                  add_job_first_fit_after_time(S, j, date, Machines, FALSE))
<1> DEFINE p == S.profile
           rp == S.repair
           holds == {i \in DOMAIN p : p[i].begin <= date /\ date < p[i].end}
           i == Least(holds)
           q == split_slice(p, i, date)
           T == [S EXCEPT !.profile = q]
           second == SecondAfterSplit(p, i, date)
           f == FirstFitFrom(T, second, j, Machines)
           a == add_job_first_fit_after_time(S, j, date, Machines, FALSE)
<1>1. /\ S \in ScheduleRecord /\ Offers(p, rp) /\ IsProfile(p)
      /\ Len(p) \in Nat /\ DOMAIN p = 1..Len(p)
      /\ \A y \in DOMAIN p : p[y].begin \in Int /\ p[y].end \in Int
  BY FieldTypes DEF IsSchedule, Offers, IsProfile
<1>2. CASE holds = {}
  <2>1. a = NoAlloc(Fail(S))
    BY <1>2 DEF add_job_first_fit_after_time
  <2> HIDE DEF a
  <2>2. a.inserted = FALSE
    BY <2>1 DEF NoAlloc
  <2>3. Earliest(p, rp, date, j, a)
    BY <2>2 DEF Earliest
  <2> QED BY <2>3 DEF a
<1>3. CASE holds # {}
  <2>1. i \in DOMAIN p /\ p[i].begin <= date /\ date < p[i].end
    <3>1. holds \in SUBSET Nat
      BY <1>1
    <3>2. i \in holds
      <4> HIDE DEF holds
      <4> QED BY <3>1, <1>3, LeastIs
    <3> QED BY <3>2
  <2>2. a = Asserted(f, TRUE, FALSE)
    BY <1>3 DEF add_job_first_fit_after_time
  <2> HIDE DEF a, i, holds
  <2>3. MaySplit(p, rp, i, date, q)
    BY <2>1, <1>1, SplitOffers
  <2>4. Keeps(p, q, rp, {}) /\ SamePeriods(p, q, Jobs) /\ Offers(q, rp)
    <3> HIDE DEF q
    <3> QED BY <2>3 DEF MaySplit
  <2>5. second \in DOMAIN q /\ q[second].begin = date
    <3>1. CASE Splits(p, i, date)
      <4>1. SplitAt(p, i, date, q)
        BY <3>1, <2>1, <1>1, SplitIs
      <4>2. DOMAIN q = 1..(Len(p) + 1) /\ i + 1 \in DOMAIN q /\ q[i + 1].begin = date
        <5> HIDE DEF q
        <5> QED BY <4>1, <2>1, <1>1 DEF SplitAt, IsProfile
      <4> HIDE DEF q
      <4> QED BY <3>1, <4>2 DEF SecondAfterSplit
    <3>2. CASE ~Splits(p, i, date)
      <4>1. p[i].begin = date
        BY <3>2, <2>1, <1>1 DEF Splits
      <4>2. q = p
        BY <3>2 DEF split_slice
      <4> HIDE DEF q
      <4> QED BY <3>2, <4>1, <4>2, <2>1 DEF SecondAfterSplit
    <3> QED BY <3>1, <3>2
  <2> HIDE DEF q, second
  <2>6. T \in ScheduleRecord /\ T.profile = q /\ T.repair = rp
    BY <1>1, <2>4 DEF ScheduleRecord, Offers, IsProfile
  <2> HIDE DEF T
  <2>7. IsSchedule(T)
    BY <2>4, <2>6 DEF IsSchedule
  <2>8. FitsFirst(q, second, j, f) /\ Inserts(T, f, j)
    BY <2>5, <2>6, <2>7, FirstFitFits, FirstFitInserts
  <2> HIDE DEF f
  <2>9. Earliest(q, rp, date, j, f)
    <3>1. Firm(q, rp) /\ Timed(q)
      BY <2>4 DEF Keeps, Paced
    <3> QED BY <3>1, <2>5, <2>8, EarliestIs
  <2>10. Earliest(p, rp, date, j, f)
    <3>1. \A b, e : Spare(q, rp, b, e) = Spare(p, rp, b, e)
      BY <2>4, SameSpare
    <3>2. \A b, e : Spare(q, {}, b, e) = Spare(p, {}, b, e)
      BY <2>4, SameSpare
    <3>3. \A c : MayStart(q, {}, j, c) <=> MayStart(p, {}, j, c)
      BY <3>2 DEF MayStart
    <3>4. rp = {} /\ Exact(p) => Exact(q)
      BY <2>4 DEF Keeps
    <3> HIDE DEF p, rp
    <3> QED BY <2>9, <3>1, <3>3, <3>4 DEF Earliest
  <2>11. Earliest(p, rp, date, j, a)
    BY <2>2, <2>8, <2>10, AssertedThere DEF Inserts
  <2> QED BY <2>11 DEF a
<1> QED BY <1>2, <1>3

\* The allocations of a profile; CalendarOf are those of the schedule.
CalOf(p) == [j \in {x \in Jobs : IsPlanned(p, x)} |-> PeriodOf(p, j)]

\* The calendar of a schedule and its present, in terms of the slices.
LEMMA CalendarIs ==
  /\ CalendarOf = CalOf(schedule.profile) /\ CalendarOf' = CalOf(schedule'.profile)
  /\ now = schedule.profile[1].begin /\ now' = schedule'.profile[1].begin
<1>1. Planned = {x \in Jobs : IsPlanned(schedule.profile, x)}
  BY DEF Planned, contains_job, Occurrences, IsPlanned, Runs
<1>2. Planned' = {x \in Jobs : IsPlanned(schedule'.profile, x)}
  BY DEF Planned, contains_job, Occurrences, IsPlanned, Runs
<1>3. CalendarOf = CalOf(schedule.profile)
  BY <1>1 DEF CalendarOf, CalOf, PeriodOf, Slice
<1>4. CalendarOf' = CalOf(schedule'.profile)
  BY <1>2 DEF CalendarOf, CalOf, PeriodOf, Slice
<1> QED BY <1>3, <1>4 DEF now

\* The calendar has the planned jobs with their periods.
LEMMA CalHas ==
  ASSUME NEW p
  PROVE  /\ DOMAIN CalOf(p) = {x \in Jobs : IsPlanned(p, x)}
         /\ \A j \in Jobs : IsPlanned(p, j) => CalOf(p)[j] = PeriodOf(p, j)
  BY DEF CalOf

\* What the calendar becomes: it stays, a job is added, or jobs are gone.
LEMMA CalSame ==
  ASSUME NEW p, NEW r, SamePeriods(p, r, Jobs)
  PROVE  CalOf(r) = CalOf(p)
<1>1. {x \in Jobs : IsPlanned(r, x)} = {x \in Jobs : IsPlanned(p, x)}
  BY DEF SamePeriods, SamePeriod
<1>2. \A j \in {x \in Jobs : IsPlanned(p, x)} : PeriodOf(r, j) = PeriodOf(p, j)
  BY DEF SamePeriods, SamePeriod
<1> QED BY <1>1, <1>2 DEF CalOf

\* A job that is inserted is added to the calendar.
LEMMA CalGains ==
  ASSUME NEW p, NEW r, NEW j \in Jobs, NEW a, Gains(p, r, j, a)
  PROVE  CalOf(r) = C!With(CalOf(p), j, a)
<1>1. {x \in Jobs : IsPlanned(r, x)} = {x \in Jobs : IsPlanned(p, x)} \cup {j}
  BY DEF Gains, SamePeriods, SamePeriod
<1>2. \A k \in {x \in Jobs : IsPlanned(r, x)} :
        PeriodOf(r, k) = IF k = j THEN a ELSE CalOf(p)[k]
  BY CalHas DEF Gains, SamePeriods, SamePeriod
<1> HIDE DEF C!With
<1>3. CalOf(r) = [k \in {x \in Jobs : IsPlanned(p, x)} \cup {j} |->
                    IF k = j THEN a ELSE CalOf(p)[k]]
  BY <1>1, <1>2 DEF CalOf
<1> QED BY <1>3, CalHas DEF C!With

CalLoses(p, r, out) ==
  \E gone \in SUBSET out :
    /\ \A j \in gone : j \in Jobs /\ IsPlanned(p, j)
    /\ CalOf(r) = [k \in DOMAIN CalOf(p) \ gone |-> CalOf(p)[k]]

\* Jobs that are taken out are gone from the calendar.
LEMMA CalSheds ==
  ASSUME NEW p, NEW r, NEW out, Sheds(p, r, out)
  PROVE  CalLoses(p, r, out)
<1> DEFINE gone == DOMAIN CalOf(p) \ DOMAIN CalOf(r)
<1>1. gone \subseteq out
  BY CalHas DEF Sheds
<1>2. DOMAIN CalOf(p) \ gone = {x \in Jobs : IsPlanned(r, x)}
  BY CalHas DEF Sheds
<1>3. \A k \in {x \in Jobs : IsPlanned(r, x)} : PeriodOf(r, k) = CalOf(p)[k]
  BY CalHas DEF Sheds
<1> HIDE DEF gone
<1>4. CalOf(r) = [k \in DOMAIN CalOf(p) \ gone |-> CalOf(p)[k]]
  <2>1. CalOf(r) = [k \in {x \in Jobs : IsPlanned(r, x)} |-> PeriodOf(r, k)]
    BY DEF CalOf
  <2> QED BY <2>1, <1>2, <1>3
<1>5. \A j \in gone : j \in Jobs /\ IsPlanned(p, j)
  BY CalHas DEF gone
<1> QED BY <1>1, <1>4, <1>5 DEF CalLoses

\* Sizes of sets are those of module Calendar.
LEMMA SameSize == \A S : C!Cardinality(S) = Cardinality(S)
  BY DEF C!Cardinality, Cardinality

\* The machines that are free in the calendar are the spare ones of the slices.
LEMMA FreeIsSpare ==
  /\ \A b, e : C!Free(b, e) = Spare(schedule.profile, schedule.repair, b, e)
  /\ \A j : schedule.repair = {} =>
       \A b : C!CanStart(j, b) <=> MayStart(schedule.profile, {}, j, b)
  /\ \A j : \A b : C!CanStart(j, b) <=>
       /\ C!EndOf(j, b) <= Horizon
       /\ Cardinality(Spare(schedule.profile, schedule.repair, b, C!EndOf(j, b)))
            >= nb_requested_resources[j]
<1> DEFINE p == schedule.profile
<1>1. ASSUME NEW b, NEW e PROVE C!Free(b, e) = Spare(p, schedule.repair, b, e)
  <2>1. CalendarOf = CalOf(p)
    BY CalendarIs
  <2>2. \A m : (\A j \in DOMAIN CalOf(p) :
                   m \in CalOf(p)[j].machines => ~C!Overlaps(CalOf(p)[j], b, e))
               <=> (\A j \in Jobs : IsPlanned(p, j) /\ m \in PeriodOf(p, j).machines
                                      => ~C!Overlaps(PeriodOf(p, j), b, e))
    BY CalHas
  <2> QED BY <2>1, <2>2 DEF C!Free, C!Allocated, Spare
<1>2. \A j : \A b : C!CanStart(j, b) <=>
        /\ C!EndOf(j, b) <= Horizon
        /\ Cardinality(Spare(p, schedule.repair, b, C!EndOf(j, b)))
             >= nb_requested_resources[j]
  BY <1>1, SameSize DEF C!CanStart
<1> QED BY <1>1, <1>2 DEF MayStart

\* The calendar adds the job where the schedule has put it.
LEMMA AddsFrom ==
  ASSUME ScheduleInv, NEW j \in Jobs, ~contains_job(schedule, j), NEW d \in Int,
         NEW a, Inserts(schedule, a, j),
         Earliest(schedule.profile, schedule.repair, d, j, a),
         schedule' = a.schedule, failures' = failures
  PROVE  C!AddFrom(j, d) \/ UNCHANGED C!calendarVars
<1> DEFINE p == schedule.profile
           rp == schedule.repair
           r == a.schedule.profile
           n == nb_requested_resources[j]
           e == C!EndOf(j, a.begin)
<1>1. Places(p, j, a) /\ schedule'.repair = rp /\ schedule'.profile = r
  BY DEF ScheduleInv, Inserts
<1>2. UNCHANGED <<schedule.repair, failures > 0>>
  BY <1>1
<1>3. CASE ~a.inserted
  <2>1. SamePeriods(p, r, Jobs)
    BY <1>1, <1>3 DEF Places
  <2>2. CalendarOf' = CalendarOf /\ now' = now
    BY <1>1, <2>1, CalendarIs, CalSame DEF SamePeriods
  <2> QED BY <1>2, <2>2 DEF C!calendarVars
<1>4. CASE a.inserted
  <2> DEFINE given == [begin |-> a.begin, end |-> e, machines |-> a.used]
  <2>1. /\ a.begin \in d..Horizon /\ a.end = e /\ e <= Horizon
        /\ a.used \subseteq Spare(p, rp, a.begin, e) /\ Cardinality(a.used) = n
        /\ rp = {} /\ Exact(p) => \A c \in d..(a.begin - 1) : ~MayStart(p, {}, j, c)
    BY <1>4 DEF Earliest
  <2>2. Gains(p, r, j, given)
    BY <1>1, <1>4, <2>1 DEF Places
  <2>3. CalendarOf' = C!With(CalendarOf, j, given) /\ now' = now
    <3> HIDE DEF given, p, r, e
    <3>1. CalOf(r) = C!With(CalOf(p), j, given)
      BY <2>2, CalGains
    <3>2. r[1].begin = p[1].begin
      BY <2>2 DEF Gains, SamePeriods
    <3> QED BY <1>1, <3>1, <3>2, CalendarIs DEF p, r
  <2>4. C!CanStart(j, a.begin)
    <3> DEFINE spare == Spare(p, rp, a.begin, e)
    <3>1. spare \subseteq Machines
      BY DEF Spare
    <3>2. a.used \subseteq spare /\ n \in Nat /\ Cardinality(a.used) = n
      BY <2>1, PlatformAssumption
    <3> HIDE DEF spare, n
    <3>3. Cardinality(a.used) <= Cardinality(spare) /\ Cardinality(spare) \in Nat
      BY <3>1, <3>2, MachinesFinite, FS_Subset
    <3>4. Cardinality(spare) >= n
      BY <3>2, <3>3
    <3> QED BY <2>1, <3>4, FreeIsSpare DEF spare, n
  <2>5. failures > 0 \/ \A c \in d..(a.begin - 1) : ~C!CanStart(j, c)
    <3>1. CASE failures = 0
      <4>1. rp = {} /\ Exact(p)
        BY <3>1 DEF ScheduleInv
      <4> QED BY <2>1, <4>1, FreeIsSpare
    <3>2. CASE failures # 0
      BY <3>2 DEF ScheduleInv
    <3> QED BY <3>1, <3>2
  <2>6. a.used \in SUBSET C!Free(a.begin, e) /\ C!Cardinality(a.used) = n
    BY <2>1, FreeIsSpare, SameSize
  <2>7. j \notin C!Allocated
    BY CalendarIs, CalHas DEF C!Allocated, contains_job, Occurrences, IsPlanned, Runs
  <2> HIDE DEF p, rp, r, e, n
  <2>8. C!AddFrom(j, d)
    BY <1>2, <2>1, <2>3, <2>4, <2>5, <2>6, <2>7 DEF C!AddFrom, e, n
  <2> QED BY <2>8
<1> QED BY <1>3, <1>4

\* What the invariant says of the present.
LEMMA NowIs ==
  ASSUME ScheduleInv
  PROVE  /\ now \in Int /\ now = schedule.profile[1].begin
         /\ IsSchedule(schedule) /\ IsProfile(schedule.profile)
         /\ Firm(schedule.profile, schedule.repair) /\ Paced(schedule.profile)
         /\ Timed(schedule.profile)
  BY FieldTypes DEF ScheduleInv, now, IsSchedule, Offers, IsProfile, Paced

\* AddJob is Add of the calendar, or changes nothing when the job does not fit.
LEMMA AddImplements ==
  ASSUME ScheduleInv, NEW j \in Jobs, AddJob(j)
  PROVE  C!Add(j) \/ UNCHANGED C!calendarVars
<1> DEFINE a == add_job_first_fit(schedule, j, Machines, FALSE)
<1>1. /\ schedule' = a.schedule /\ failures' = failures /\ ~contains_job(schedule, j)
      /\ not_before[j] <= now
  BY DEF AddJob
<1>2. Inserts(schedule, a, j)
  BY NowIs, AddFirstFit DEF AddsFirst
<1>3. Earliest(schedule.profile, schedule.repair, now, j, a)
  BY NowIs, AddIsEarliest
<1> HIDE DEF a
<1>4. C!AddFrom(j, now) \/ UNCHANGED C!calendarVars
  BY <1>1, <1>2, <1>3, NowIs, AddsFrom
<1>5. not_before[j] \in Int /\ ~(not_before[j] > now)
  BY <1>1, NowIs, CallsAssumption, ScheduleAssumption
<1> QED BY <1>4, <1>5 DEF C!Add

\* AddJobAfter is Add of the calendar as well.
LEMMA AddAfterImplements ==
  ASSUME ScheduleInv, NEW j \in Jobs, AddJobAfter(j)
  PROVE  C!Add(j) \/ UNCHANGED C!calendarVars
<1> DEFINE date == not_before[j]
           a == add_job_first_fit_after_time(schedule, j, date, Machines, FALSE)
<1>1. /\ schedule' = a.schedule /\ failures' = failures /\ ~contains_job(schedule, j)
      /\ date > now
  BY DEF AddJobAfter
<1>2. date \in Int
  BY CallsAssumption, ScheduleAssumption
<1>3. Inserts(schedule, a, j)
  <2> HIDE DEF date
  <2> QED BY <1>2, NowIs, AddFirstFitAfterTime DEF AddsAfter
<1>4. Earliest(schedule.profile, schedule.repair, date, j, a)
  <2> HIDE DEF date
  <2> QED BY <1>2, NowIs, AddAfterIsEarliest
<1> HIDE DEF a
<1>5. C!AddFrom(j, date) \/ UNCHANGED C!calendarVars
  BY <1>1, <1>2, <1>3, <1>4, AddsFrom
<1> QED BY <1>1, <1>5 DEF C!Add

\* RemoveJob is TakeOut of the calendar.
LEMMA RemoveImplements ==
  ASSUME ScheduleInv, NEW j \in Jobs, RemoveJob(j)
  PROVE  C!TakeOut(j)
<1> DEFINE T == remove_job(schedule, j)
           p == schedule.profile
           r == T.profile
<1>1. schedule' = T /\ failures' = failures /\ contains_job(schedule, j)
  BY DEF RemoveJob
<1>2. /\ T.repair = schedule.repair /\ SamePeriods(p, r, Jobs \ {j})
      /\ \A x \in DOMAIN r : ~Runs(r, j, x)
  BY NowIs, RemoveThere DEF RemovesThere
<1> HIDE DEF T
<1>3. ~IsPlanned(r, j) /\ r[1].begin = p[1].begin
  BY <1>2 DEF IsPlanned, SamePeriods
<1>4. {x \in Jobs : IsPlanned(r, x)} = {x \in Jobs : IsPlanned(p, x)} \ {j}
  BY <1>2, <1>3 DEF SamePeriods, SamePeriod
<1>5. \A k \in {x \in Jobs : IsPlanned(r, x)} : PeriodOf(r, k) = CalOf(p)[k]
  BY <1>2, <1>3, CalHas DEF SamePeriods, SamePeriod
<1>6. CalOf(r) = [k \in DOMAIN CalOf(p) \ {j} |-> CalOf(p)[k]]
  <2>1. CalOf(r) = [k \in {x \in Jobs : IsPlanned(r, x)} |-> PeriodOf(r, k)]
    BY DEF CalOf
  <2> QED BY <2>1, <1>4, <1>5, CalHas
<1>7. j \in DOMAIN CalOf(p)
  BY <1>1, CalHas DEF contains_job, Occurrences, IsPlanned, Runs
<1>8. CalendarOf' = [k \in C!Allocated \ {j} |-> CalendarOf[k]] /\ j \in C!Allocated
  BY <1>1, <1>6, <1>7, CalendarIs DEF C!Allocated
<1>9. UNCHANGED <<now, schedule.repair, failures > 0>>
  BY <1>1, <1>2, <1>3, CalendarIs
<1> QED BY <1>8, <1>9 DEF C!TakeOut

\* What is left of the periods when the present moves on.
LEMMA LaterPeriods ==
  ASSUME NEW p, IsProfile(p), Steady(p), Timed(p), NEW date \in Int,
         p[1].begin <= date, date <= p[1].end, NEW r, Later(p, date, r), NEW j \in Jobs
  PROVE  /\ IsPlanned(r, j) <=> IsPlanned(p, j)
         /\ IsPlanned(p, j) =>
              /\ PeriodOf(r, j) = [PeriodOf(p, j) EXCEPT !.begin = IF @ < date THEN date ELSE @]
              /\ date <= PeriodOf(p, j).end
<1>1. /\ Len(p) \in Nat /\ DOMAIN p = 1..Len(p) /\ DOMAIN r = DOMAIN p /\ IsProfile(r)
      /\ \A x \in DOMAIN p :
           /\ p[x].begin \in Int /\ p[x].end \in Int /\ r[x].end = p[x].end
           /\ r[x].begin = IF x = 1 THEN date ELSE p[x].begin
           /\ r[x].jobs = p[x].jobs
           /\ \A k : Runs(r, k, x) <=> Runs(p, k, x)
  BY FieldTypes DEF IsProfile, Later, SameSlice, Runs
<1>2. IsPlanned(r, j) <=> IsPlanned(p, j)
  BY <1>1 DEF IsPlanned
<1>3. ASSUME IsPlanned(p, j)
      PROVE  /\ PeriodOf(r, j) = [PeriodOf(p, j) EXCEPT !.begin = IF @ < date THEN date ELSE @]
             /\ date <= PeriodOf(p, j).end
  <2>1. PICK f, l \in DOMAIN p : Fills(p, j, f, l)
    BY <1>3, SomeFilled
  <2>2. Fills(r, j, f, l)
    BY <1>1, <2>1 DEF Fills
  <2>3. PeriodOf(p, j) = [begin |-> p[f].begin, end |-> p[l].end, machines |-> p[f].jobs[j]]
    BY <2>1, PeriodIs
  <2>4. PeriodOf(r, j) = [begin |-> r[f].begin, end |-> p[l].end, machines |-> p[f].jobs[j]]
    BY <1>1, <2>2, PeriodIs
  <2>5. p[1].end <= p[l].end /\ 1 \in DOMAIN p
    <3>1. 1 \in DOMAIN p /\ 1 <= l /\ l \in DOMAIN p
      BY <1>1, <2>1
    <3> QED BY <3>1, DatesFollow
  <2>6. date <= p[l].end
    BY <1>1, <2>1, <2>5
  <2>7. r[f].begin = IF p[f].begin < date THEN date ELSE p[f].begin
    <3>1. CASE f = 1
      BY <3>1, <1>1, <2>5
    <3>2. CASE f # 1
      <4>1. 1 < f /\ 1 <= f /\ f \in DOMAIN p
        BY <3>2, <1>1, <2>1
      <4>2. p[1].end <= p[f].begin
        BY <4>1, <2>5, DatesFollow
      <4> QED BY <3>2, <4>2, <1>1, <2>5
    <3> QED BY <3>1, <3>2
  <2> QED BY <2>3, <2>4, <2>6, <2>7
<1> QED BY <1>2, <1>3

\* Advance is Pass of the calendar.
LEMMA AdvanceImplements ==
  ASSUME ScheduleInv, NEW date \in Nat, Advance(date)
  PROVE  C!Pass
<1> DEFINE T == update_first_slice(schedule, date)
           p == schedule.profile
           r == T.profile
<1>1. /\ schedule' = T /\ failures' = failures
      /\ p[1].begin < date /\ p[1].begin <= date /\ date <= p[1].end /\ p[1].begin \in Int
  BY NowIs DEF Advance
<1>2. T.repair = schedule.repair /\ Later(p, date, r) /\ r[1].begin = date
  BY NowIs, UpdateFirstSlice DEF Moves
<1> HIDE DEF T
<1>3. \A j \in Jobs :
        /\ IsPlanned(r, j) <=> IsPlanned(p, j)
        /\ IsPlanned(p, j) =>
             /\ PeriodOf(r, j) = [PeriodOf(p, j) EXCEPT !.begin = IF @ < date THEN date ELSE @]
             /\ date <= PeriodOf(p, j).end
  <2> HIDE DEF p, r
  <2>1. IsProfile(p) /\ Steady(p) /\ Timed(p)
    BY NowIs DEF Firm, p
  <2> QED BY <2>1, <1>1, <1>2, LaterPeriods
<1>4. CalOf(r) = [j \in DOMAIN CalOf(p) |->
                    [CalOf(p)[j] EXCEPT !.begin = IF @ < date THEN date ELSE @]]
  <2>1. {x \in Jobs : IsPlanned(r, x)} = {x \in Jobs : IsPlanned(p, x)}
    BY <1>3
  <2>2. CalOf(r) = [j \in {x \in Jobs : IsPlanned(p, x)} |-> PeriodOf(r, j)]
    BY <2>1 DEF CalOf
  <2>3. \A j \in {x \in Jobs : IsPlanned(p, x)} :
          PeriodOf(r, j) = [CalOf(p)[j] EXCEPT !.begin = IF @ < date THEN date ELSE @]
    BY <1>3, CalHas
  <2> QED BY <2>2, <2>3, CalHas
<1>5. \A j \in DOMAIN CalOf(p) : date <= CalOf(p)[j].end
  BY <1>3, CalHas
<1>6. date \in (now + 1)..Horizon
  <2>1. p[1].end <= Horizon /\ p[1].end \in Int
    BY NowIs, FieldTypes DEF Timed, IsProfile
  <2> QED BY <1>1, <2>1, NowIs, ScheduleAssumption
<1>7. now' = date /\ UNCHANGED <<schedule.repair, failures > 0>>
  BY <1>1, <1>2, CalendarIs
<1>8. /\ CalendarOf' = [j \in C!Allocated |->
                          [CalendarOf[j] EXCEPT !.begin = IF @ < date THEN date ELSE @]]
      /\ \A j \in C!Allocated : date <= CalendarOf[j].end
  BY <1>1, <1>4, <1>5, CalendarIs DEF C!Allocated
<1> QED BY <1>6, <1>7, <1>8 DEF C!Pass

\* A change of the machines under repair moves no job.
LEMMA RepairsStay ==
  ASSUME NEW S, NEW rp, NEW T, Repairs(S, rp, T), IsSchedule(S), Steady(S.profile)
  PROVE  SamePeriods(S.profile, T.profile, Jobs)
<1>1. /\ SameJobs(S.profile, T.profile) /\ IsProfile(S.profile) /\ IsProfile(T.profile)
      /\ DOMAIN T.profile = DOMAIN S.profile /\ 1 \in DOMAIN S.profile
  BY DEF Repairs, SameJobs, IsSchedule, Offers, IsProfile
<1>2. \A j \in Jobs : Alike(S.profile, T.profile, j)
  BY <1>1 DEF SameJobs, Alike, Runs
<1>3. \A j \in Jobs : SamePeriod(S.profile, T.profile, j)
  BY <1>1, <1>2, AlikePeriods
<1> QED BY <1>1, <1>3 DEF SamePeriods, SameJobs

\* MachineUp is Up of the calendar.
LEMMA UpImplements ==
  ASSUME ScheduleInv, NEW m \in Machines, MachineUp(m)
  PROVE  C!Up(m)
<1> DEFINE T == remove_repair_machines(schedule, {m})
<1>1. schedule' = T /\ failures' = failures
  BY DEF MachineUp
<1>2. Repairs(schedule, schedule.repair \ {m}, T)
  BY NowIs, RemoveRepairMachines
<1> HIDE DEF T
<1>3. SamePeriods(schedule.profile, T.profile, Jobs)
  BY <1>2, NowIs, RepairsStay DEF Firm
<1>4. CalendarOf' = CalendarOf /\ now' = now
  BY <1>1, <1>3, CalSame, CalendarIs DEF SamePeriods
<1> QED BY <1>1, <1>2, <1>4 DEF C!Up, Repairs

\* MachineDown is Down of the calendar.
LEMMA DownImplements ==
  ASSUME ScheduleInv, NEW m \in Machines, MachineDown(m)
  PROVE  C!Down(m)
<1> DEFINE p == schedule.profile
           S == add_repair_machine(schedule, {m})
           out == get_jobs_running_on_machines(S, {m})
           T == FoldLeft(remove_job_if_exists, S, Ascending(out))
           r == T.profile
<1>1. schedule' = T /\ failures' = failures + 1
  BY DEF MachineDown
<1>2. Repairs(schedule, schedule.repair \cup {m}, S)
  <2>1. {m} \in SUBSET Machines
    OBVIOUS
  <2> QED BY <2>1, NowIs, AddRepairMachine
<1> HIDE DEF S
<1>3. /\ IsSchedule(S) /\ Firm(S.profile, S.repair) /\ SameJobs(p, S.profile)
      /\ S.repair = schedule.repair \cup {m}
  BY <1>2, NowIs DEF Repairs
<1>4. /\ out \in SUBSET Jobs
      /\ \A j \in out : Runs(p, j, 1) /\ m \in p[1].jobs[j]
  <2>1. S.profile[1] \in SliceRecord /\ 1 \in DOMAIN p
    BY <1>3, NowIs DEF IsSchedule, Offers, IsProfile
  <2>2. DOMAIN S.profile[1].jobs \subseteq Jobs /\ S.profile[1].jobs = p[1].jobs
    BY <2>1, <1>3, FieldTypes DEF SameJobs
  <2> QED BY <2>2 DEF get_jobs_running_on_machines, OnMachines, RunningJobs, Runs
<1> HIDE DEF out
<1>5. Removed(S, T, out)
  BY <1>3, <1>4, RemoveAll
<1> HIDE DEF T
<1>6. Sheds(p, r, out) /\ T.repair = schedule.repair \cup {m}
  <2>1. Sheds(S.profile, r, out) /\ T.repair = S.repair
    BY <1>3, <1>5 DEF Removed, Becomes
  <2>2. SamePeriods(p, S.profile, Jobs)
    BY <1>2, NowIs, RepairsStay DEF Firm
  <2> QED BY <2>1, <2>2, <1>3 DEF Sheds, SamePeriods, SamePeriod
<1>7. PICK gone \in SUBSET out :
        /\ \A j \in gone : j \in Jobs /\ IsPlanned(p, j)
        /\ CalOf(r) = [k \in DOMAIN CalOf(p) \ gone |-> CalOf(p)[k]]
  <2>1. CalLoses(p, r, out)
    BY <1>6, CalSheds
  <2> QED BY <2>1 DEF CalLoses
<1>8. ASSUME NEW j \in gone
      PROVE  j \in DOMAIN CalOf(p) /\ m \in CalOf(p)[j].machines /\ CalOf(p)[j].begin = now
  <2>1. j \in Jobs /\ IsPlanned(p, j) /\ Runs(p, j, 1) /\ m \in p[1].jobs[j]
    <3>1. j \in out
      BY <1>7
    <3> QED BY <3>1, <1>4, <1>7
  <2>2. PICK f, l \in DOMAIN p : Fills(p, j, f, l)
    BY <2>1, NowIs, SomeFilled DEF Firm
  <2>3. f = 1
    <3>1. 1 \in f..l /\ f \in 1..Len(p) /\ l \in 1..Len(p) /\ Len(p) \in Nat
      BY <2>1, <2>2, NowIs DEF Fills, IsProfile
    <3> DEFINE n == Len(p)
    <3>2. 1 \in f..l /\ f \in 1..n /\ l \in 1..n /\ n \in Nat
      BY <3>1
    <3> HIDE DEF n
    <3> QED BY <3>2
  <2>4. PeriodOf(p, j) = [begin |-> p[f].begin, end |-> p[l].end, machines |-> p[f].jobs[j]]
    BY <2>2, NowIs, PeriodIs
  <2>5. j \in DOMAIN CalOf(p) /\ CalOf(p)[j] = PeriodOf(p, j)
    <3> HIDE DEF p
    <3> QED BY <2>1, CalHas
  <2>6. PeriodOf(p, j).machines = p[1].jobs[j] /\ PeriodOf(p, j).begin = p[1].begin
    BY <2>3, <2>4
  <2> QED BY <2>1, <2>5, <2>6, NowIs
<1>9. /\ CalendarOf' = [k \in C!Allocated \ gone |-> CalendarOf[k]]
      /\ gone \in SUBSET {j \in C!Allocated : /\ m \in CalendarOf[j].machines
                                             /\ CalendarOf[j].begin = now}
  BY <1>1, <1>7, <1>8, CalendarIs DEF C!Allocated
<1>10. now' = now
  BY <1>1, <1>6, CalendarIs DEF Sheds
<1>11. (failures > 0)' = TRUE
  <2>1. failures \in Nat
    BY DEF ScheduleInv
  <2> QED BY <1>1, <2>1
<1> QED BY <1>1, <1>6, <1>9, <1>10, <1>11 DEF C!Down

\* StartReservations changes nothing in it when there are no reservations.
LEMMA StartImplements ==
  ASSUME ScheduleInv, Reservations = {}, StartReservations
  PROVE  UNCHANGED C!calendarVars
<1>1. /\ schedule'.repair = schedule.repair /\ failures' = failures
      /\ SamePeriods(schedule.profile, schedule'.profile, Jobs)
  BY StartReservationsFits DEF StartReservations
<1>2. CalendarOf' = CalendarOf
  BY <1>1, CalSame, CalendarIs
<1>3. now' = now
  BY <1>1, CalendarIs DEF SamePeriods
<1> QED BY <1>1, <1>2, <1>3 DEF C!calendarVars

\* A new schedule plans no job.
LEMMA CalStart == ScheduleInit => C!CalendarInit
<1> SUFFICES ASSUME ScheduleInit PROVE C!CalendarInit
  OBVIOUS
<1> DEFINE sl == [begin |-> 0, end |-> Horizon, available |-> Machines,
                  allocated |-> {}, nb_available |-> Cardinality(Machines),
                  jobs |-> NoJobs, nb_reservations |-> 0, has_reservation |-> FALSE]
<1>1. schedule.profile = <<sl>> /\ schedule.repair = {} /\ failures = 0
  BY DEF ScheduleInit, NewSchedule
<1>2. DOMAIN sl.jobs = {} /\ sl.begin = 0
  BY DEF NoJobs
<1> HIDE DEF sl
<1>3. DOMAIN schedule.profile = {1} /\ schedule.profile[1] = sl
  BY <1>1
<1>4. {x \in Jobs : IsPlanned(schedule.profile, x)} = {}
  BY <1>2, <1>3 DEF IsPlanned, Runs
<1>5. CalendarOf = [j \in {} |-> 0]
  BY <1>4, CalendarIs DEF CalOf
<1> QED BY <1>1, <1>2, <1>3, <1>5 DEF C!CalendarInit, now

\* Every step of the schedule is a step of the calendar, or changes nothing in it.
LEMMA CalStep ==
  ASSUME Reservations = {}, ScheduleInv, [ScheduleNext]_scheduleVars
  PROVE  C!CalendarNext \/ UNCHANGED C!calendarVars
<1>1. CASE UNCHANGED scheduleVars
  <2>1. schedule' = schedule /\ failures' = failures
    BY <1>1 DEF scheduleVars
  <2> QED BY <2>1, CalendarIs DEF C!calendarVars
<1>2. ASSUME NEW j \in Jobs, AddJob(j) PROVE C!Add(j) \/ UNCHANGED C!calendarVars
  BY <1>2, AddImplements
<1>3. ASSUME NEW j \in Jobs, AddJobAfter(j) PROVE C!Add(j) \/ UNCHANGED C!calendarVars
  BY <1>3, AddAfterImplements
<1>4. ASSUME NEW j \in Jobs, RemoveJob(j) PROVE C!TakeOut(j)
  BY <1>4, RemoveImplements
<1>5. ASSUME NEW date \in 0..LastDate, Advance(date) PROVE C!Pass
  <2>1. date \in Nat
    BY CallsAssumption
  <2> QED BY <2>1, <1>5, AdvanceImplements
<1>6. CASE StartReservations
  BY <1>6, StartImplements
<1>7. ASSUME NEW m \in Failing, MachineDown(m) PROVE m \in Machines /\ C!Down(m)
  BY <1>7, CallsAssumption, DownImplements
<1>8. ASSUME NEW m \in Failing, MachineUp(m) PROVE m \in Machines /\ C!Up(m)
  BY <1>8, CallsAssumption, UpImplements
<1> QED BY <1>1, <1>2, <1>3, <1>4, <1>5, <1>6, <1>7, <1>8
        DEF ScheduleNext, C!CalendarNext

\* Without reservations the slices implement the calendar: a job is put at the
\* earliest date at which it fits, nothing else moves it, and it leaves only
\* when it is removed or a machine fails under it.
THEOREM SlicesImplementCalendar ==
  ASSUME Reservations = {}
  PROVE  ScheduleSpec => ImplementsCalendar
<1>1. ScheduleInv /\ [ScheduleNext]_scheduleVars
      => [C!CalendarNext]_(C!calendarVars)
  BY CalStep
<1>2. ScheduleInit => C!CalendarInit
  BY CalStart
<1> QED BY <1>1, <1>2, ScheduleFits, PTL DEF ScheduleSpec, ImplementsCalendar, C!CalendarSpec
=============================================================================
