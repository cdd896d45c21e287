---------------------------- MODULE EasyBF3Proofs ----------------------------
(***************************************************************************)
(* On every platform and for every workload, easy_bf3.cpp never gives a    *)
(* machine to two jobs and never loses one.  The inductive invariant is    *)
(* Sound: it adds to what is wanted that an entry of the schedule records  *)
(* the size of its job, which is what handle_finished_job adds back.       *)
(* And its reservation is the one of the head of the queue; the inductive  *)
(* invariant HeadInv follows p_job through the steps of make_decisions.    *)
(* The heap sort of its schedule, module HeapSort, stays within the vector *)
(* for a schedule of any size, only reorders it, and leaves it sorted.     *)
(***************************************************************************)
EXTENDS EasyBF3, HeapSort, FiniteSetTheorems, WellFoundedInduction, TLAPS

\* The schedule s, the available machines A and their number n, for the
\* workload w.
Sound(w, s, A, n) ==
    /\ s \in Seq(Scheduled_Job) /\ A \subseteq Machines /\ n \in Nat
    /\ n = Cardinality(A)
    /\ \A i \in DOMAIN s : s[i].allocated_machines \cap A = {}
    /\ \A i, k \in DOMAIN s :
         i # k => s[i].allocated_machines \cap s[k].allocated_machines = {}
    /\ \A m \in Machines \ A : \E i \in DOMAIN s : m \in s[i].allocated_machines
    /\ \A i \in DOMAIN s :
         /\ s[i].requested_resources = w[s[i].id].nb_requested_resources
         /\ Cardinality(s[i].allocated_machines) = s[i].requested_resources

Accounted == Sound(workload, scheduled_jobs, available_machines,
                   nb_available_machines)
-----------------------------------------------------------------------------
\* A set of machines is finite.
LEMMA MachinesFinite ==
    ASSUME NEW A, A \subseteq Machines
    PROVE  IsFiniteSet(A) /\ Cardinality(A) \in Nat
<1>1. IsFiniteSet(Machines)
    BY FS_Interval, EasyAssumption DEF Machines
<1>. QED
    BY <1>1, FS_Subset, FS_CardinalityType

\* What erase leaves of a vector.
LEMMA RemoveAtElements ==
    ASSUME NEW S, NEW s \in Seq(S), NEW i \in DOMAIN s
    PROVE  /\ RemoveAt(s, i) \in Seq(S)
           /\ DOMAIN RemoveAt(s, i) = 1..(Len(s) - 1)
           /\ \A k \in 1..(Len(s) - 1) :
                RemoveAt(s, i)[k] = IF k < i THEN s[k] ELSE s[k + 1]
<1>. DEFINE a == SubSeq(s, 1, i - 1)
            b == SubSeq(s, i + 1, Len(s))
<1>1. Len(s) \in Nat /\ i \in 1..Len(s)
    OBVIOUS
<1>2. /\ a \in Seq(S) /\ Len(a) = i - 1
      /\ \A k \in 1..(i - 1) : a[k] = s[k]
    BY <1>1
<1>3. /\ b \in Seq(S) /\ Len(b) = Len(s) - i
      /\ \A k \in 1..(Len(s) - i) : b[k] = s[i + k]
    BY <1>1
<1>4. RemoveAt(s, i) = a \o b
    BY DEF RemoveAt
<1>. HIDE DEF a, b
<1>5. /\ a \o b \in Seq(S) /\ Len(a \o b) = Len(s) - 1
      /\ \A k \in 1..(Len(s) - 1) :
           (a \o b)[k] = IF k <= i - 1 THEN a[k] ELSE b[k - (i - 1)]
    BY <1>1, <1>2, <1>3
<1>6. ASSUME NEW k \in 1..(Len(s) - 1)
      PROVE  (a \o b)[k] = IF k < i THEN s[k] ELSE s[k + 1]
  <2>1. CASE k < i
      BY <1>1, <1>2, <1>5, <2>1
  <2>2. CASE k >= i
    <3>1. (a \o b)[k] = b[k - (i - 1)]
        BY <1>1, <1>5, <2>2
    <3>2. k - (i - 1) \in 1..(Len(s) - i) /\ i + (k - (i - 1)) = k + 1
        BY <1>1, <2>2
    <3>. QED
        BY <1>1, <1>3, <2>2, <3>1, <3>2
  <2>3. k < i \/ k >= i
      BY <1>1
  <2>. QED
      BY <2>1, <2>2, <2>3
<1>. QED
    BY <1>4, <1>5, <1>6

\* A sorted version of a sequence has the same elements.
LEMMA PermutedElements ==
    ASSUME NEW S, NEW s \in Seq(S), NEW t \in Permuted(s)
    PROVE  /\ t \in Seq(S) /\ DOMAIN t = DOMAIN s
           /\ \E f \in [DOMAIN s -> DOMAIN s] :
                /\ \A i \in DOMAIN s : t[i] = s[f[i]]
                /\ \A i, k \in DOMAIN s : f[i] = f[k] => i = k
                /\ \A k \in DOMAIN s : \E i \in DOMAIN s : f[i] = k
<1>1. PICK f \in Bijection(DOMAIN s, DOMAIN s) :
        t = [i \in DOMAIN s |-> s[f[i]]]
    BY DEF Permuted
<1>2. /\ f \in [DOMAIN s -> DOMAIN s]
      /\ \A i, k \in DOMAIN s : f[i] = f[k] => i = k
      /\ \A k \in DOMAIN s : \E i \in DOMAIN s : f[i] = k
  <2>1. f \in Injection(DOMAIN s, DOMAIN s) /\ f \in Surjection(DOMAIN s, DOMAIN s)
      BY DEF Bijection
  <2>2. f \in [DOMAIN s -> DOMAIN s] /\ IsInjective(f)
      BY <2>1 DEF Injection
  <2>3. \A k \in DOMAIN s : \E i \in DOMAIN s : f[i] = k
      BY <2>1 DEF Surjection
  <2>4. \A i, k \in DOMAIN s : f[i] = f[k] => i = k
      BY <2>2 DEF IsInjective
  <2>. QED
      BY <2>2, <2>3, <2>4
<1>3. Len(s) \in Nat /\ DOMAIN s = 1..Len(s)
    OBVIOUS
<1>4. t \in [1..Len(s) -> S]
    BY <1>1, <1>2, <1>3
<1>5. t \in Seq(S) /\ DOMAIN t = DOMAIN s
    BY <1>3, <1>4
<1>. QED
    BY <1>1, <1>2, <1>5
-----------------------------------------------------------------------------
\* Sorting the schedule changes nothing.
LEMMA SortSound ==
    ASSUME NEW w, NEW s, NEW A, NEW n, Sound(w, s, A, n), NEW t \in Permuted(s)
    PROVE  Sound(w, t, A, n)
<1>1. s \in Seq(Scheduled_Job)
    BY DEF Sound
<1>2. /\ t \in Seq(Scheduled_Job) /\ DOMAIN t = DOMAIN s
      /\ \E f \in [DOMAIN s -> DOMAIN s] :
                /\ \A i \in DOMAIN s : t[i] = s[f[i]]
                /\ \A i, k \in DOMAIN s : f[i] = f[k] => i = k
                /\ \A k \in DOMAIN s : \E i \in DOMAIN s : f[i] = k
    BY <1>1, PermutedElements
<1>3. PICK f \in [DOMAIN s -> DOMAIN s] :
                /\ \A i \in DOMAIN s : t[i] = s[f[i]]
                /\ \A i, k \in DOMAIN s : f[i] = f[k] => i = k
                /\ \A k \in DOMAIN s : \E i \in DOMAIN s : f[i] = k
    BY <1>2
<1>4. \A i \in DOMAIN t : f[i] \in DOMAIN s /\ t[i] = s[f[i]]
    BY <1>2, <1>3
<1>5. \A i \in DOMAIN t : t[i].allocated_machines \cap A = {}
    BY <1>4 DEF Sound
<1>6. \A i, k \in DOMAIN t :
         i # k => t[i].allocated_machines \cap t[k].allocated_machines = {}
  <2>. SUFFICES ASSUME NEW i \in DOMAIN t, NEW k \in DOMAIN t, i # k
                PROVE  t[i].allocated_machines \cap t[k].allocated_machines = {}
      OBVIOUS
  <2>1. f[i] \in DOMAIN s /\ f[k] \in DOMAIN s /\ f[i] # f[k]
      BY <1>2, <1>3
  <2>2. s[f[i]].allocated_machines \cap s[f[k]].allocated_machines = {}
      BY <2>1 DEF Sound
  <2>. QED
      BY <1>4, <2>2
<1>7. \A m \in Machines \ A : \E i \in DOMAIN t : m \in t[i].allocated_machines
  <2>. SUFFICES ASSUME NEW m \in Machines, m \notin A
                PROVE  \E i \in DOMAIN t : m \in t[i].allocated_machines
      OBVIOUS
  <2>1. PICK k \in DOMAIN s : m \in s[k].allocated_machines
      BY DEF Sound
  <2>2. PICK i \in DOMAIN s : f[i] = k
      BY <1>3
  <2>. QED
      BY <1>2, <1>4, <2>1, <2>2
<1>8. \A i \in DOMAIN t :
         /\ t[i].requested_resources = w[t[i].id].nb_requested_resources
         /\ Cardinality(t[i].allocated_machines) = t[i].requested_resources
    BY <1>4 DEF Sound
<1>. QED
    BY <1>2, <1>5, <1>6, <1>7, <1>8 DEF Sound

\* handle_scheduled_job: a job starts on the leftmost available machines.
LEMMA StartSound ==
    ASSUME NEW w, NEW s, NEW A, NEW n, Sound(w, s, A, n),
           NEW e \in Scheduled_Job,
           e.requested_resources = w[e.id].nb_requested_resources,
           e.allocated_machines \in Leftmost(A, e.requested_resources)
    PROVE  Sound(w, Append(s, e), A \ e.allocated_machines,
                 n - e.requested_resources)
<1>. DEFINE B == e.allocated_machines
            r == e.requested_resources
            t == Append(s, e)
<1>1. B \subseteq A /\ Cardinality(B) = r
    BY DEF Leftmost
<1>2. s \in Seq(Scheduled_Job) /\ A \subseteq Machines /\ n \in Nat
      /\ n = Cardinality(A)
    BY DEF Sound
<1>3. /\ t \in Seq(Scheduled_Job) /\ Len(s) \in Nat
      /\ DOMAIN t = 1..(Len(s) + 1) /\ DOMAIN s = 1..Len(s)
      /\ \A i \in DOMAIN s : t[i] = s[i]
      /\ t[Len(s) + 1] = e
    BY <1>2
<1>4. IsFiniteSet(A) /\ IsFiniteSet(B) /\ IsFiniteSet(A \ B)
      /\ Cardinality(A \ B) \in Nat /\ Cardinality(B) \in Nat
    BY <1>1, <1>2, MachinesFinite
<1>5. Cardinality(A \ B) = n - r
  <2>1. Cardinality(A \ B) = Cardinality(A) - Cardinality(A \cap B)
      BY <1>4, FS_Difference
  <2>2. A \cap B = B
      BY <1>1
  <2>. QED
      BY <1>1, <1>2, <2>1, <2>2
<1>6. n - r \in Nat
    BY <1>4, <1>5
<1>7. \A i \in DOMAIN t : t[i].allocated_machines \cap (A \ B) = {}
  <2>. SUFFICES ASSUME NEW i \in DOMAIN t
                PROVE  t[i].allocated_machines \cap (A \ B) = {}
      OBVIOUS
  <2>1. CASE i \in DOMAIN s
      BY <1>3, <2>1 DEF Sound
  <2>2. CASE i = Len(s) + 1
      BY <1>3, <2>2
  <2>. QED
      BY <1>3, <2>1, <2>2
<1>8. ASSUME NEW i \in DOMAIN t, NEW k \in DOMAIN t, i # k
      PROVE  t[i].allocated_machines \cap t[k].allocated_machines = {}
  <2>1. CASE i \in DOMAIN s /\ k \in DOMAIN s
      BY <1>3, <1>8, <2>1 DEF Sound
  <2>2. CASE i \in DOMAIN s /\ k = Len(s) + 1
      BY <1>1, <1>3, <2>2 DEF Sound
  <2>3. CASE i = Len(s) + 1 /\ k \in DOMAIN s
      BY <1>1, <1>3, <2>3 DEF Sound
  <2>. QED
      BY <1>3, <1>8, <2>1, <2>2, <2>3
<1>9. ASSUME NEW m \in Machines, m \notin A \ B
      PROVE  \E i \in DOMAIN t : m \in t[i].allocated_machines
  <2>1. CASE m \in B
      BY <1>3, <2>1
  <2>2. CASE m \notin A
      BY <1>3, <2>2 DEF Sound
  <2>. QED
      BY <1>9, <2>1, <2>2
<1>10. ASSUME NEW i \in DOMAIN t
       PROVE  /\ t[i].requested_resources = w[t[i].id].nb_requested_resources
              /\ Cardinality(t[i].allocated_machines) = t[i].requested_resources
  <2>1. CASE i \in DOMAIN s
      BY <1>3, <2>1 DEF Sound
  <2>2. CASE i = Len(s) + 1
      BY <1>1, <1>3, <2>2
  <2>. QED
      BY <1>3, <2>1, <2>2
<1>11. A \ B \subseteq Machines
    BY <1>2
<1>. HIDE DEF t, B, r
<1>12. Sound(w, t, A \ B, n - r)
    BY <1>3, <1>5, <1>6, <1>7, <1>8, <1>9, <1>10, <1>11 DEF Sound
<1>. QED
    BY <1>12 DEF t, B, r

\* handle_finished_job: the machines of an entry come back with it.
LEMMA FinishSound ==
    ASSUME NEW w, NEW s, NEW A, NEW n, Sound(w, s, A, n), NEW i \in DOMAIN s
    PROVE  Sound(w, RemoveAt(s, i), A \cup s[i].allocated_machines,
                 n + s[i].requested_resources)
<1>. DEFINE B == s[i].allocated_machines
            r == s[i].requested_resources
            t == RemoveAt(s, i)
            from(k) == IF k < i THEN k ELSE k + 1
<1>1. s \in Seq(Scheduled_Job) /\ A \subseteq Machines /\ n \in Nat
      /\ n = Cardinality(A)
    BY DEF Sound
<1>2. /\ t \in Seq(Scheduled_Job) /\ DOMAIN t = 1..(Len(s) - 1)
      /\ \A k \in 1..(Len(s) - 1) : t[k] = IF k < i THEN s[k] ELSE s[k + 1]
    BY <1>1, RemoveAtElements
<1>3. Len(s) \in Nat /\ DOMAIN s = 1..Len(s) /\ i \in 1..Len(s)
    BY <1>1
<1>4. \A k \in DOMAIN t : from(k) \in DOMAIN s /\ from(k) # i /\ t[k] = s[from(k)]
    BY <1>2, <1>3
<1>5. \A k, l \in DOMAIN t : k # l => from(k) # from(l)
    BY <1>2, <1>3
<1>6. \A l \in DOMAIN s \ {i} : \E k \in DOMAIN t : from(k) = l
  <2>. SUFFICES ASSUME NEW l \in DOMAIN s, l # i
                PROVE  \E k \in DOMAIN t : from(k) = l
      OBVIOUS
  <2>1. CASE l < i
    <3>1. l \in DOMAIN t /\ from(l) = l
        BY <1>2, <1>3, <2>1
    <3>. QED
        BY <3>1
  <2>2. CASE l > i
    <3>1. l - 1 \in DOMAIN t /\ from(l - 1) = l
        BY <1>2, <1>3, <2>2
    <3>. QED
        BY <3>1
  <2>. QED
      BY <1>3, <2>1, <2>2
<1>7. s[i] \in Scheduled_Job
    BY <1>1
<1>8. B \subseteq Machines /\ r \in Nat /\ Cardinality(B) = r /\ B \cap A = {}
    BY <1>7 DEF Sound, Scheduled_Job
<1>9. n + r = Cardinality(A \cup B) /\ n + r \in Nat
  <2>1. IsFiniteSet(A) /\ IsFiniteSet(B)
      BY <1>1, <1>8, MachinesFinite
  <2>2. Cardinality(A \cup B)
          = Cardinality(A) + Cardinality(B) - Cardinality(A \cap B)
      BY <2>1, FS_Union
  <2>3. Cardinality(A \cap B) = 0
      BY <1>8, FS_EmptySet
  <2>. QED
      BY <1>1, <1>8, <2>2, <2>3
<1>. HIDE DEF from
<1>10. \A k \in DOMAIN t : t[k].allocated_machines \cap (A \cup B) = {}
  <2>. SUFFICES ASSUME NEW k \in DOMAIN t
                PROVE  t[k].allocated_machines \cap (A \cup B) = {}
      OBVIOUS
  <2>1. from(k) \in DOMAIN s /\ from(k) # i /\ t[k] = s[from(k)]
      BY <1>4
  <2>2. s[from(k)].allocated_machines \cap A = {}
      BY <2>1 DEF Sound
  <2>3. s[from(k)].allocated_machines \cap B = {}
      BY <2>1 DEF Sound
  <2>. QED
      BY <2>1, <2>2, <2>3
<1>11. \A k, l \in DOMAIN t :
         k # l => t[k].allocated_machines \cap t[l].allocated_machines = {}
    BY <1>4, <1>5 DEF Sound
<1>12. ASSUME NEW m \in Machines, m \notin A \cup B
       PROVE  \E k \in DOMAIN t : m \in t[k].allocated_machines
  <2>1. PICK l \in DOMAIN s : m \in s[l].allocated_machines
      BY <1>12 DEF Sound
  <2>2. l # i
      BY <1>12, <2>1
  <2>. QED
      BY <1>4, <1>6, <2>1, <2>2
<1>13. \A k \in DOMAIN t :
         /\ t[k].requested_resources = w[t[k].id].nb_requested_resources
         /\ Cardinality(t[k].allocated_machines) = t[k].requested_resources
    BY <1>4 DEF Sound
<1>14. A \cup B \subseteq Machines
    BY <1>1, <1>8
<1>. HIDE DEF t, B, r
<1>15. Sound(w, t, A \cup B, n + r)
    BY <1>2, <1>9, <1>10, <1>11, <1>12, <1>13, <1>14 DEF Sound
<1>. QED
    BY <1>15 DEF t, B, r
-----------------------------------------------------------------------------
\* The attributes of a job are numbers.
LEMMA JobAttributes ==
    ASSUME TypeOK, NEW j \in Jobs
    PROVE  Req(j) \in Nat /\ Walltime(j) \in Nat
<1>1. workload \in [Jobs -> Job]
    BY EasyAssumption DEF TypeOK
<1>2. workload[j] \in Job
    BY <1>1
<1>. QED
    BY <1>2 DEF Job, Req, Walltime

\* first_job_or_nullptr returns a job or nullptr.
LEMMA FirstType ==
    ASSUME NEW q \in Seq(Jobs)
    PROVE  First(q) \in Jobs \cup {None}
<1>1. CASE q = <<>>
    BY <1>1 DEF First
<1>2. CASE q # <<>>
  <2>1. q[1] \in Jobs
      BY <1>2
  <2>. QED
      BY <1>2, <2>1 DEF First
<1>. QED
    BY <1>1, <1>2

\* A job that starts leaves the machines accounted for.
LEMMA ExecuteSound ==
    ASSUME TypeOK, Accounted, NEW j \in Jobs, Execute(j)
    PROVE  /\ Sound(workload, scheduled_jobs', available_machines',
                    nb_available_machines')
           /\ queue' \in Seq(Jobs)
           /\ status' \in [Jobs -> Status]
<1>1. PICK A \in Leftmost(available_machines, Req(j)) :
        /\ scheduled_jobs' \in SortedVersions(Append(scheduled_jobs,
             [id |-> j, requested_resources |-> Req(j),
              est_finish_time |-> date + Walltime(j), allocated_machines |-> A]))
        /\ available_machines' = available_machines \ A
    BY DEF Execute
<1>. DEFINE e == [id |-> j, requested_resources |-> Req(j),
                  est_finish_time |-> date + Walltime(j),
                  allocated_machines |-> A]
<1>2. A \subseteq Machines
    BY DEF Leftmost, TypeOK
<1>3. date + Walltime(j) \in Nat /\ Req(j) \in Nat
    BY JobAttributes DEF TypeOK
<1>4. e \in Scheduled_Job
    BY <1>2, <1>3 DEF Scheduled_Job
<1>5. e.requested_resources = workload[e.id].nb_requested_resources
    BY DEF Req
<1>6. e.allocated_machines \in Leftmost(available_machines, e.requested_resources)
    BY <1>1
<1>7. e.allocated_machines = A /\ e.requested_resources = Req(j)
    OBVIOUS
<1>8. scheduled_jobs' \in Permuted(Append(scheduled_jobs, e))
    BY <1>1 DEF SortedVersions
<1>. HIDE DEF e
<1>9. Sound(workload, Append(scheduled_jobs, e), available_machines \ A,
            nb_available_machines - Req(j))
    BY <1>4, <1>5, <1>6, <1>7, StartSound DEF Accounted
<1>10. Sound(workload, scheduled_jobs', available_machines \ A,
             nb_available_machines - Req(j))
    BY <1>8, <1>9, SortSound
<1>11. nb_available_machines' = nb_available_machines - Req(j)
    BY DEF Execute
<1>12. queue' \in Seq(Jobs)
    BY RemoveAtElements DEF Execute, Dequeue, TypeOK
<1>13. status' \in [Jobs -> Status]
    BY DEF Execute, TypeOK, Status
<1>. QED
    BY <1>1, <1>10, <1>11, <1>12, <1>13

\* check_priority_job, when the job starts.
LEMMA RunPriorityType ==
    ASSUME TypeOK, Accounted, NEW j \in Jobs, RunPriority(j)
    PROVE  /\ Sound(workload, scheduled_jobs', available_machines',
                    nb_available_machines')
           /\ queue' \in Seq(Jobs)
           /\ status' \in [Jobs -> Status]
           /\ p_job' \in Priority_Job
           /\ priority_job_after' \in Jobs \cup {None}
           /\ UNCHANGED scanVars
<1>1. Execute(j) /\ UNCHANGED scanVars /\ priority_job_after' = First(queue')
    BY DEF RunPriority
<1>2. /\ Sound(workload, scheduled_jobs', available_machines',
                    nb_available_machines')
      /\ queue' \in Seq(Jobs)
      /\ status' \in [Jobs -> Status]
    BY <1>1, ExecuteSound
<1>3. p_job' \in Priority_Job
    BY JobAttributes DEF RunPriority, TypeOK, Priority_Job
<1>. QED
    BY <1>1, <1>2, <1>3, FirstType

\* check_priority_job, when the job must wait.
LEMMA ReservePriorityType ==
    ASSUME TypeOK, NEW j \in Jobs, ReservePriority(j)
    PROVE  /\ p_job' \in Priority_Job
           /\ machine_count' \in Nat /\ scan' \in Nat /\ scan' > 0
           /\ pc' = "reserve"
           /\ UNCHANGED <<status, queue, machineVars, priority_job_after>>
<1>1. p_job' \in Priority_Job
    BY JobAttributes DEF ReservePriority, TypeOK, Priority_Job
<1>. QED
    BY <1>1 DEF ReservePriority, TypeOK
-----------------------------------------------------------------------------
\* The part of the type invariant that is not about the machines.
RestOK ==
    /\ workload \in Workloads
    /\ date \in Nat /\ status \in [Jobs -> Status]
    /\ jobs_ended_recently \in Seq(Jobs) /\ jobs_released_recently \in Seq(Jobs)
    /\ queue \in Seq(Jobs)
    /\ p_job \in Priority_Job
    /\ pc \in {"return", "finished", "released", "priority", "reserve", "backfill"}
    /\ priority_job_before \in Jobs \cup {None}
    /\ priority_job_after \in Jobs \cup {None}
    /\ recently_queued_jobs \in Seq(Jobs) /\ cursor \in Nat
    /\ machine_count \in Nat /\ scan \in Nat
    /\ pc # "return" => cursor > 0
    /\ pc = "reserve" => scan > 0

\* The two parts make up the type invariant.
LEMMA TypeFromParts == Accounted /\ RestOK => TypeOK
    BY DEF Accounted, Sound, RestOK, TypeOK

\* The type invariant has this part.
LEMMA PartsFromType == TypeOK => RestOK
    BY DEF RestOK, TypeOK

\* Steps that leave the machines alone.
LEMMA SameMachines ==
    ASSUME Accounted, UNCHANGED <<workload, machineVars>>
    PROVE  Accounted'
    BY DEF Accounted, machineVars

\* Steps that change the machines.
LEMMA NewMachines ==
    ASSUME Sound(workload, scheduled_jobs', available_machines',
                 nb_available_machines'), UNCHANGED workload
    PROVE  Accounted'
    BY DEF Accounted
-----------------------------------------------------------------------------
\* No job has been submitted and every machine is available.
LEMMA InitSound == Init => TypeOK /\ Accounted
<1>. SUFFICES ASSUME Init PROVE TypeOK /\ Accounted
    OBVIOUS
<1>1. Cardinality(Machines) = NbMachines /\ NbMachines \in Nat
  <2>1. Cardinality(0..(NbMachines - 1)) = (NbMachines - 1) - 0 + 1
      BY FS_Interval, EasyAssumption
  <2>. QED
      BY <2>1, EasyAssumption DEF Machines
<1>2. Accounted
    BY <1>1 DEF Init, Accounted, Sound
<1>3. RestOK
  <2>1. p_job \in Priority_Job
      BY DEF Init, Priority_Job
  <2>. QED
      BY <2>1 DEF Init, RestOK, Status
<1>. QED
    BY <1>2, <1>3, TypeFromParts

\* Every step keeps the types and the account of the machines.
LEMMA StepSound == TypeOK /\ Accounted /\ [Next]_vars => (TypeOK /\ Accounted)'
<1>. SUFFICES ASSUME TypeOK, Accounted, [Next]_vars
              PROVE  RestOK' /\ Accounted'
    BY TypeFromParts DEF TypeOK, Accounted, Sound, RestOK
<1>0. RestOK
    BY PartsFromType
<1>1. CASE Tick
    BY <1>0, <1>1, SameMachines DEF Tick, RestOK, recentVars, callVars, jobVars, scanVars
<1>2. ASSUME NEW j \in Jobs, Submit(j) PROVE RestOK' /\ Accounted'
    BY <1>0, <1>2, SameMachines
    DEF Submit, RestOK, Status, callVars, jobVars, scanVars
<1>3. ASSUME NEW j \in Jobs, Complete(j) PROVE RestOK' /\ Accounted'
    BY <1>0, <1>3, SameMachines
    DEF Complete, RestOK, Status, callVars, jobVars, scanVars
<1>4. CASE make_decisions
    BY <1>0, <1>4, SameMachines, FirstType
    DEF make_decisions, RestOK, recentVars, scanVars
<1>5. CASE handle_finished_job
  <2>1. PICK i \in DOMAIN scheduled_jobs :
          /\ ReleaseMachines(i)
          /\ scheduled_jobs' = RemoveAt(scheduled_jobs, i)
      BY <1>5 DEF handle_finished_job
  <2>2. Sound(workload, scheduled_jobs', available_machines',
              nb_available_machines')
      BY <2>1, FinishSound DEF ReleaseMachines, Accounted
  <2>3. Accounted'
      BY <1>5, <2>2, NewMachines DEF handle_finished_job
  <2>4. status' \in [Jobs -> Status]
      BY <1>0, <1>5 DEF handle_finished_job, RestOK, Status
  <2>5. cursor' \in Nat /\ cursor' > 0
      BY <1>0, <1>5 DEF handle_finished_job, RestOK
  <2>. QED
      BY <1>0, <1>5, <2>3, <2>4, <2>5
      DEF handle_finished_job, RestOK, recentVars, jobVars, scanVars
<1>6. CASE AllFinished
    BY <1>0, <1>6, SameMachines
    DEF AllFinished, RestOK, recentVars, jobVars, scanVars
<1>7. CASE HandleReleased
  <2>1. jobs_released_recently[cursor] \in Jobs /\ cursor' \in Nat /\ cursor' > 0
      BY <1>0, <1>7 DEF HandleReleased, RestOK
  <2>2. status' \in [Jobs -> Status]
    <3>1. \E x \in Status :
            status' = [status EXCEPT ![jobs_released_recently[cursor]] = x]
        BY <1>7 DEF HandleReleased, Status
    <3>. QED
        BY <1>0, <3>1 DEF RestOK
  <2>3. queue' \in Seq(Jobs) /\ recently_queued_jobs' \in Seq(Jobs)
    <3>1. \/ UNCHANGED <<queue, recently_queued_jobs>>
          \/ /\ queue' = Append(queue, jobs_released_recently[cursor])
             /\ recently_queued_jobs'
                  = Append(recently_queued_jobs, jobs_released_recently[cursor])
        BY <1>7 DEF HandleReleased
    <3>2. queue \in Seq(Jobs) /\ recently_queued_jobs \in Seq(Jobs)
        BY <1>0 DEF RestOK
    <3>3. \A q \in Seq(Jobs) : Append(q, jobs_released_recently[cursor]) \in Seq(Jobs)
        BY <2>1
    <3>. QED
        BY <3>1, <3>2, <3>3
  <2>4. Accounted'
      BY <1>7, SameMachines DEF HandleReleased
  <2>. QED
      BY <1>0, <1>7, <2>1, <2>2, <2>4, <2>3 DEF HandleReleased, RestOK, recentVars, scanVars
<1>8. CASE SortQueue
  <2>1. queue' \in Seq(Jobs)
      BY <1>0, <1>8, PermutedElements DEF SortQueue, SortedQueues, RestOK
  <2>2. priority_job_after' \in Jobs \cup {None}
      BY <1>8, <2>1, FirstType DEF SortQueue
  <2>3. Accounted'
      BY <1>8, SameMachines DEF SortQueue
  <2>4. pc' \in {"priority", "backfill"} /\ cursor' = 1
        /\ UNCHANGED <<workload, date, status, recentVars, p_job,
                       priority_job_before, recently_queued_jobs, scanVars>>
      BY <1>8 DEF SortQueue
  <2>. QED
      BY <1>0, <2>1, <2>2, <2>3, <2>4 DEF RestOK, recentVars, scanVars
<1>9. CASE SortQueuePriority
  <2>1. UNCHANGED <<workload, date, recentVars, priority_job_before,
                    recently_queued_jobs, cursor>> /\ pc = "priority"
      BY <1>9 DEF SortQueuePriority
  <2>2. CASE priority_job_after # None /\ RunPriority(priority_job_after)
             /\ UNCHANGED pc
    <3>1. priority_job_after \in Jobs
        BY <1>0, <2>2 DEF RestOK
    <3>. QED
        BY <1>0, <2>1, <2>2, <3>1, RunPriorityType, NewMachines
        DEF RestOK, recentVars, scanVars
  <2>3. CASE priority_job_after # None /\ ReservePriority(priority_job_after)
    <3>1. priority_job_after \in Jobs
        BY <1>0, <2>3 DEF RestOK
    <3>. QED
        BY <1>0, <2>1, <2>3, <3>1, ReservePriorityType, SameMachines
        DEF RestOK, recentVars
  <2>4. CASE /\ pc' = "backfill"
             /\ UNCHANGED <<status, queue, machineVars, p_job,
                            priority_job_after, scanVars>>
      BY <1>0, <2>1, <2>4, SameMachines DEF RestOK, recentVars, scanVars
  <2>. QED
      BY <1>9, <2>2, <2>3, <2>4 DEF SortQueuePriority
<1>10. CASE ReserveScan
  <2>1. Accounted'
      BY <1>10, SameMachines DEF ReserveScan
  <2>2. scheduled_jobs[scan] \in Scheduled_Job
      BY <1>10 DEF ReserveScan, TypeOK
  <2>3. /\ scheduled_jobs[scan].est_finish_time \in Nat
        /\ scheduled_jobs[scan].requested_resources \in Nat
      BY <2>2 DEF Scheduled_Job
  <2>4. p_job.requested_resources \in Nat
      BY <1>0 DEF RestOK, Priority_Job
  <2>5. machine_count' \in Nat
      BY <1>0, <1>10, <2>3 DEF ReserveScan, RestOK
  <2>6. UNCHANGED <<workload, date, status, recentVars, queue, jobVars, cursor>>
      BY <1>10 DEF ReserveScan
  <2>7. CASE Enough(machine_count')
    <3>1. machine_count' - p_job.requested_resources \in Nat
        BY <2>4, <2>5, <2>7 DEF Enough
    <3>2. p_job' = [p_job EXCEPT
               !.shadow_time = scheduled_jobs[scan].est_finish_time,
               !.extra_resources = machine_count' - p_job.requested_resources]
          /\ pc' = "backfill" /\ UNCHANGED scan
        BY <1>10, <2>7 DEF ReserveScan
    <3>3. p_job' \in Priority_Job
        BY <1>0, <2>3, <3>1, <3>2 DEF RestOK, Priority_Job
    <3>. QED
        BY <1>0, <1>10, <2>1, <2>5, <2>6, <3>2, <3>3
        DEF RestOK, ReserveScan, recentVars, jobVars
  <2>8. CASE ~Enough(machine_count')
    <3>1. scan' = scan + 1 /\ UNCHANGED <<p_job, pc>>
        BY <1>10, <2>8 DEF ReserveScan
    <3>2. scan' \in Nat /\ scan' > 0
        BY <1>0, <3>1 DEF RestOK
    <3>. QED
        BY <1>0, <2>1, <2>5, <2>6, <3>1, <3>2 DEF RestOK, recentVars, jobVars
  <2>. QED
      BY <2>7, <2>8
<1>11. CASE BackfillNew
  <2>. DEFINE j == recently_queued_jobs[cursor]
  <2>1. j \in Jobs /\ cursor' \in Nat /\ cursor' > 0
      BY <1>0, <1>11 DEF BackfillNew, RestOK
  <2>2. UNCHANGED <<workload, date, recentVars, p_job, pc, jobVars, scanVars>>
      BY <1>11 DEF BackfillNew
  <2>3. CASE Execute(j)
      BY <1>0, <2>1, <2>2, <2>3, ExecuteSound, NewMachines
      DEF RestOK, recentVars, jobVars, scanVars
  <2>4. CASE UNCHANGED <<status, queue, machineVars>>
      BY <1>0, <2>1, <2>2, <2>4, SameMachines
      DEF RestOK, recentVars, jobVars, scanVars
  <2>. QED
      BY <1>11, <2>3, <2>4 DEF BackfillNew
<1>12. CASE BackfillAll
  <2>. DEFINE j == queue[cursor]
  <2>1. j \in Jobs /\ cursor + 1 \in Nat /\ cursor + 1 > 0
      BY <1>0, <1>12 DEF BackfillAll, RestOK
  <2>2. UNCHANGED <<workload, date, recentVars, priority_job_before,
                    recently_queued_jobs>> /\ pc = "backfill"
      BY <1>12 DEF BackfillAll
  <2>3. CASE RunPriority(j) /\ UNCHANGED <<pc, cursor>>
      BY <1>0, <2>1, <2>2, <2>3, RunPriorityType, NewMachines
      DEF RestOK, recentVars, scanVars
  <2>4. CASE ReservePriority(j) /\ cursor' = cursor + 1
      BY <1>0, <2>1, <2>2, <2>4, ReservePriorityType, SameMachines
      DEF RestOK, recentVars
  <2>5. CASE Execute(j) /\ UNCHANGED <<p_job, pc, priority_job_after, cursor,
                                      scanVars>>
      BY <1>0, <2>1, <2>2, <2>5, ExecuteSound, NewMachines
      DEF RestOK, recentVars, scanVars
  <2>6. CASE /\ cursor' = cursor + 1
             /\ UNCHANGED <<status, queue, machineVars, p_job, pc,
                            priority_job_after, scanVars>>
      BY <1>0, <2>1, <2>2, <2>6, SameMachines DEF RestOK, recentVars, scanVars
  <2>. QED
      BY <1>12, <2>3, <2>4, <2>5, <2>6 DEF BackfillAll
<1>13. CASE Return
    BY <1>0, <1>13, SameMachines DEF Return, RestOK
<1>14. CASE UNCHANGED vars
    BY <1>0, <1>14, SameMachines
    DEF vars, RestOK, recentVars, callVars, jobVars, scanVars
<1>. QED
    BY <1>1, <1>2, <1>3, <1>4, <1>5, <1>6, <1>7, <1>8, <1>9, <1>10, <1>11,
       <1>12, <1>13, <1>14 DEF Next
-----------------------------------------------------------------------------
\* The account of the machines implies the two properties that TLC checks.
LEMMA AccountedMachines == TypeOK /\ Accounted => MachinesSharedOut /\ MachinesCounted
<1>. SUFFICES ASSUME TypeOK, Accounted
              PROVE  MachinesSharedOut /\ MachinesCounted
    OBVIOUS
<1>1. \A i \in DOMAIN scheduled_jobs : scheduled_jobs[i].allocated_machines \subseteq Machines
  <2>1. \A i \in DOMAIN scheduled_jobs : scheduled_jobs[i] \in Scheduled_Job
      BY DEF TypeOK
  <2>. QED
      BY <2>1 DEF Scheduled_Job
<1>2. MachinesSharedOut
    BY <1>1 DEF MachinesSharedOut, Allocation, Accounted, Sound
<1>3. MachinesCounted
    BY DEF MachinesCounted, Allocation, Accounted, Sound, Req
<1>. QED
    BY <1>2, <1>3

\* The variables of the scheduler keep their types: _nb_available_machines and
\* the reservation's extra_resources never go below zero (easy_bf3.cpp).
THEOREM SchedulerTypes == Spec => []TypeOK
<1>1. Spec => [](TypeOK /\ Accounted)
    BY InitSound, StepSound, PTL DEF Spec
<1>. QED
    BY <1>1, PTL

\* Whatever the platform and the workload, no machine is ever given to two
\* jobs at a time, none is lost, and the number of available machines that
\* easy_bf3.cpp decides with is exact.
THEOREM NoMachineShared == Spec => [](MachinesSharedOut /\ MachinesCounted)
<1>1. Spec => [](TypeOK /\ Accounted)
    BY InitSound, StepSound, PTL DEF Spec
<1>. QED
    BY <1>1, AccountedMachines, PTL
-----------------------------------------------------------------------------
(* The head of the queue and its reservation.                              *)

InOrder(q) == \A i, k \in DOMAIN q : i < k => Precedes(q[i], q[k])

\* The queue is in order but while the released jobs are appended to it.
\* p_job is the reservation of the head when the call returns.  Meanwhile it
\* may be stale: when a job ended, until BackfillAll meets the head, which
\* comes first; when none did, no machine became available, and p_job is
\* right unless another job has come before the head.
HeadInv ==
    /\ pc # "released" => InOrder(queue)
    /\ pc \in {"priority", "reserve", "backfill"} => priority_job_after = First(queue)
    /\ pc = "return" /\ queue # <<>> /\ nb_available_machines > 0
         => p_job.id = queue[1]
    /\ pc \in {"finished", "released"} /\ jobs_ended_recently = <<>> =>
         (nb_available_machines > 0 /\ priority_job_before # None =>
            p_job.id = priority_job_before)
    /\ pc = "reserve" => p_job.id = priority_job_after
    /\ pc = "backfill" /\ queue # <<>> /\ nb_available_machines > 0
         => p_job.id = queue[1] \/ (jobs_ended_recently # <<>> /\ cursor = 1)

\* A queue is empty exactly when it has no first job.
LEMMA FirstOfQueue ==
    ASSUME NEW q \in Seq(Jobs)
    PROVE  /\ q = <<>> <=> First(q) = None
           /\ q # <<>> => First(q) = q[1] /\ q[1] \in Jobs /\ 1 \in DOMAIN q
<1>1. q # <<>> => q[1] \in Jobs /\ 1 \in DOMAIN q
    OBVIOUS
<1>. QED
    BY <1>1, EasyAssumption DEF First

\* No job precedes itself.
LEMMA PrecedesStrictly ==
    ASSUME TypeOK, NEW j \in Jobs
    PROVE  ~Precedes(j, j)
<1>1. Subtime(j) = Subtime(j) /\ Number[j] \in Nat
    BY EasyAssumption
<1>. QED
    BY <1>1 DEF Precedes

\* A job leaves a queue in order; when it is not the first one, the first one
\* stays.
LEMMA DequeueInOrder ==
    ASSUME queue \in Seq(Jobs), InOrder(queue), NEW j, Dequeue(j),
           UNCHANGED workload
    PROVE  /\ queue' \in Seq(Jobs) /\ InOrder(queue)'
           /\ j # First(queue) => queue' # <<>> /\ First(queue') = First(queue)
<1>1. PICK i \in DOMAIN queue : queue[i] = j /\ queue' = RemoveAt(queue, i)
    BY DEF Dequeue
<1>2. /\ queue' \in Seq(Jobs) /\ DOMAIN queue' = 1..(Len(queue) - 1)
      /\ \A k \in 1..(Len(queue) - 1) :
           queue'[k] = IF k < i THEN queue[k] ELSE queue[k + 1]
    BY <1>1, RemoveAtElements
<1>3. /\ Len(queue) \in Nat /\ DOMAIN queue = 1..Len(queue) /\ i \in 1..Len(queue)
    BY <1>1
<1>4. \A a, b : Precedes(a, b)' = Precedes(a, b)
    BY DEF Precedes, Subtime
<1>5. InOrder(queue)'
  <2>1. ASSUME NEW k \in DOMAIN queue', NEW l \in DOMAIN queue', k < l
        PROVE  Precedes(queue'[k], queue'[l])
    <3>. DEFINE old(n) == IF n < i THEN n ELSE n + 1
    <3>1. /\ old(k) \in DOMAIN queue /\ old(l) \in DOMAIN queue /\ old(k) < old(l)
          /\ queue'[k] = queue[old(k)] /\ queue'[l] = queue[old(l)]
        BY <1>2, <1>3, <2>1
    <3>. QED
        BY <3>1 DEF InOrder
  <2>. QED
      BY <1>4, <2>1 DEF InOrder
<1>6. ASSUME j # First(queue)
      PROVE  queue' # <<>> /\ First(queue') = First(queue)
  <2>1. queue # <<>> /\ i # 1
      BY <1>1, <1>3, <1>6 DEF First
  <2>2. 1 \in DOMAIN queue' /\ queue'[1] = queue[1]
      BY <1>2, <1>3, <2>1
  <2>3. queue' # <<>>
      BY <2>2
  <2>. QED
      BY <2>1, <2>2, <2>3 DEF First
<1>. QED
    BY <1>2, <1>5, <1>6

\* A job that starts leaves the queue and takes machines.
LEMMA ExecuteQueue ==
    ASSUME TypeOK, InOrder(queue), NEW j \in Jobs, Execute(j), UNCHANGED workload
    PROVE  /\ queue' \in Seq(Jobs) /\ InOrder(queue)' /\ queue # <<>>
           /\ j # First(queue) => queue' # <<>> /\ First(queue') = First(queue)
           /\ nb_available_machines' <= nb_available_machines
<1>1. Dequeue(j) /\ nb_available_machines' = nb_available_machines - Req(j)
    BY DEF Execute
<1>2. queue \in Seq(Jobs) /\ nb_available_machines \in Nat /\ Req(j) \in Nat
    BY JobAttributes DEF TypeOK
<1>3. queue # <<>>
    BY <1>1 DEF Dequeue
<1>. QED
    BY <1>1, <1>2, <1>3, DequeueInOrder

\* Every step keeps the head and its reservation.
LEMMA HeadStep == TypeOK /\ HeadInv /\ [Next]_vars => HeadInv'
<1>. SUFFICES ASSUME TypeOK, HeadInv, [Next]_vars
              PROVE  HeadInv'
    OBVIOUS
<1>0. /\ queue \in Seq(Jobs) /\ nb_available_machines \in Nat /\ cursor \in Nat
      /\ p_job \in Priority_Job
      /\ jobs_ended_recently \in Seq(Jobs)
    BY DEF TypeOK
<1>a. \A j : [p_job EXCEPT !.id = j, !.requested_resources = Req(j)].id = j
    BY <1>0 DEF Priority_Job
<1>b. UNCHANGED <<workload, queue>> => InOrder(queue)' = InOrder(queue)
    BY DEF InOrder, Precedes, Subtime
<1>1. CASE Tick
    BY <1>1, <1>b DEF Tick, HeadInv, recentVars, machineVars, callVars
<1>2. ASSUME NEW j \in Jobs, Submit(j) PROVE HeadInv'
    BY <1>2, <1>b DEF Submit, HeadInv, machineVars, callVars
<1>3. ASSUME NEW j \in Jobs, Complete(j) PROVE HeadInv'
    BY <1>3, <1>b DEF Complete, HeadInv, machineVars, callVars
<1>4. CASE make_decisions
  <2>1. queue # <<>> => First(queue) = queue[1]
      BY <1>0, FirstOfQueue
  <2>2. queue = <<>> => First(queue) = None
      BY DEF First
  <2>. QED
      BY <1>4, <1>b, <2>1, <2>2 DEF make_decisions, HeadInv, machineVars
<1>5. CASE handle_finished_job
  <2>1. jobs_ended_recently # <<>>
      BY <1>5, <1>0 DEF handle_finished_job, TypeOK
  <2>. QED
      BY <1>5, <1>b, <2>1 DEF handle_finished_job, HeadInv, recentVars
<1>6. CASE AllFinished
    BY <1>6 DEF AllFinished, HeadInv, recentVars, machineVars, jobVars
<1>7. CASE HandleReleased
    BY <1>7 DEF HandleReleased, HeadInv, recentVars, machineVars
<1>8. CASE SortQueue
  <2>1. /\ queue' \in SortedQueues(queue)
        /\ priority_job_after' = First(queue')
        /\ pc' = IF First(queue') # priority_job_before THEN "priority" ELSE "backfill"
        /\ cursor' = 1 /\ pc = "released"
        /\ UNCHANGED <<workload, recentVars, machineVars, p_job, priority_job_before>>
      BY <1>8 DEF SortQueue
  <2>2. queue' \in Seq(Jobs) /\ InOrder(queue)'
    <3>1. queue' \in Permuted(queue)
        BY <2>1 DEF SortedQueues
    <3>2. queue' \in Seq(Jobs)
        BY <1>0, <3>1, PermutedElements
    <3>3. \A i, k \in DOMAIN queue' : i < k => Precedes(queue'[i], queue'[k])
        BY <2>1 DEF SortedQueues
    <3>4. \A a, b : Precedes(a, b)' = Precedes(a, b)
        BY <2>1 DEF Precedes, Subtime
    <3>. QED
        BY <3>2, <3>3, <3>4 DEF InOrder
  <2>3. queue' # <<>> => First(queue') = queue'[1] /\ First(queue') # None
      BY <2>2, FirstOfQueue
  <2>4. CASE First(queue') # priority_job_before
      BY <2>1, <2>2, <2>4 DEF HeadInv
  <2>5. CASE First(queue') = priority_job_before
    <3>1. /\ pc' = "backfill" /\ cursor' = 1
          /\ UNCHANGED <<jobs_ended_recently, nb_available_machines, p_job>>
        BY <2>1, <2>5 DEF recentVars, machineVars
    <3>2. ASSUME queue' # <<>>, nb_available_machines > 0
          PROVE  p_job.id = queue'[1] \/ jobs_ended_recently # <<>>
        BY <2>1, <2>3, <2>5, <3>2 DEF HeadInv
    <3>. QED
        BY <2>1, <2>2, <3>1, <3>2 DEF HeadInv
  <2>. QED
      BY <2>4, <2>5
<1>9. CASE SortQueuePriority
  <2>1. pc = "priority" /\ UNCHANGED <<workload, recentVars, cursor>>
        /\ InOrder(queue) /\ priority_job_after = First(queue)
      BY <1>9 DEF SortQueuePriority, HeadInv
  <2>2. CASE priority_job_after # None /\ RunPriority(priority_job_after)
             /\ UNCHANGED pc
    <3>1. priority_job_after \in Jobs
        BY <2>2 DEF TypeOK
    <3>2. Execute(priority_job_after) /\ priority_job_after' = First(queue')
        BY <2>2 DEF RunPriority
    <3>3. InOrder(queue)'
        BY <2>1, <3>1, <3>2, ExecuteQueue
    <3>. QED
        BY <2>1, <2>2, <3>2, <3>3 DEF HeadInv
  <2>3. CASE priority_job_after # None /\ ReservePriority(priority_job_after)
    <3>1. pc' = "reserve" /\ UNCHANGED <<queue, priority_job_after>>
          /\ p_job'.id = priority_job_after
        BY <1>a, <2>3 DEF ReservePriority
    <3>. QED
        BY <1>b, <2>1, <3>1 DEF HeadInv
  <2>4. CASE /\ priority_job_after = None /\ pc' = "backfill"
             /\ UNCHANGED <<status, queue, machineVars, p_job,
                            priority_job_after, scanVars>>
    <3>1. queue = <<>>
        BY <1>0, <2>1, <2>4, FirstOfQueue
    <3>. QED
        BY <1>b, <2>1, <2>4, <3>1 DEF HeadInv
  <2>. QED
      BY <1>9, <2>2, <2>3, <2>4 DEF SortQueuePriority
<1>10. CASE ReserveScan
  <2>1. /\ pc = "reserve" /\ UNCHANGED <<workload, recentVars, queue, machineVars,
                                        jobVars, cursor>>
        /\ pc' \in {"reserve", "backfill"}
      BY <1>10 DEF ReserveScan
  <2>2. p_job'.id = p_job.id
    <3>1. ASSUME NEW s, NEW e
          PROVE  [p_job EXCEPT !.shadow_time = s, !.extra_resources = e].id = p_job.id
        BY <1>0 DEF Priority_Job
    <3>. QED
        BY <1>10, <3>1 DEF ReserveScan
  <2>3. queue # <<>> => First(queue) = queue[1]
      BY DEF First
  <2>. QED
      BY <1>b, <2>1, <2>2, <2>3 DEF HeadInv, recentVars, machineVars, jobVars
<1>11. CASE BackfillNew
  <2>. DEFINE j == recently_queued_jobs[cursor]
  <2>1. /\ pc = "backfill" /\ jobs_ended_recently = <<>>
        /\ UNCHANGED <<workload, recentVars, p_job, pc, jobVars>>
        /\ InOrder(queue) /\ priority_job_after = First(queue)
        /\ \/ j # priority_job_after /\ Execute(j)
           \/ UNCHANGED <<status, queue, machineVars>>
      BY <1>11 DEF BackfillNew, HeadInv
  <2>2. j \in Jobs
      BY <1>11 DEF BackfillNew, TypeOK
  <2>. HIDE DEF j
  <2>3. CASE j # priority_job_after /\ Execute(j)
    <3>1. /\ queue' \in Seq(Jobs) /\ InOrder(queue)' /\ queue # <<>>
          /\ queue' # <<>> /\ First(queue') = First(queue)
          /\ nb_available_machines' <= nb_available_machines
          /\ nb_available_machines' \in Int
      <4>1. nb_available_machines' \in Int
          BY <1>0, <2>2, <2>3, JobAttributes DEF Execute
      <4>. QED
          BY <2>1, <2>2, <2>3, <4>1, ExecuteQueue
    <3>2. First(queue) = queue[1] /\ First(queue') = queue'[1]
        BY <3>1 DEF First
    <3>3. nb_available_machines' > 0 => nb_available_machines > 0
        BY <1>0, <3>1
    <3>. QED
        BY <2>1, <3>1, <3>2, <3>3 DEF HeadInv, recentVars, jobVars
  <2>4. CASE UNCHANGED <<status, queue, machineVars>>
      BY <1>b, <2>1, <2>4 DEF HeadInv, recentVars, machineVars, jobVars
  <2>. QED
      BY <2>1, <2>3, <2>4
<1>12. CASE BackfillAll
  <2>. DEFINE j == queue[cursor]
  <2>1. /\ pc = "backfill" /\ jobs_ended_recently # <<>> /\ cursor <= Len(queue)
        /\ UNCHANGED <<workload, recentVars>>
        /\ InOrder(queue) /\ priority_job_after = First(queue)
        /\ nb_available_machines > 0
      BY <1>12 DEF BackfillAll, HeadInv
  <2>2. j \in Jobs /\ cursor \in DOMAIN queue /\ queue # <<>> /\ cursor > 0
      BY <1>0, <2>1 DEF TypeOK
  <2>3. First(queue) = queue[1] /\ 1 \in DOMAIN queue
      BY <1>0, <2>2, FirstOfQueue
  <2>4. cursor # 1 => j # priority_job_after
    <3>1. ASSUME cursor # 1, j = queue[1]
          PROVE  FALSE
      <4>1. 1 < cursor
          BY <1>0, <2>2, <3>1
      <4>2. Precedes(queue[1], queue[cursor])
          BY <2>1, <2>2, <2>3, <4>1 DEF InOrder
      <4>3. Precedes(j, j)
          BY <3>1, <4>2
      <4>. QED
          BY <2>2, <4>3, PrecedesStrictly
    <3>. QED
        BY <2>1, <2>3, <3>1
  <2>5. \/ j = priority_job_after /\ RunPriority(j) /\ UNCHANGED <<pc, cursor>>
        \/ j = priority_job_after /\ ReservePriority(j) /\ cursor' = cursor + 1
        \/ /\ j # priority_job_after /\ Execute(j)
           /\ UNCHANGED <<p_job, pc, priority_job_after, cursor, scanVars>>
        \/ /\ j # priority_job_after /\ cursor' = cursor + 1
           /\ UNCHANGED <<status, queue, machineVars, p_job, pc,
                          priority_job_after, scanVars>>
      BY <1>12 DEF BackfillAll
  <2>. HIDE DEF j
  <2>6. CASE j = priority_job_after /\ RunPriority(j) /\ UNCHANGED <<pc, cursor>>
    <3>1. Execute(j) /\ priority_job_after' = First(queue')
        BY <2>6 DEF RunPriority
    <3>2. InOrder(queue)'
        BY <2>1, <2>2, <3>1, ExecuteQueue
    <3>. QED
        BY <2>1, <2>4, <2>6, <3>1, <3>2 DEF HeadInv, recentVars
  <2>7. CASE j = priority_job_after /\ ReservePriority(j)
    <3>1. pc' = "reserve" /\ UNCHANGED <<queue, priority_job_after>>
          /\ p_job'.id = j
        BY <1>a, <2>7 DEF ReservePriority
    <3>. QED
        BY <1>b, <2>1, <2>7, <3>1 DEF HeadInv
  <2>8. CASE /\ j # priority_job_after /\ Execute(j)
             /\ UNCHANGED <<p_job, pc, priority_job_after, cursor, scanVars>>
    <3>1. /\ queue' \in Seq(Jobs) /\ InOrder(queue)'
          /\ queue' # <<>> /\ First(queue') = First(queue)
        BY <2>1, <2>2, <2>8, ExecuteQueue
    <3>2. First(queue') = queue'[1]
        BY <3>1 DEF First
    <3>. QED
        BY <2>1, <2>2, <2>3, <2>8, <3>1, <3>2 DEF HeadInv, recentVars
  <2>9. CASE /\ j # priority_job_after /\ cursor' = cursor + 1
             /\ UNCHANGED <<status, queue, machineVars, p_job, pc,
                            priority_job_after, scanVars>>
    <3>1. cursor # 1
        BY <2>1, <2>3, <2>9 DEF j
    <3>2. p_job.id = queue[1]
        BY <2>1, <2>2, <3>1 DEF HeadInv
    <3>. QED
        BY <1>b, <2>1, <2>9, <3>2 DEF HeadInv, recentVars, machineVars
  <2>. QED
      BY <2>5, <2>6, <2>7, <2>8, <2>9
<1>13. CASE Return
  <2>1. /\ pc = "backfill" /\ pc' = "return" /\ priority_job_before' = None
        /\ UNCHANGED <<workload, queue, machineVars, p_job>>
        /\ \/ nb_available_machines = 0
           \/ cursor > Len(IF jobs_ended_recently = <<>> THEN recently_queued_jobs
                           ELSE queue)
      BY <1>13 DEF Return
  <2>2. queue # <<>> /\ nb_available_machines > 0 => p_job.id = queue[1]
    <3>1. ASSUME queue # <<>>, nb_available_machines > 0,
                 jobs_ended_recently # <<>>, cursor = 1
          PROVE  FALSE
      <4>1. 1 > Len(queue)
          BY <2>1, <3>1, <1>0
      <4>. QED
          BY <1>0, <3>1, <4>1
    <3>. QED
        BY <2>1, <3>1 DEF HeadInv
  <2>. QED
      BY <1>b, <2>1, <2>2 DEF HeadInv, machineVars
<1>14. CASE UNCHANGED vars
    BY <1>14, <1>b DEF vars, HeadInv, recentVars, machineVars, callVars, jobVars
<1>. QED
    BY <1>1, <1>2, <1>3, <1>4, <1>5, <1>6, <1>7, <1>8, <1>9, <1>10, <1>11,
       <1>12, <1>13, <1>14 DEF Next

\* Between two calls of the scheduler the head of the queue came before every
\* other job that waits, and the reservation, which backfilled jobs respect,
\* is the head's whenever a machine is left: no path through make_decisions
\* leaves the reservation of a job that is gone (easy_bf3.cpp).
THEOREM TheHeadIsReserved == Spec => []HeadIsReserved
<1>1. Init => HeadInv
  <2>. SUFFICES ASSUME Init PROVE HeadInv
      OBVIOUS
  <2>1. queue = <<>> /\ pc = "return"
      BY DEF Init
  <2>2. \A q : q = <<>> => InOrder(q)
      BY DEF InOrder
  <2>3. InOrder(queue)
      BY <2>1, <2>2
  <2>. QED
      BY <2>1, <2>3, Zenon DEF HeadInv
<1>2. TypeOK /\ HeadInv => HeadIsReserved
  <2>. SUFFICES ASSUME TypeOK, HeadInv, pc = "return", queue # <<>>
                PROVE  /\ \A i \in 2..Len(queue) : Precedes(queue[1], queue[i])
                       /\ nb_available_machines > 0 => p_job.id = queue[1]
      BY DEF HeadIsReserved
  <2>1. \A i \in 2..Len(queue) : i \in DOMAIN queue /\ 1 \in DOMAIN queue /\ 1 < i
      BY DEF TypeOK
  <2>2. InOrder(queue)
      BY DEF HeadInv
  <2>3. \A i \in 2..Len(queue) : Precedes(queue[1], queue[i])
      BY <2>1, <2>2 DEF InOrder
  <2>. QED
      BY <2>3 DEF HeadInv
<1>. QED
    BY <1>1, <1>2, SchedulerTypes, HeadStep, PTL DEF Spec
-----------------------------------------------------------------------------
(* The heap sort.                                                          *)

\* The child that max_heapify goes down to is in the heap that it is given.
LEMMA LatestInHeap ==
    ASSUME SortTypeOK, root # Idle
    PROVE  Latest(root) \in Positions
<1>1. root \in Nat /\ size \in Nat /\ bound \in 0..size /\ root < size
    BY HeapAssumption DEF SortTypeOK, Positions, Idle
<1>. QED
    BY <1>1 DEF Latest, Left, Right, Positions

\* Swapping two entries keeps the type of the schedule and its entries apart.
LEMMA SwapKeepsEntries ==
    ASSUME SortTypeOK, EntriesKept, NEW a \in Positions, NEW b \in Positions
    PROVE  /\ Swapped(a, b) \in [Positions -> [est_finish_time : Times, id : Positions]]
           /\ \A c, d \in Positions :
                 Swapped(a, b)[c].id = Swapped(a, b)[d].id => c = d
<1>. DEFINE Entries == [est_finish_time : Times, id : Positions]
            t == Swapped(a, b)
<1>1. schedule \in [Positions -> Entries]
    BY DEF SortTypeOK
<1>2. t = [c \in Positions |-> IF c = b THEN schedule[a]
                               ELSE IF c = a THEN schedule[b] ELSE schedule[c]]
    BY <1>1 DEF Swapped
<1>3. t \in [Positions -> Entries]
    BY <1>1, <1>2
<1>4. ASSUME NEW c \in Positions, NEW d \in Positions, t[c].id = t[d].id
      PROVE  c = d
    BY <1>2, <1>4, EntriesKept DEF EntriesKept
<1>. QED
    BY <1>3, <1>4

\* heap_sort starts with the entries it is given.
LEMMA SortStarts == SortInit => SortTypeOK /\ EntriesKept
<1>. SUFFICES ASSUME SortInit PROVE SortTypeOK /\ EntriesKept
    OBVIOUS
<1>1. PICK f \in [Positions -> Times] :
        schedule = [k \in Positions |-> [est_finish_time |-> f[k], id |-> k]]
    BY DEF SortInit, Unsorted
<1>2. size \in 0..MaxSize /\ loop = size \div 2 /\ root = Idle /\ bound = size
    BY DEF SortInit, Unsorted
<1>3. /\ loop \in Idle..size /\ (phase # "sorted" => loop < size)
      /\ bound \in 0..size
    BY <1>2, HeapAssumption DEF Idle, SortInit
<1>4. schedule \in [Positions -> [est_finish_time : Times, id : Positions]]
    BY <1>1
<1>5. phase \in {"build", "extract", "sorted"}
    BY DEF SortInit
<1>6. EntriesKept
    BY <1>1 DEF EntriesKept
<1>. QED
    BY <1>2, <1>3, <1>4, <1>5, <1>6 DEF SortTypeOK

\* The indices stay in the vector and the sort neither drops nor repeats an
\* entry, whatever the number of jobs in the schedule and their dates
\* (sort_max_heap and max_heapify).
THEOREM SortKeepsEntries == SortSpec => [](SortTypeOK /\ EntriesKept)
<1>1. SortInit => SortTypeOK /\ EntriesKept
    BY SortStarts
<1>2. SortTypeOK /\ EntriesKept /\ [SortNext]_sortVars => (SortTypeOK /\ EntriesKept)'
  <2>. SUFFICES ASSUME SortTypeOK, EntriesKept, [SortNext]_sortVars
                PROVE  (SortTypeOK /\ EntriesKept)'
      OBVIOUS
  <2>. USE DEF Positions
  <2>0. size \in Nat /\ loop \in Int /\ Idle <= loop
      BY HeapAssumption DEF SortTypeOK, Idle
  <2>1. CASE max_heapify
    <3>1. PICK max : max = Latest(root)
        OBVIOUS
    <3>2. max \in Positions /\ root \in Positions
        BY <2>1, <3>1, LatestInHeap DEF max_heapify, SortTypeOK
    <3>3. CASE schedule' = Swapped(root, max) /\ root' = max
      <4>1. /\ schedule' \in [Positions -> [est_finish_time : Times, id : Positions]]
            /\ \A c, d \in Positions : schedule'[c].id = schedule'[d].id => c = d
          BY <3>2, <3>3, SwapKeepsEntries
      <4>2. UNCHANGED <<size, phase, loop, bound>>
          BY <2>1 DEF max_heapify
      <4>. QED
          BY <3>2, <3>3, <4>1, <4>2 DEF SortTypeOK, EntriesKept
    <3>4. CASE root' = Idle /\ UNCHANGED schedule
        BY <2>1, <3>4 DEF max_heapify, SortTypeOK, EntriesKept
    <3>. QED
        BY <2>1, <3>1, <3>3, <3>4 DEF max_heapify
  <2>2. CASE Build
    <3>1. size \in Nat /\ loop \in Int /\ loop < size
        BY <2>0, <2>2 DEF Build, SortTypeOK
    <3>2. CASE loop >= 0
      <4>1. /\ root' = loop /\ loop' = loop - 1
            /\ UNCHANGED <<phase, size, schedule, bound>>
          BY <2>2, <3>1, <3>2 DEF Build
      <4>2. loop' \in Idle..size /\ loop' < size /\ root' \in Positions
          BY <3>1, <3>2, <4>1 DEF Idle
      <4>. QED
          BY <4>1, <4>2 DEF SortTypeOK, EntriesKept
    <3>3. CASE loop < 0
        BY <2>2, <3>1, <3>3 DEF Build, SortTypeOK, EntriesKept, Idle
    <3>. QED
        BY <3>1, <3>2, <3>3
  <2>3. CASE Extract
    <3>1. CASE loop > 0
      <4>1. 0 \in Positions /\ loop \in Positions
          BY <2>0, <2>3, <3>1 DEF Extract, SortTypeOK
      <4>2. /\ Swapped(0, loop) \in [Positions -> [est_finish_time : Times, id : Positions]]
            /\ \A c, d \in Positions :
                 Swapped(0, loop)[c].id = Swapped(0, loop)[d].id => c = d
          BY <4>1, SwapKeepsEntries
      <4>3. /\ schedule' = Swapped(0, loop) /\ root' = 0 /\ bound' = loop
            /\ loop' = loop - 1 /\ UNCHANGED <<size, phase>>
          BY <2>0, <2>3, <3>1 DEF Extract
      <4>4. loop' \in Idle..size /\ loop' < size /\ bound' \in 0..size
          BY <2>0, <3>1, <4>1, <4>3 DEF Idle
      <4>5. SortTypeOK'
          BY <4>1, <4>2, <4>3, <4>4 DEF SortTypeOK
      <4>6. EntriesKept'
          BY <4>2, <4>3 DEF EntriesKept
      <4>. QED
          BY <4>5, <4>6
    <3>2. CASE loop <= 0
        BY <2>0, <2>3, <3>2 DEF Extract, SortTypeOK, EntriesKept
    <3>. QED
        BY <2>0, <3>1, <3>2
  <2>4. CASE UNCHANGED sortVars
      BY <2>4 DEF sortVars, SortTypeOK, EntriesKept
  <2>. QED
      BY <2>1, <2>2, <2>3, <2>4 DEF SortNext
<1>. QED
    BY <1>1, <1>2, PTL DEF SortSpec
-----------------------------------------------------------------------------
(* The schedule is sorted.  The invariant is the one of the algorithm: from *)
(* Lowest on each entry of the heap is at least as late as its children,    *)
(* except the one that max_heapify is sinking; the entries behind the heap  *)
(* are in order and none of them is earlier than an entry of the heap.      *)

\* The positions from which the heap is built.
Lowest == IF phase = "build" THEN loop + 1 ELSE 0

IsChild(c, p) == (c = Left(p) \/ c = Right(p)) /\ c < bound

HeapOrdered ==
    \A p, c \in Positions :
        p >= Lowest /\ p # root /\ IsChild(c, p) => time(p) >= time(c)

\* The parent of the entry that sinks is late enough for its children.
SinkingFits ==
    root # Idle =>
        /\ root >= Lowest /\ root < bound
        /\ \A p, c \in Positions :
             p >= Lowest /\ IsChild(root, p) /\ IsChild(c, root)
               => time(p) >= time(c)

TailSorted ==
    /\ \A a, b \in Positions : bound <= a /\ a < b => time(a) <= time(b)
    /\ \A a, b \in Positions : a < bound /\ bound <= b => time(a) <= time(b)

Phases ==
    /\ phase = "build" => size >= 2 /\ bound = size
    /\ phase = "extract" => loop >= 0 /\ bound = loop + 1
    /\ phase = "sorted" => root = Idle

HeapInv == Phases /\ HeapOrdered /\ SinkingFits /\ TailSorted /\ ScheduleSorted

\* A set of natural numbers has a least element.
LEMMA SmallestNat ==
    ASSUME NEW T \in SUBSET Nat, T # {}
    PROVE  \E x \in T : \A y \in T : x <= y
<1>1. PICK x \in T : \A y \in T : ~ (<<y, x>> \in OpToRel(<, Nat))
    BY WFMin, NatLessThanWellFounded, Zenon
<1>2. \A y \in T : x <= y
  <2>. TAKE y \in T
  <2>1. ~ (<<y, x>> \in {ss \in Nat \X Nat : ss[1] < ss[2]})
      BY <1>1, Zenon DEF OpToRel
  <2>. QED
      BY <2>1
<1>. QED
    BY <1>2

\* In a heap the root is the latest entry: the first entry that is later would
\* be later than its parent.
LEMMA RootIsLatest ==
    ASSUME SortTypeOK, HeapOrdered, root = Idle, Lowest = 0,
           NEW k \in Positions, k < bound
    PROVE  time(k) <= time(0)
<1>. DEFINE Later == {c \in Positions : c < bound /\ ~(time(c) <= time(0))}
<1>0. /\ size \in Nat /\ bound \in Nat /\ Positions \subseteq Nat
      /\ \A c \in Positions : time(c) \in Nat
  <2>1. size \in Nat /\ bound \in Nat
      BY HeapAssumption DEF SortTypeOK
  <2>2. \A c \in Positions : schedule[c] \in [est_finish_time : Times, id : Positions]
      BY DEF SortTypeOK
  <2>3. \A c \in Positions : time(c) \in Nat
      BY <2>2, HeapAssumption DEF time
  <2>. QED
      BY <2>1, <2>3 DEF Positions
<1>1. SUFFICES ASSUME Later # {} PROVE FALSE
    OBVIOUS
<1>2. PICK c \in Later : \A y \in Later : c <= y
    BY <1>0, <1>1, SmallestNat
<1>3. c \in Nat /\ c # 0 /\ c < size /\ c \in Positions /\ 0 \in Positions
    BY <1>0, <1>2 DEF Positions
<1>4. PICK p \in Nat : p < c /\ (c = 2 * p + 1 \/ c = 2 * p + 2)
  <2>1. (c - 1) \div 2 \in Nat /\ (c - 1) \div 2 < c
        /\ (c = 2 * ((c - 1) \div 2) + 1 \/ c = 2 * ((c - 1) \div 2) + 2)
      BY <1>3
  <2>. QED
      BY <2>1
<1>5. p \in Positions /\ p < bound /\ p # root
    BY <1>0, <1>2, <1>3, <1>4 DEF Positions, Idle
<1>6. time(p) >= time(c)
    BY <1>2, <1>3, <1>4, <1>5 DEF HeapOrdered, IsChild, Left, Right
<1>7. time(p) <= time(0)
    BY <1>0, <1>2, <1>4, <1>5
<1>8. ~(time(c) <= time(0))
    BY <1>2
<1>. QED
    BY <1>0, <1>3, <1>5, <1>6, <1>7, <1>8

\* What the steps below use of the types.
LEMMA HeapTypes ==
    ASSUME SortTypeOK
    PROVE  /\ size \in Nat /\ bound \in Nat /\ bound <= size /\ loop \in Int
           /\ root \in Int /\ (root # Idle => root \in Positions)
           /\ \A k \in Positions : k \in Nat /\ k < size /\ time(k) \in Nat
<1>1. \A k \in Positions : schedule[k] \in [est_finish_time : Times, id : Positions]
    BY DEF SortTypeOK
<1>2. \A k \in Positions : time(k) \in Nat
    BY <1>1, HeapAssumption DEF time
<1>. QED
    BY <1>2, HeapAssumption DEF SortTypeOK, Positions, Idle

\* The times after a swap.
LEMMA SwapTimes ==
    ASSUME SortTypeOK, NEW a \in Positions, NEW b \in Positions, a # b,
           schedule' = Swapped(a, b)
    PROVE  /\ time(a)' = time(b) /\ time(b)' = time(a)
           /\ \A k \in Positions : k # a /\ k # b => time(k)' = time(k)
BY DEF SortTypeOK, Swapped, time

\* max_heapify looks at the two children in the heap and takes the later one.
LEMMA LatestIsMax ==
    ASSUME SortTypeOK, root # Idle, root < bound
    PROVE  LET max == Latest(root)
           IN /\ max \in Positions /\ max < bound
              /\ max = root \/ (IsChild(max, root) /\ time(max) > time(root))
              /\ time(max) >= time(root)
              /\ \A c \in Positions : IsChild(c, root) => time(max) >= time(c)
<1>1. /\ size \in Nat /\ bound \in Nat /\ bound <= size
      /\ root \in Nat /\ root \in Positions
      /\ \A k \in Positions : k \in Nat /\ k < size /\ time(k) \in Nat
    BY HeapTypes
<1>2. /\ Left(root) < bound => Left(root) \in Positions
      /\ Right(root) < bound => Right(root) \in Positions
    BY <1>1 DEF Left, Right, Positions
<1>3. \A k \in Positions : time(k) \in Nat /\ k \in Nat
    BY <1>1
<1>4. Left(root) \in Nat /\ Right(root) \in Nat /\ Left(root) > root
      /\ Right(root) > root
    BY <1>1 DEF Left, Right
<1>. QED
    BY <1>1, <1>2, <1>3, <1>4 DEF Latest, IsChild

\* One level of max_heapify: the entry sinks below its later child, or stays.
LEMMA HeapifySound ==
    ASSUME SortTypeOK, HeapInv, max_heapify
    PROVE  HeapInv'
<1>0. PICK r, max : r = root /\ max = Latest(root)
    OBVIOUS
<1>1. /\ size \in Nat /\ bound \in Nat /\ bound <= size /\ loop \in Int
      /\ root # Idle /\ r \in Positions
      /\ \A k \in Positions : k \in Nat /\ k < size /\ time(k) \in Nat
    BY <1>0, HeapTypes DEF max_heapify
<1>2. /\ size' = size /\ phase' = phase /\ loop' = loop /\ bound' = bound
      /\ Lowest' = Lowest /\ Positions' = Positions
      /\ \A c, p : IsChild(c, p)' <=> IsChild(c, p)
    BY DEF max_heapify, Lowest, IsChild, Positions, Left, Right
<1>3. /\ r < bound /\ r >= Lowest /\ phase # "sorted"
      /\ \A p, c \in Positions :
             p >= Lowest /\ IsChild(r, p) /\ IsChild(c, r)
               => time(p) >= time(c)
    BY <1>0, <1>1 DEF HeapInv, SinkingFits, Phases
<1>4. /\ max \in Positions /\ max < bound
      /\ max = r \/ (IsChild(max, r) /\ time(max) > time(r))
      /\ time(max) >= time(r)
      /\ \A c \in Positions : IsChild(c, r) => time(max) >= time(c)
    BY <1>0, <1>1, <1>3, LatestIsMax
<1>5. Lowest \in Int
    BY <1>1 DEF Lowest
<1>6. CASE max = r
  <2>1. root' = Idle /\ schedule' = schedule
      BY <1>0, <1>6 DEF max_heapify
  <2>2. \A k : time(k)' = time(k)
      BY <2>1 DEF time
  <2>3. HeapOrdered'
      BY <1>0, <1>2, <1>4, <1>6, <2>2 DEF HeapInv, HeapOrdered
  <2>4. TailSorted'
      BY <1>2, <2>2 DEF HeapInv, TailSorted
  <2>5. Phases' /\ SinkingFits' /\ ScheduleSorted'
      BY <1>2, <1>3, <2>1 DEF HeapInv, Phases, SinkingFits, ScheduleSorted
  <2>. QED
      BY <2>3, <2>4, <2>5 DEF HeapInv
<1>7. CASE max # r
  <2>1. root' = max /\ schedule' = Swapped(r, max)
      BY <1>0, <1>7 DEF max_heapify
  <2>2. /\ time(r)' = time(max) /\ time(max)' = time(r)
        /\ \A k \in Positions : k # r /\ k # max => time(k)' = time(k)
      BY <1>1, <1>4, <1>7, <2>1, SwapTimes
  <2>3. IsChild(max, r) /\ max > r /\ max >= Lowest /\ max # Idle
      BY <1>1, <1>3, <1>4, <1>5, <1>7 DEF IsChild, Left, Right, Idle
  <2>4. \A p \in Positions : IsChild(max, p) => p = r
      BY <1>1, <1>4, <2>3 DEF IsChild, Left, Right
  <2>5. \A p, c \in Positions : IsChild(c, p) => c > p /\ c \in Nat
      BY <1>1 DEF IsChild, Left, Right
  <2>6. HeapOrdered'
    <3>. SUFFICES ASSUME NEW p \in Positions, NEW c \in Positions,
                         p >= Lowest, p # max, IsChild(c, p)
                  PROVE  time(p)' >= time(c)'
        BY <1>2, <2>1 DEF HeapOrdered
    <3>1. CASE p = r /\ c = max
        BY <1>1, <1>4, <2>2, <3>1
    <3>2. CASE p = r /\ c # max
      <4>1. c # r
          BY <1>1, <2>5, <3>2
      <4>. QED
          BY <1>4, <2>2, <3>2, <4>1
    <3>3. CASE p # r /\ c = r
      <4>1. time(p) >= time(max)
          BY <1>3, <1>4, <2>3, <3>3
      <4>. QED
          BY <2>2, <3>3, <4>1
    <3>4. CASE p # r /\ c # r
      <4>1. c # max
          BY <2>4, <3>4
      <4>2. time(p) >= time(c)
          BY <1>0, <3>4 DEF HeapInv, HeapOrdered
      <4>. QED
          BY <2>2, <3>4, <4>1, <4>2
    <3>. QED
        BY <3>1, <3>2, <3>3, <3>4
  <2>7. SinkingFits'
    <3>1. ASSUME NEW p \in Positions, NEW c \in Positions,
                 IsChild(max, p), IsChild(c, max)
          PROVE  time(p)' >= time(c)'
      <4>1. p = r /\ c # r /\ c # max
          BY <1>1, <1>4, <2>3, <2>4, <2>5, <3>1
      <4>2. time(max) >= time(c)
          BY <1>0, <1>4, <2>3, <3>1, <1>7 DEF HeapInv, HeapOrdered
      <4>. QED
          BY <2>2, <4>1, <4>2
    <3>. QED
        BY <1>2, <1>4, <2>1, <2>3, <3>1 DEF SinkingFits
  <2>8. TailSorted'
    <3>1. ASSUME NEW b \in Positions, bound <= b
          PROVE  b # r /\ b # max /\ time(b)' = time(b)
        BY <1>1, <1>3, <1>4, <2>2, <3>1
    <3>2. ASSUME NEW a \in Positions, NEW b \in Positions, a < bound, bound <= b
          PROVE  time(a)' <= time(b)'
      <4>1. \A k \in Positions : k < bound => time(k) <= time(b)
          BY <3>2 DEF HeapInv, TailSorted
      <4>2. time(a)' \in {time(a), time(r), time(max)}
          BY <2>2
      <4>. QED
          BY <1>1, <1>3, <1>4, <3>1, <3>2, <4>1, <4>2
    <3>3. ASSUME NEW a \in Positions, NEW b \in Positions, bound <= a, a < b
          PROVE  time(a)' <= time(b)'
        BY <1>1, <3>1, <3>3 DEF HeapInv, TailSorted
    <3>. QED
        BY <1>2, <3>2, <3>3 DEF TailSorted
  <2>9. Phases' /\ ScheduleSorted'
      BY <1>2, <1>3 DEF HeapInv, Phases, ScheduleSorted
  <2>. QED
      BY <2>6, <2>7, <2>8, <2>9 DEF HeapInv
<1>. QED
    BY <1>6, <1>7

\* The loop that builds the heap: the position it goes down to starts to sink.
\* When it has passed position 0 the whole schedule is a heap.
LEMMA BuildSound ==
    ASSUME SortTypeOK, HeapInv, Build
    PROVE  HeapInv'
<1>1. /\ size \in Nat /\ bound \in Nat /\ loop \in Int /\ loop < size
      /\ Idle <= loop /\ root = Idle /\ phase = "build" /\ bound = size
      /\ size >= 2
      /\ \A k \in Positions : k \in Nat /\ k < size /\ time(k) \in Nat
    BY HeapTypes DEF Build, SortTypeOK, HeapInv, Phases, Idle
<1>2. /\ size' = size /\ bound' = bound /\ Positions' = Positions
      /\ \A k : time(k)' = time(k)
      /\ \A c, p : IsChild(c, p)' <=> IsChild(c, p)
    BY DEF Build, IsChild, Positions, Left, Right, time
<1>3. TailSorted'
    BY <1>2 DEF HeapInv, TailSorted
<1>4. CASE loop >= 0
  <2>1. root' = loop /\ loop' = loop - 1 /\ phase' = "build"
      BY <1>1, <1>4 DEF Build
  <2>2. Lowest = loop + 1 /\ Lowest' = loop
      BY <1>1, <2>1 DEF Lowest
  <2>3. \A p \in Positions : p >= loop /\ p # loop => p >= loop + 1 /\ p # Idle
      BY <1>1, <1>4 DEF Idle
  <2>4. HeapOrdered'
      BY <1>1, <1>2, <2>1, <2>2, <2>3 DEF HeapInv, HeapOrdered
  <2>5. SinkingFits'
    <3>1. \A p \in Positions : ~(p >= loop /\ IsChild(loop, p))
        BY <1>1, <1>4 DEF IsChild, Left, Right
    <3>. QED
        BY <1>1, <1>2, <1>4, <2>1, <2>2, <3>1 DEF SinkingFits
  <2>6. Phases' /\ ScheduleSorted'
      BY <1>1, <1>2, <2>1 DEF Phases, ScheduleSorted
  <2>. QED
      BY <1>3, <2>4, <2>5, <2>6 DEF HeapInv
<1>5. CASE loop < 0
  <2>1. root' = Idle /\ loop' = size - 1 /\ phase' = "extract" /\ Lowest = 0
        /\ Lowest' = 0
      BY <1>1, <1>5 DEF Build, Lowest, Idle
  <2>2. size >= 1
      BY <1>1, <1>5 DEF HeapInv, Phases
  <2>3. HeapOrdered'
      BY <1>1, <1>2, <2>1 DEF HeapInv, HeapOrdered
  <2>4. SinkingFits' /\ Phases' /\ ScheduleSorted'
      BY <1>1, <1>2, <2>1, <2>2 DEF Phases, SinkingFits, ScheduleSorted
  <2>. QED
      BY <1>3, <2>3, <2>4 DEF HeapInv
<1>. QED
    BY <1>1, <1>4, <1>5

\* The loop that extracts: the latest entry goes behind the heap.
LEMMA ExtractSound ==
    ASSUME SortTypeOK, HeapInv, Extract
    PROVE  HeapInv'
<1>1. /\ size \in Nat /\ bound \in Nat /\ bound <= size /\ loop \in Nat
      /\ root = Idle /\ phase = "extract" /\ bound = loop + 1 /\ Lowest = 0
      /\ \A k \in Positions : k \in Nat /\ k < size /\ time(k) \in Nat
    BY HeapTypes DEF Extract, HeapInv, Phases, Idle, Lowest
<1>2. size' = size /\ Positions' = Positions
    BY DEF Extract, Positions
<1>3. 0 \in Positions /\ loop \in Positions
    BY <1>1 DEF Positions
<1>4. \A k \in Positions : k < bound => time(k) <= time(0)
    BY <1>1, RootIsLatest DEF HeapInv
<1>5. CASE loop > 0
  <2>0. PICK last : last = loop
      OBVIOUS
  <2>1. /\ schedule' = Swapped(0, last) /\ root' = 0 /\ bound' = last
        /\ loop' = last - 1 /\ phase' = "extract" /\ Lowest' = 0
      BY <1>1, <1>5, <2>0 DEF Extract, Lowest
  <2>2. /\ time(0)' = time(last) /\ time(last)' = time(0)
        /\ \A k \in Positions : k # 0 /\ k # last => time(k)' = time(k)
      BY <1>1, <1>3, <1>5, <2>0, <2>1, SwapTimes
  <2>3. HeapOrdered'
    <3>. SUFFICES ASSUME NEW p \in Positions, NEW c \in Positions,
                         p # 0, IsChild(c, p)'
                  PROVE  time(p)' >= time(c)'
        BY <1>2, <2>1 DEF HeapOrdered
    <3>1. p > 0 /\ c > p /\ c < last /\ IsChild(c, p) /\ p # Idle
        BY <1>1, <2>0, <2>1 DEF IsChild, Left, Right, Idle
    <3>2. time(p) >= time(c)
        BY <1>1, <3>1 DEF HeapInv, HeapOrdered
    <3>. QED
        BY <1>1, <2>0, <2>2, <3>1, <3>2
  <2>4. SinkingFits'
    <3>1. \A p \in Positions : ~IsChild(0, p)'
        BY <1>1 DEF IsChild, Left, Right
    <3>. QED
        BY <1>1, <1>2, <1>5, <2>0, <2>1, <3>1 DEF SinkingFits
  <2>5. TailSorted'
    <3>1. ASSUME NEW b \in Positions, last < b
          PROVE  b # 0 /\ b # last /\ bound <= b /\ time(b)' = time(b)
                 /\ \A a \in Positions : a < bound => time(a) <= time(b)
        BY <1>1, <2>0, <2>2, <3>1 DEF HeapInv, TailSorted
    <3>2. ASSUME NEW a \in Positions, NEW b \in Positions, last <= a, a < b
          PROVE  time(a)' <= time(b)'
      <4>1. last < b
          BY <1>1, <2>0, <3>2
      <4>2. CASE a = last
          BY <1>1, <1>3, <2>2, <3>1, <4>1, <4>2
      <4>3. CASE a # last
        <5>1. last < a
            BY <1>1, <2>0, <3>2, <4>3
        <5>2. time(a) <= time(b)
            BY <3>1, <3>2, <5>1 DEF HeapInv, TailSorted
        <5>. QED
            BY <3>1, <4>1, <5>1, <5>2
      <4>. QED
          BY <4>2, <4>3
    <3>3. ASSUME NEW a \in Positions, NEW b \in Positions, a < last, last <= b
          PROVE  time(a)' <= time(b)'
      <4>1. PICK k \in Positions : k < bound /\ time(a)' = time(k)
          BY <1>1, <1>3, <2>0, <2>2, <3>3
      <4>2. CASE b = last
          BY <1>4, <2>2, <4>1, <4>2
      <4>3. CASE b # last
          BY <1>1, <2>0, <3>1, <3>3, <4>1, <4>3
      <4>. QED
          BY <4>2, <4>3
    <3>. QED
        BY <1>2, <2>1, <3>2, <3>3 DEF TailSorted
  <2>6. Phases' /\ ScheduleSorted'
      BY <1>1, <1>5, <2>0, <2>1 DEF Phases, ScheduleSorted
  <2>. QED
      BY <2>3, <2>4, <2>5, <2>6 DEF HeapInv
<1>6. CASE loop <= 0
  <2>1. phase' = "sorted" /\ UNCHANGED <<schedule, root, bound, loop>> /\ bound = 1
      BY <1>1, <1>6 DEF Extract
  <2>2. /\ \A k : time(k)' = time(k)
        /\ \A c, p : IsChild(c, p)' <=> IsChild(c, p)
        /\ Lowest' = 0
      BY <2>1 DEF time, IsChild, Left, Right, Lowest
  <2>3. HeapOrdered' /\ TailSorted' /\ SinkingFits' /\ Phases'
      BY <1>1, <1>2, <2>1, <2>2
         DEF HeapInv, HeapOrdered, TailSorted, SinkingFits, Phases
  <2>4. ScheduleSorted'
    <3>1. ASSUME NEW a \in Positions, NEW b \in Positions, a < b
          PROVE  time(a) <= time(b)
      <4>1. bound <= b /\ (a < bound \/ bound <= a)
          BY <1>1, <2>1, <3>1
      <4>. QED
          BY <3>1, <4>1 DEF HeapInv, TailSorted
    <3>. QED
        BY <1>2, <2>2, <3>1 DEF ScheduleSorted
  <2>. QED
      BY <2>3, <2>4 DEF HeapInv
<1>. QED
    BY <1>1, <1>5, <1>6

\* When sort_max_heap returns, the schedule of any size is ordered by
\* est_finish_time: check_priority_job may read the first date at which enough
\* machines are free off it.
THEOREM SortSorts == SortSpec => []ScheduleSorted
<1>1. SortInit => HeapInv
  <2>. SUFFICES ASSUME SortInit, SortTypeOK PROVE HeapInv
      BY SortStarts
  <2>1. /\ size \in Nat /\ bound = size /\ root = Idle /\ loop = size \div 2
        /\ \A k \in Positions : k \in Nat /\ k < size /\ time(k) \in Nat
      BY HeapTypes DEF SortInit, Unsorted
  <2>2. HeapOrdered
    <3>. SUFFICES ASSUME NEW p \in Positions, NEW c \in Positions,
                         phase = "build" => p >= loop + 1, IsChild(c, p)
                  PROVE  time(p) >= time(c)
        BY DEF HeapOrdered, Lowest
    <3>1. CASE phase = "build"
      <4>1. p >= size \div 2 + 1 /\ c < size /\ c >= 2 * p + 1
          BY <2>1, <3>1 DEF IsChild, Left, Right
      <4>2. FALSE
          BY <2>1, <4>1
      <4>. QED
          BY <4>2
    <3>2. CASE phase # "build"
      <4>1. size < 2 /\ c < size /\ c >= 2 * p + 1 /\ p >= 0
          BY <2>1, <3>2 DEF IsChild, Left, Right, SortInit
      <4>. QED
          BY <2>1, <4>1
    <3>. QED
        BY <3>1, <3>2
  <2>3. SinkingFits /\ TailSorted /\ Phases
      BY <2>1 DEF SinkingFits, TailSorted, Phases, SortInit
  <2>4. ScheduleSorted
      BY <2>1 DEF ScheduleSorted, SortInit
  <2>. QED
      BY <2>2, <2>3, <2>4 DEF HeapInv
<1>2. SortTypeOK /\ HeapInv /\ [SortNext]_sortVars => HeapInv'
  <2>. SUFFICES ASSUME SortTypeOK, HeapInv, [SortNext]_sortVars PROVE HeapInv'
      OBVIOUS
  <2>1. CASE UNCHANGED sortVars
    <3>1. /\ UNCHANGED <<size, phase, loop, root, bound, schedule>>
          /\ \A k : time(k)' = time(k)
        BY <2>1 DEF sortVars, time
    <3>. QED
        BY <3>1 DEF HeapInv, HeapOrdered, SinkingFits, TailSorted, Phases,
                    ScheduleSorted, IsChild, Left, Right, Lowest, Positions
  <2>. QED
      BY <2>1, HeapifySound, BuildSound, ExtractSound DEF SortNext
<1>3. HeapInv => ScheduleSorted
    BY DEF HeapInv
<1>. QED
    BY <1>1, <1>2, <1>3, SortKeepsEntries, PTL DEF SortSpec
=============================================================================
