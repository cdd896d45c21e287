----------------------------- MODULE TaskMatrices -----------------------------
(***************************************************************************)
(* The parallel tasks Batsim hands to SimGrid (task_execution.cpp): the    *)
(* computation vector and the communication matrix of each parallel        *)
(* profile, and the merge of a job's matrices with the ones of its         *)
(* additional IO job.                                                      *)
(*                                                                         *)
(* An amount of flops or bytes is the set of the profile entries it sums,  *)
(* {} is zero.  A matrix is the row-major sequence the code keeps, <<>>    *)
(* when it is left empty; positions start at 1.                            *)
(***************************************************************************)
EXTENDS Naturals, Sequences, SequencesExt

CONSTANTS
    Desc,              \* the profiles by name, as the workload gives them
    StorageMachines    \* the machines whose permission is STORAGE

None == "none"

\* The profile types SimGrid runs as one parallel task.
is_parallel_task(p) ==
    Desc[p].type \in {"parallel", "homogeneous", "total", "pfs", "staging"}

Amount(p, what) == {<<p, what>>}

Row(k, n) == 1 + ((k - 1) \div n)
Col(k, n) == 1 + ((k - 1) % n)

RowMajor(n, Entry(_, _)) == [k \in 1..(n * n) |-> Entry(Row(k, n), Col(k, n))]

-----------------------------------------------------------------------------
(* One generator per type: hosts used, computation, communication, and     *)
(* whether the assertions of the generator hold.                           *)

Ptask(hosts, cpu, com, ok) ==
    [hosts |-> hosts, cpu |-> cpu, com |-> com, ok |-> ok]

\* The matrices of the profile, whose size must be the one of the allocation.
generate_parallel_task(p, hosts) ==
    LET n == Desc[p].nb_res
        Com(y, x) == Amount(p, <<"com", y, x>>)
    IN Ptask(hosts, [y \in 1..n |-> Amount(p, <<"cpu", y>>)], RowMajor(n, Com),
             Len(hosts) = n)

\* Every host computes cpu and sends com to every other; no matrix without com.
generate_parallel_homogeneous(p, hosts) ==
    LET n == Len(hosts)
        Com(y, x) == IF x = y THEN {} ELSE Amount(p, "com")
        cpu == IF Desc[p].cpu > 0 THEN Amount(p, "cpu") ELSE {}
    IN Ptask(hosts, [y \in 1..n |-> cpu],
             IF Desc[p].com > 0 THEN RowMajor(n, Com) ELSE <<>>, TRUE)

\* The same, each host doing its n-th part of the totals.
generate_parallel_homogeneous_total_amount(p, hosts) ==
    LET n == Len(hosts)
        Com(y, x) == IF x = y THEN {} ELSE Amount(p, <<"com share", n>>)
    IN Ptask(hosts, [y \in 1..n |-> Amount(p, <<"cpu share", n>>)],
             IF Desc[p].com > 0 THEN RowMajor(n, Com) ELSE <<>>, TRUE)

\* The storage machine a label stands for; without a mapping, the only one.
StorageKnown(label, storage) ==
    IF DOMAIN storage = {} THEN \E m \in StorageMachines : StorageMachines = {m}
    ELSE label \in DOMAIN storage /\ storage[label] \in StorageMachines

StorageOf(label, storage) ==
    IF DOMAIN storage = {} THEN CHOOSE m \in StorageMachines : TRUE
    ELSE storage[label]

\* Every host writes to and reads from the storage host, added at the end.
generate_parallel_homogeneous_with_pfs(p, hosts, storage) ==
    LET pfs == Len(hosts) + 1
        ok == StorageKnown(Desc[p].storage, storage)
        Com(row, col) == IF row = col \/ pfs \notin {row, col} THEN {}
                         ELSE IF col = pfs THEN Amount(p, "write")
                         ELSE Amount(p, "read")
    IN Ptask(IF ok THEN Append(hosts, StorageOf(Desc[p].storage, storage))
             ELSE hosts,
             [y \in 1..pfs |-> {}],
             IF Desc[p].bytes > 0 THEN RowMajor(pfs, Com) ELSE <<>>, ok)

\* Bytes from one storage machine to another: no allocated host takes part.
generate_data_staging_task(p, storage) ==
    LET ok == \A label \in {Desc[p].from, Desc[p].to} :
                  label \in DOMAIN storage /\ storage[label] \in StorageMachines
        Com(row, col) == IF row = 1 /\ col = 2 THEN Amount(p, "bytes") ELSE {}
    IN Ptask(IF ok THEN <<storage[Desc[p].from], storage[Desc[p].to]>> ELSE <<>>,
             <<{}, {}>>, IF Desc[p].bytes > 0 THEN RowMajor(2, Com) ELSE <<>>, ok)

generate_matrices_from_profile(p, hosts, storage) ==
    CASE Desc[p].type = "parallel" -> generate_parallel_task(p, hosts)
      [] Desc[p].type = "homogeneous" -> generate_parallel_homogeneous(p, hosts)
      [] Desc[p].type = "total" ->
            generate_parallel_homogeneous_total_amount(p, hosts)
      [] Desc[p].type = "pfs" ->
            generate_parallel_homogeneous_with_pfs(p, hosts, storage)
      [] Desc[p].type = "staging" -> generate_data_staging_task(p, storage)

\* Storage machines compute nothing.  The i-th machine is checked against the
\* i-th entry; a read past the end of the vector has no defined result and
\* counts as a failure.
check_ptask_execution_permission(machines, cpu) ==
    \A i \in 1..Len(machines) :
        /\ i <= Len(cpu)
        /\ machines[i] \in StorageMachines => cpu[i] = {}

-----------------------------------------------------------------------------
(* The merge with the IO job walks both machine lists with one running     *)
(* index per matrix.                                                       *)

In(machine, machines) == \E i \in 1..Len(machines) : machines[i] = machine

\* The machines of either list, in increasing order.
Union(machines, io) ==
    SetToSortSeq({machines[i] : i \in 1..Len(machines)}
                   \cup {io[i] : i \in 1..Len(io)}, <)

\* The next entry of a matrix when it is taken, zero when it is not.
Taken(matrix, index, takes) ==
    IF takes /\ index <= Len(matrix) THEN matrix[index] ELSE {}

\* A cell of both jobs does not advance the index of the IO matrix.
MergeCell_ioStays(acc, jobTakes, ioTakes, jobMatrix, ioMatrix) ==
    [job |-> acc.job + (IF jobTakes /\ jobMatrix # <<>> THEN 1 ELSE 0),
     io  |-> acc.io + (IF ioTakes /\ ~jobTakes THEN 1 ELSE 0),
     out |-> Append(acc.out, Taken(jobMatrix, acc.job, jobTakes)
                               \cup Taken(ioMatrix, acc.io, ioTakes)),
     ok  |-> acc.ok]

\* One cell of the result: the job's next entry if both its machines are the
\* job's, plus the next IO entry if both are the IO job's.  A missing job
\* matrix is zero; a missing IO matrix is read past its end.
MergeCell(acc, jobTakes, ioTakes, jobMatrix, ioMatrix) ==
    [job |-> acc.job + (IF jobTakes /\ jobMatrix # <<>> THEN 1 ELSE 0),
     io  |-> acc.io + (IF ioTakes THEN 1 ELSE 0),
     out |-> Append(acc.out, Taken(jobMatrix, acc.job, jobTakes)
                               \cup Taken(ioMatrix, acc.io, ioTakes)),
     ok  |-> /\ acc.ok
             /\ jobTakes /\ jobMatrix # <<>> => acc.job <= Len(jobMatrix)
             /\ ioTakes => acc.io <= Len(ioMatrix)]

MergeStart == [job |-> 1, io |-> 1, out |-> <<>>, ok |-> TRUE]

MergedCpu(all, machines, io, jobCpu, ioCpu) ==
    LET Step(acc, machine) ==
            MergeCell(acc, In(machine, machines), In(machine, io), jobCpu, ioCpu)
    IN FoldLeft(Step, MergeStart, all)

MergedCom(all, machines, io, jobCom, ioCom) ==
    LET n == Len(all)
        Both(k, l) == In(all[Row(k, n)], l) /\ In(all[Col(k, n)], l)
        Step(acc, k) ==
            MergeCell(acc, Both(k, machines), Both(k, io), jobCom, ioCom)
    IN FoldLeft(Step, MergeStart, [k \in 1..(n * n) |-> k])

MergedWithIo(job, io, machines, ioMachines) ==
    LET all == Union(machines, ioMachines)
        cpu == MergedCpu(all, machines, ioMachines, job.cpu, io.cpu)
        com == MergedCom(all, machines, ioMachines, job.com, io.com)
    IN Ptask(all, cpu.out, com.out,
             /\ job.ok /\ io.ok /\ cpu.ok /\ com.ok
             /\ check_ptask_execution_permission(all, cpu.out))

\* An allocation: the machines in increasing order, the machine each executor
\* runs on, the storage labels, and the IO job's profile and machines.
\* The list of hosts is computed from the mapping, in order when there is none.
Hosts(alloc) ==
    IF alloc.mapping = <<>> THEN alloc.machines
    ELSE [e \in 1..Len(alloc.mapping) |-> alloc.machines[alloc.mapping[e]]]

NoStorage == [label \in {} |-> 0]

\* execute_parallel_task up to the creation of the SimGrid task.  The IO job
\* is given no storage mapping: the types that need one fail.
MakePtask(p, io, alloc) ==
    LET job == generate_matrices_from_profile(p, Hosts(alloc), alloc.storage)
        allowed == check_ptask_execution_permission(alloc.machines, job.cpu)
        extra == generate_matrices_from_profile(io, alloc.io, NoStorage)
    IN IF ~job.ok \/ ~allowed THEN [job EXCEPT !.ok = FALSE]
       ELSE IF io = None THEN job
       ELSE IF Desc[io].type \in {"pfs", "staging"}
            THEN [job EXCEPT !.ok = FALSE]
       ELSE MergedWithIo(job, extra, alloc.machines, alloc.io)
=============================================================================
