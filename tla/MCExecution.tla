------------------------------ MODULE MCExecution ------------------------------
EXTENDS Execution

MCDesc == [
    compute |-> [type |-> "parallel", nb_res |-> 2, com_size |-> 4, ret |-> 0],
    shuffle |-> [type |-> "homogeneous", cpu |-> 0, com |-> 1, ret |-> 0],
    mix     |-> [type |-> "parallel", nb_res |-> 3, com_size |-> 9, ret |-> 0],
    share   |-> [type |-> "total", cpu |-> 1, com |-> 0, ret |-> 1],
    read    |-> [type |-> "pfs", bytes |-> 1, storage |-> "pfs", ret |-> 0],
    stage   |-> [type |-> "staging", bytes |-> 1, from |-> "pfs", to |-> "lcfs",
                 ret |-> 0],
    wait    |-> [type |-> "delay", delay |-> 1, ret |-> 0],
    inner   |-> [type |-> "composed", seq |-> <<"compute", "wait">>,
                 repeat |-> 2, ret |-> 0],
    outer   |-> [type |-> "composed", seq |-> <<"inner">>, repeat |-> 1,
                 ret |-> 0],
    tell    |-> [type |-> "send", sleeptime |-> 1, ret |-> 0],
    ask     |-> [type |-> "recv", polltime |-> 1, regex |-> "yes",
                 success |-> "share", failure |-> None, timeout |-> None,
                 ret |-> 0],
    look    |-> [type |-> "recv", polltime |-> 1, regex |-> "yes",
                 success |-> None, failure |-> None, timeout |-> "tell",
                 ret |-> 0],
    talk    |-> [type |-> "composed", seq |-> <<"look", "ask", "share", "tell">>,
                 repeat |-> 1, ret |-> 0],
    replay  |-> [type |-> "trace", ranks |-> 2, ret |-> 0],
    data    |-> [type |-> "composed", seq |-> <<"replay", "read", "stage">>,
                 repeat |-> 1, ret |-> 0],
    unused  |-> [type |-> "delay", delay |-> 1, ret |-> 0],
    late    |-> [type |-> "parallel", nb_res |-> 2, com_size |-> 4, ret |-> 0]]

MCFileProfiles == DOMAIN MCDesc \ {"late", "shuffle", "mix"}

\* The jobs: a nested sequence, one that talks with the scheduler, a trace
\* followed by transfers of data, and one registered by the scheduler, which
\* gives it an IO job too: one that only moves data, to a storage machine, or one
\* that also computes, each entry with an amount of its own, on a machine of the
\* job and on others, before and after it.
MCProfileOf == [nest |-> "outer", talker |-> "talk", tracer |-> "data",
                newcomer |-> "late"]
MCJobs == DOMAIN MCProfileOf
MCFileJobs == MCJobs \ {"newcomer"}
MCNbRes == [nest |-> 2, talker |-> 1, tracer |-> 2, newcomer |-> 2]
MCWalltime == [nest |-> 5, talker |-> 3, tracer |-> 3, newcomer |-> -1]

\* Machines 1 to 3 and 6 compute, 4 and 5 store.
Plain(machines) ==
    [machines |-> machines, mapping |-> <<>>, storage |-> NoStorage,
     ioProfile |-> None, io |-> <<>>]

MCAllocations == [
    nest |-> {[Plain(<<1, 2>>) EXCEPT !.mapping = <<2, 1>>]},
    talker |-> {Plain(<<3>>)},
    tracer |-> {[Plain(<<1, 2>>) EXCEPT
                    !.storage = [label \in {"pfs", "lcfs"} |->
                                    IF label = "pfs" THEN 4 ELSE 5]]},
    newcomer |-> {[Plain(<<2, 3>>) EXCEPT !.ioProfile = "shuffle",
                                          !.io = <<3, 4>>],
                  [Plain(<<2, 3>>) EXCEPT !.ioProfile = "mix",
                                          !.io = <<1, 2, 6>>]}]

MCMayKill == {"nest", "tracer"}
=============================================================================
