-------------------------------- MODULE MCJobs --------------------------------
(* Small instances of JobExecution and of JobLogs, which share no variable: *)
(* a behaviour moves one and leaves the other in its initial state.         *)
EXTENDS JobExecution, JobLogs

CONSTANTS r1, r2

JobsInit == Init /\ LogInit
JobsNext ==
    \/ LogInit /\ Next /\ UNCHANGED logVars
    \/ Init /\ LogNext /\ UNCHANGED vars
JobsSpec == JobsInit /\ [][JobsNext]_<<vars, logVars>>

S(id, uses, cond, coe, name) == [id |-> id, uses |-> uses, cond |-> cond, coe |-> coe, name |-> name]
Plain(uses) == S("", uses, "", FALSE, "a")

MCKinds       == {[r \in Runners |-> IF r \in L THEN "local" ELSE "pod"] : L \in {{}, {r2}}}
MCRunOf       == [j \in Jobs |-> j]
MCTimeout     == [j \in Jobs |-> 1]

Passes   == [j \in Jobs |-> IF j = 1 THEN << Plain("upload") >> ELSE << Plain("download") >>]
Deploys  == [j \in Jobs |-> IF j = 1 THEN << Plain("deploy") >> ELSE << Plain("checkout") >>]
Tolerant == [j \in Jobs |->
    IF j = 1 THEN << S("", "run", "", TRUE, ""), S("", "run", "failure", FALSE, "") >> ELSE << S("p", "plan", "", FALSE, "") >>]
MCWorkflows == {Passes, Deploys, Tolerant}
=============================================================================
