---------------------------- MODULE MCWorkflows ----------------------------
(* Two small instances of Workflows: a behaviour tells one story or the other. *)
EXTENDS Workflows, TLC

VARIABLE story

(* Requests and pushes over an empty table, without the scheduler; or the      *)
(* scheduler over a table that an earlier request has filled with what an      *)
(* earlier push brought.                                                       *)
MCInit ==
  \/ story = "syncs" /\ Init
  \/ /\ story = "schedule"
     /\ head = [p \in Paths |-> IF p = "ci.yml" THEN 2 ELSE 1]
     /\ rows = [p \in Paths |-> << Row(p, head[p], TRUE) >>]
     /\ procs = [h \in Procs |-> Idle]
     /\ runs = <<>>
     /\ ticks = <<>>
     /\ group = NoGroup
     /\ pushes = 1
     /\ requests = 1

MCNext ==
  /\ Next
  /\ story = "syncs" => ticks' = <<>> /\ Len(runs') <= 1
  /\ UNCHANGED story

MCSpec == MCInit /\ [][MCNext]_<<vars, story>>

\* Two files.  ci.yml: a push workflow on main with a matrix and a chain of
\* needs; the same with a call of lib.yml and three cron lines, one of them
\* out of bounds, two of them due at the first minute; a circular one.
\* lib.yml: a callable workflow.
J(needs, uses, matrix) == [needs |-> needs, uses |-> uses, matrix |-> matrix, named |-> matrix # NoMatrix,
                           runsOn |-> IF uses = "" THEN <<"linux">> ELSE <<>>,
                           steps |-> IF uses = "" THEN << {"run"} >> ELSE <<>>]
On(changes) == changes @@ [t \in {"push", "pull_request", "review", "workflow_dispatch", "workflow_call", "schedule"} |-> <<>>]
OnMain == << [branches |-> << <<"m">> >>, branchesIgnore |-> <<>>, tags |-> <<>>, tagsIgnore |-> <<>>,
              paths |-> <<>>, pathsIgnore |-> <<>>] >>
TwoSystems == [values |-> [k \in {"os"} |-> <<1, 2>>], include |-> <<>>, exclude |-> <<>>]
a == <<"a">>
b == <<"b">>

Value(n) == << [star |-> FALSE, lo |-> n, hi |-> n, step |-> 1] >>
Every(n) == << [star |-> TRUE, lo |-> 0, hi |-> 0, step |-> n] >>
Plain == [name |-> "ci", on |-> On("push" :> OnMain),
          jobs |-> a :> J(<<>>, "", TwoSystems) @@ b :> J(<<a>>, "", NoMatrix)]
Calling == [name |-> "ci", on |-> On("push" :> OnMain @@ "schedule" :> << <<Value(9), Every(1)>>, <<Value(0), Every(2)>>, <<Every(2), Value(1)>> >>),
            jobs |-> a :> J(<<>>, "", NoMatrix) @@ b :> J(<<a>>, "lib.yml", NoMatrix)]
Waiting == [Plain EXCEPT !.jobs = b :> J(<<>>, "lib.yml", NoMatrix) @@ a :> [J(<<b>>, "", NoMatrix) EXCEPT !.steps = << {"uses"}, {"run"} >>]]
Circular == [Plain EXCEPT !.jobs = a :> J(<<b>>, "", NoMatrix) @@ b :> J(<<a>>, "", NoMatrix)]
Lib(call) == [name |-> "lib", on |-> On("workflow_call" :> call),
              jobs |-> a :> J(<<>>, "", NoMatrix) @@ b :> J(<<a>>, "", NoMatrix)]

MCVersions == "ci.yml" :> <<Plain, Calling, Circular, Waiting>> @@ "lib.yml" :> <<Lib(<<TRUE>>)>>
MCEvents == { [type |-> "push", kind |-> "branch", ref |-> r, target |-> <<>>, files |-> <<>>] : r \in {<<"m">>} }

MCPaths == {"ci.yml", "lib.yml"}
MCBounds == << <<0, 3>>, <<1, 2>> >>
MCMinutes == << <<0, 1>>, <<1, 2>> >>

=============================================================================
