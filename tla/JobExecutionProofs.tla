-------------------------- MODULE JobExecutionProofs ---------------------------
(* Proofs about JobExecution: types, that a recorded success is earned, that *)
(* environments follow jobs, and that a deploy that ends well has started,   *)
(* for any set of runners, jobs and workflows; and, of the job logs          *)
(* (JobLogs), that a page that follows one misses nothing.                   *)
(*                                                                           *)
(* A job is in the hands of one runner at most, so what a runner does with   *)
(* its job cannot disturb what is known of another's. What is known of a     *)
(* runner is stated as a relation between what it is doing and the job's     *)
(* row, environment and history; each step of a runner is shown to be an     *)
(* OwnStep, which keeps the relation for itself and leaves the others alone. *)
EXTENDS JobExecution, JobLogs, FiniteSetTheorems, NaturalsInduction, WellFoundedInduction,
        SequenceTheorems, TLAPS

PCs        == {"idle", "start", "create", "step", "run", "finish", "cleanup", "poll"}
ExecFields == {"pc", "job", "i", "left", "allSuccess", "gen", "outputs", "err"}
RowFields  == {"status", "conclusion", "outputs", "def", "given", "steps"}
EnvFields  == {"kind", "age", "files", "tools", "out", "got", "cached", "plan", "image", "deployed"}

(* The types of what a runner does, of a job's row, environment and history. *)
ExecType(x) ==
    /\ DOMAIN x = ExecFields
    /\ x.pc \in PCs /\ x.job \in Jobs /\ x.i \in Nat \ {0} /\ x.left \in Nat
    /\ x.allSuccess \in BOOLEAN /\ x.gen \in Nat
RowType(w) ==
    /\ DOMAIN w = RowFields
    /\ w.status \in {"queued", "claimed", "in_progress", "completed"}
    /\ w.conclusion \in {"", "success", "failure"}
    /\ w.def \in Seq(StepDefinition) /\ w.given \in Nat /\ w.given <= Len(w.def) + 1
EnvType(e) ==
    \/ e = NoEnv
    \/ /\ DOMAIN e = EnvFields
       /\ e.kind \in {"pod", "local"} /\ e.age \in Nat /\ e.deployed \in Nat
RealType(h, w) == DOMAIN h = 1..Len(w.def) + 1
DeployType(d) ==
    /\ DOMAIN d = {"gen", "observed", "old", "updated", "ready", "started"}
    /\ d.gen \in Nat /\ d.observed \in Nat /\ d.started \in Nat
    /\ d.old \in Nat /\ d.updated \in Nat /\ d.ready \in Nat

Types ==
    /\ DOMAIN rows = Jobs /\ DOMAIN exec = Runners /\ DOMAIN envs = Jobs /\ DOMAIN real = Jobs
    /\ \A r \in Runners : ExecType(exec[r])
    /\ \A j \in Jobs : RowType(rows[j]) /\ EnvType(envs[j]) /\ RealType(real[j], rows[j])
    /\ DeployType(deploy)
    /\ faults \in 0..MaxFaults /\ kind \in Kinds

(* What is known of a runner x with a job, the job's row, environment and    *)
(* history: before the report, nothing is concluded; the steps done so far   *)
(* are what allSuccess says they are; the environment was made by this       *)
(* execution, so its age and the time left add up to the deadline at most.   *)
Earned(h, n) == \A k \in 1..n : h[k] \in {"success", "skipped"}

ExecInv(x, w, e, h) ==
    x.pc # "idle" =>
        /\ w.status # "queued"
        /\ x.pc \notin {"cleanup", "poll"} => w.conclusion = ""
        /\ x.pc \in {"start", "create"} => x.i = 1 /\ e = NoEnv /\ x.left <= Timeout[x.job]
        /\ x.pc \in {"step", "run", "finish"} /\ x.allSuccess =>
               \A k \in 1..w.given : k < x.i => h[k] \in {"success", "skipped"}
        /\ x.pc = "run" => x.i <= w.given /\ x.i <= Len(w.def)
        /\ x.pc = "finish" /\ x.allSuccess => x.i > w.given
        /\ x.pc \in {"step", "run"} /\ x.left > 0 /\ Timeout[x.job] <= GCAge =>
               e # NoEnv /\ e.age + x.left <= Timeout[x.job]

(* What is known of a job: one in the queue is untouched, a success is       *)
(* earned, the environment saw a rollout started.                            *)
JobInv(w, e, h, started) ==
    /\ w.status = "queued" => w.conclusion = "" /\ e = NoEnv
    /\ w.conclusion = "success" => Earned(h, w.given)
    /\ e # NoEnv => e.deployed <= started

RunnerInv ==
    \A r \in Runners :
        /\ exec[r].pc = "idle" => exec[r] = Idle
        /\ exec[r].gen <= deploy.gen
        /\ ExecInv(exec[r], rows[exec[r].job], envs[exec[r].job], real[exec[r].job])
JobsInv == \A j \in Jobs : JobInv(rows[j], envs[j], real[j], deploy.started)

(* No two runners execute one job. *)
Exclusive ==
    \A q, r \in Runners :
        exec[q].pc # "idle" /\ exec[r].pc # "idle" /\ exec[q].job = exec[r].job => q = r

(* The status counts the pods of the template the controller has seen. *)
DeployInv ==
    /\ deploy.started <= deploy.observed /\ deploy.observed <= deploy.gen
    /\ deploy.updated = Replicas => deploy.started = deploy.observed

(* Environments that nobody will remove, or whose runner has tried to: each  *)
(* has cost a fault.                                                         *)
Left == {j \in Jobs : envs[j] # NoEnv /\ \A r \in Runners : exec[r].pc \in {"idle", "poll"} \/ exec[r].job # j}
LeftInv == Cardinality(Left) <= faults

ExecutionInv ==
    Types /\ RunnerInv /\ JobsInv /\ Exclusive /\ DeployInv /\ LeftInv
-----------------------------------------------------------------------------
(* What a step does to its environment.                                      *)

(* An environment e that a step with context x may leave behind. *)
Carries(x, e) ==
    /\ DOMAIN e = EnvFields
    /\ e.kind = x.env.kind /\ e.age = x.env.age
    /\ e.deployed = x.env.deployed \/ (e.deployed = x.gen /\ rolloutComplete(deploy))
Proper(x, res) == res.ok \in BOOLEAN /\ Carries(x, res.env)

LEMMA ResultProper ==
    ASSUME NEW x, NEW e, Carries(x, e), NEW ok \in BOOLEAN
    PROVE  Proper(x, Result(ok, e))
BY DEF Proper, Result

LEMMA CommandProper ==
    ASSUME NEW x, NEW e, Carries(x, x.env), Carries(x, e)
    PROVE  \A res \in Command(x, e) : Proper(x, res)
<1> SUFFICES ASSUME NEW res \in Command(x, e) PROVE Proper(x, res)
  OBVIOUS
<1>1. res = Result(FALSE, x.env) \/ res = Result(TRUE, e)
  BY DEF Command
<1> QED BY <1>1, ResultProper

(* A change of a field other than deployed. *)
LEMMA UpdatesProper ==
    ASSUME NEW x, Carries(x, x.env), NEW v
    PROVE  /\ Carries(x, [x.env EXCEPT !.out = v])
           /\ Carries(x, [x.env EXCEPT !.tools = v])
           /\ Carries(x, [x.env EXCEPT !.image = v])
           /\ Carries(x, [x.env EXCEPT !.files = v])
           /\ Carries(x, [x.env EXCEPT !.plan = v])
           /\ Carries(x, [x.env EXCEPT !.got = v])
BY DEF Carries, EnvFields

(* The context of a step in an environment that is there. *)
Situated(x) == Carries(x, x.env)

AllProper(x, results) == \A res \in results : Proper(x, res)

LEMMA SkippedProper ==
    ASSUME NEW x, Situated(x), NEW ok \in BOOLEAN PROVE AllProper(x, {Result(ok, x.env)})
BY ResultProper DEF Situated, AllProper

LEMMA ScriptsProper ==
    ASSUME NEW x, Situated(x)
    PROVE  /\ AllProper(x, executeCommand(x)) /\ AllProper(x, localExecuteCommand(x))
           /\ \A tool : AllProper(x, Installs(x, tool))
           /\ AllProper(x, actionDockerSetupQemu(x))
           /\ AllProper(x, actionDockerLogin(x))
           /\ AllProper(x, actionDockerMetadata(x))
           /\ AllProper(x, actionDockerBuildPush(x))
<1>1. Carries(x, x.env)
  BY DEF Situated
<1>2. AllProper(x, executeCommand(x)) /\ AllProper(x, localExecuteCommand(x))
  BY <1>1, UpdatesProper, CommandProper DEF executeCommand, localExecuteCommand, AllProper
<1>3. \A tool : AllProper(x, Installs(x, tool))
  BY <1>1, UpdatesProper, CommandProper DEF Installs, AllProper
<1>4. AllProper(x, Command(x, x.env))
  BY <1>1, CommandProper DEF AllProper
<1>5. AllProper(x, actionDockerSetupQemu(x))
  BY <1>3, <1>4 DEF actionDockerSetupQemu, AllProper
<1>6. AllProper(x, {Result(TRUE, x.env)}) /\ AllProper(x, {Result(FALSE, x.env)})
  BY SkippedProper
<1>7. AllProper(x, actionDockerLogin(x))
  <2>1. Carries(x, [x.env EXCEPT !.tools = @ \cup {"buildah", "login"}])
    BY <1>1, UpdatesProper
  <2>2. AllProper(x, Command(x, [x.env EXCEPT !.tools = @ \cup {"buildah", "login"}]))
    BY <1>1, <2>1, CommandProper DEF AllProper
  <2> QED BY <1>6, <2>2 DEF actionDockerLogin, AllProper
<1>8. AllProper(x, actionDockerMetadata(x))
  BY <1>2, <1>6 DEF actionDockerMetadata, AllProper
<1>9. AllProper(x, actionDockerBuildPush(x))
  <2>1. AllProper(x, Command(x, [x.env EXCEPT !.image = TRUE]))
    BY <1>1, UpdatesProper, CommandProper DEF AllProper
  <2> QED BY <1>6, <2>1 DEF actionDockerBuildPush
<1> QED BY <1>2, <1>3, <1>5, <1>7, <1>8, <1>9

LEMMA CheckoutsProper ==
    ASSUME NEW x, Situated(x)
    PROVE  AllProper(x, actionCheckout(x)) /\ AllProper(x, localCheckout(x))
<1>1. AllProper(x, Fetches(x))
  BY UpdatesProper, CommandProper DEF AllProper, Situated, Fetches
<1> QED BY <1>1 DEF actionCheckout, kaiCheckoutArchive, kaiCheckoutPerFile, localCheckout, AllProper

LEMMA StoreActionsProper ==
    ASSUME NEW x, Situated(x)
    PROVE  /\ AllProper(x, actionCache(x))
           /\ AllProper(x, actionUploadArtifact(x)) /\ AllProper(x, localUploadArtifact(x))
           /\ AllProper(x, actionDownloadArtifact(x)) /\ AllProper(x, localDownloadArtifact(x))
           /\ AllProper(x, actionCIPlan(x)) /\ AllProper(x, localCIPlan(x))
<1>1. AllProper(x, {Result(TRUE, x.env)}) /\ AllProper(x, {Result(FALSE, x.env)})
  BY SkippedProper
<1>2. AllProper(x, actionCache(x))
  <2> DEFINE out == x.env.out \cup {x.step}
  <2>1. AllProper(x, {Result(TRUE, [x.env EXCEPT !.out = out])})
    BY UpdatesProper, ResultProper DEF AllProper, Situated
  <2>2. ASSUME NEW v PROVE AllProper(x, {Result(TRUE, [x.env EXCEPT !.cached = v, !.out = out])})
    <3>1. Carries(x, [x.env EXCEPT !.cached = v, !.out = out])
      BY DEF Carries, Situated, EnvFields
    <3> QED BY <3>1, ResultProper DEF AllProper
  <2>3. \A res \in actionCache(x) :
            \/ res = Result(TRUE, x.env) \/ res = Result(TRUE, [x.env EXCEPT !.out = out])
            \/ \E v : res = Result(TRUE, [x.env EXCEPT !.cached = v, !.out = out])
    BY DEF actionCache
  <2> HIDE DEF out
  <2> QED BY <1>1, <2>1, <2>2, <2>3 DEF AllProper
<1>3. AllProper(x, actionDownloadArtifact(x)) /\ AllProper(x, localDownloadArtifact(x))
  <2>1. ASSUME NEW e \in {x.env} \cup Downloaded(x) PROVE Carries(x, e)
    <3> DEFINE v == x.env.got \cup {LatestOf({ArtifactKey(x.job, x.def.name)}).val}
    <3>1. e = x.env \/ e = [x.env EXCEPT !.got = v]
      BY DEF Downloaded
    <3> HIDE DEF v
    <3>2. Carries(x, [x.env EXCEPT !.got = v])
      BY UpdatesProper DEF Situated
    <3>3. CASE e = x.env
      BY <3>3 DEF Situated
    <3>4. CASE e = [x.env EXCEPT !.got = v]
      BY <3>2, <3>4
    <3> QED BY <3>1, <3>3, <3>4
  <2>2. \A e \in {x.env} \cup Downloaded(x), ok \in BOOLEAN : Proper(x, Result(ok, e))
    BY <2>1, ResultProper
  <2> QED BY <1>1, <2>2 DEF AllProper, actionDownloadArtifact, localDownloadArtifact
<1>4. AllProper(x, actionCIPlan(x)) /\ AllProper(x, localCIPlan(x))
  BY UpdatesProper, ResultProper DEF AllProper, Situated, actionCIPlan, localCIPlan
<1> QED BY <1>1, <1>2, <1>3, <1>4 DEF actionUploadArtifact, localUploadArtifact

LEMMA DeploysProper ==
    ASSUME NEW x, Situated(x) PROVE AllProper(x, waitForDeployments(x))
<1>1. AllProper(x, {Result(FALSE, x.env)})
  BY SkippedProper
<1>2. rolloutComplete(deploy) => Carries(x, [x.env EXCEPT !.deployed = x.gen])
  BY DEF Carries, Situated, EnvFields
<1>3. rolloutComplete(deploy) => AllProper(x, {Result(TRUE, [x.env EXCEPT !.deployed = x.gen])})
  BY <1>2, ResultProper DEF AllProper
<1> QED BY <1>1, <1>3 DEF waitForDeployments, AllProper

(* Whatever step of whatever executor it is: the environment stays what it   *)
(* is, except for what the step waited for.                                  *)
LEMMA StepsProper ==
    ASSUME NEW x, Situated(x) PROVE AllProper(x, ExecuteStep(x))
<1>1. /\ AllProper(x, executeCommand(x)) /\ AllProper(x, localExecuteCommand(x))
      /\ AllProper(x, actionDockerSetupQemu(x)) /\ AllProper(x, actionDockerLogin(x))
      /\ AllProper(x, actionDockerMetadata(x)) /\ AllProper(x, actionDockerBuildPush(x))
      /\ AllProper(x, actionCheckout(x)) /\ AllProper(x, localCheckout(x))
  BY ScriptsProper, CheckoutsProper
<1>2. /\ AllProper(x, actionSetupGo(x)) /\ AllProper(x, actionSetupNode(x))
      /\ AllProper(x, actionSetupPython(x)) /\ AllProper(x, actionSetupJava(x))
      /\ AllProper(x, actionRustToolchain(x)) /\ AllProper(x, actionDockerSetupBuildx(x))
      /\ AllProper(x, localSetupGo(x)) /\ AllProper(x, localSetupNode(x))
  BY ScriptsProper DEF actionSetupGo, actionSetupNode, actionSetupPython, actionSetupJava,
     actionRustToolchain, actionDockerSetupBuildx, localSetupGo, localSetupNode
<1>3. /\ AllProper(x, actionCache(x))
      /\ AllProper(x, actionUploadArtifact(x)) /\ AllProper(x, localUploadArtifact(x))
      /\ AllProper(x, actionDownloadArtifact(x)) /\ AllProper(x, localDownloadArtifact(x))
      /\ AllProper(x, actionCIPlan(x)) /\ AllProper(x, localCIPlan(x))
  BY StoreActionsProper
<1>4. /\ AllProper(x, actionDeployK8s(x)) /\ AllProper(x, actionApplyK8s(x))
      /\ AllProper(x, localApplyK8s(x))
  BY DeploysProper DEF actionDeployK8s, actionApplyK8s, localApplyK8s
<1>5. AllProper(x, {Result(TRUE, x.env)})
  BY SkippedProper
<1>6. AllProper(x, actionGeneric(x))
  BY <1>1, <1>5 DEF actionGeneric, runCompositeAction, runNodeAction, AllProper
<1>7. AllProper(x, executeAction(x))
  BY <1>1, <1>2, <1>3, <1>4, <1>6 DEF executeAction
<1>8. AllProper(x, localExecuteAction(x))
  BY <1>1, <1>2, <1>3, <1>4, <1>5 DEF localExecuteAction
<1> QED BY <1>7, <1>8 DEF ExecuteStep
-----------------------------------------------------------------------------
(* A step of runner r with its job j.                                        *)

After(x, w, e, h, j) ==
    /\ ExecType(x) /\ RowType(w) /\ EnvType(e) /\ RealType(h, w)
    /\ x.pc = "idle" => x = Idle
    /\ x.pc # "idle" => x.job = j
    /\ ExecInv(x, w, e, h)
    /\ JobInv(w, e, h, deploy.started)

OwnStep(r, j) ==
    /\ exec[r].pc # "idle" /\ exec[r].job = j
    /\ DOMAIN exec' = Runners /\ DOMAIN rows' = Jobs /\ DOMAIN envs' = Jobs /\ DOMAIN real' = Jobs
    /\ \A q \in Runners \ {r} : exec'[q] = exec[q]
    /\ \A k \in Jobs \ {j} : rows'[k] = rows[k] /\ envs'[k] = envs[k] /\ real'[k] = real[k]
    /\ After(exec'[r], rows'[j], envs'[j], real'[j], j)
    /\ exec'[r].gen <= deploy'.gen
    /\ \/ Fault
       \/ /\ faults' = faults
          /\ exec'[r].pc \in {"idle", "poll"} =>
                 envs'[j] = NoEnv \/ (exec[r].pc = "poll" /\ envs'[j] = envs[j])

LEMMA Bounds ==
    /\ IsFiniteSet(Jobs) /\ MaxFaults \in Nat /\ GCAge \in Nat
    /\ \A j \in Jobs : Timeout[j] \in Nat
BY JobExecutionAssumption

LEMMA IdleType == ExecType(Idle) /\ Idle.pc = "idle" /\ Idle.gen = 0 /\ Idle.i = 1
<1>1. (CHOOSE j \in Jobs : TRUE) \in Jobs
  BY JobExecutionAssumption
<1> QED BY <1>1 DEF Idle, ExecType, ExecFields, PCs

LEMMA NoEnvType == NoEnv.kind = "none" /\ EnvType(NoEnv) /\ \A e : EnvType(e) /\ e # NoEnv => e.kind \in {"pod", "local"} /\ DOMAIN e = EnvFields
BY DEF NoEnv, EnvType

(* What is known of a runner that has a job. *)
LEMMA OwnFacts ==
    ASSUME ExecutionInv, NEW r \in Runners, exec[r].pc # "idle"
    PROVE  /\ exec[r].job \in Jobs /\ ExecType(exec[r])
           /\ RowType(rows[exec[r].job]) /\ EnvType(envs[exec[r].job])
           /\ RealType(real[exec[r].job], rows[exec[r].job])
           /\ ExecInv(exec[r], rows[exec[r].job], envs[exec[r].job], real[exec[r].job])
           /\ JobInv(rows[exec[r].job], envs[exec[r].job], real[exec[r].job], deploy.started)
           /\ exec[r].gen <= deploy.gen
           /\ DOMAIN exec = Runners /\ DOMAIN rows = Jobs /\ DOMAIN envs = Jobs /\ DOMAIN real = Jobs
<1>1. exec[r].job \in Jobs /\ ExecType(exec[r])
  BY DEF ExecutionInv, Types, ExecType
<1> QED BY <1>1 DEF ExecutionInv, Types, RunnerInv, JobsInv

(* A runner goes on to another place. *)
Moves(r, v) ==
    /\ DOMAIN exec' = Runners /\ \A q \in Runners \ {r} : exec'[q] = exec[q]
    /\ ExecType(exec'[r]) /\ exec'[r].pc = v
    /\ exec'[r].job = exec[r].job /\ exec'[r].i = exec[r].i /\ exec'[r].left = exec[r].left
    /\ exec'[r].allSuccess = exec[r].allSuccess /\ exec'[r].gen = exec[r].gen
    /\ exec'[r].err = exec[r].err

LEMMA GotoMoves ==
    ASSUME Types, NEW r \in Runners, NEW v \in PCs, Goto(r, v)
    PROVE  Moves(r, v)
<1>1. DOMAIN exec = Runners /\ DOMAIN exec[r] = ExecFields /\ ExecType(exec[r])
  BY DEF Types, ExecType
<1>2. DOMAIN exec' = Runners /\ \A q \in Runners \ {r} : exec'[q] = exec[q]
  BY <1>1 DEF Goto
<1>3. exec'[r] = [exec[r] EXCEPT !.pc = v]
  BY <1>1 DEF Goto
<1>4. DOMAIN exec'[r] = ExecFields /\ exec'[r].pc = v /\ \A f \in ExecFields : f # "pc" => exec'[r][f] = exec[r][f]
  BY <1>1, <1>3 DEF ExecFields
<1>5. /\ exec'[r].job = exec[r].job /\ exec'[r].i = exec[r].i /\ exec'[r].left = exec[r].left
      /\ exec'[r].allSuccess = exec[r].allSuccess /\ exec'[r].gen = exec[r].gen
      /\ exec'[r].err = exec[r].err
  BY <1>4 DEF ExecFields
<1> QED BY <1>1, <1>2, <1>4, <1>5 DEF Moves, ExecType

(* A runner lets go of its job, or its loop begins again. *)
LEMMA ResetMoves ==
    ASSUME Types, NEW r \in Runners, exec' = [exec EXCEPT ![r] = Idle]
    PROVE  /\ DOMAIN exec' = Runners /\ \A q \in Runners \ {r} : exec'[q] = exec[q]
           /\ exec'[r] = Idle
BY DEF Types

(* A row changes its status, and nothing of what the job is. *)
LEMMA RowStatus ==
    ASSUME Types, NEW j \in Jobs, NEW s \in {"in_progress"},
           rows' = [rows EXCEPT ![j].status = s]
    PROVE  /\ DOMAIN rows' = Jobs /\ \A k \in Jobs \ {j} : rows'[k] = rows[k]
           /\ RowType(rows'[j]) /\ rows'[j].status = s
           /\ rows'[j].conclusion = rows[j].conclusion /\ rows'[j].def = rows[j].def
           /\ rows'[j].given = rows[j].given
<1>1. DOMAIN rows = Jobs /\ RowType(rows[j])
  BY DEF Types
<1>2. rows'[j] = [rows[j] EXCEPT !.status = s]
  BY <1>1
<1> QED BY <1>1, <1>2 DEF RowType, RowFields

(* startJob, and the ways it fails. *)
LEMMA StartsOwn ==
    ASSUME ExecutionInv, NEW r \in Runners, startJob(r)
    PROVE  OwnStep(r, exec[r].job)
<1> DEFINE j == exec[r].job
<1>1. exec[r].pc = "start" /\ UNCHANGED <<envs, real, deploy>>
  BY DEF startJob
<1>2. Types
  BY DEF ExecutionInv
<1>f. /\ j \in Jobs /\ ExecType(exec[r]) /\ RowType(rows[j]) /\ EnvType(envs[j]) /\ RealType(real[j], rows[j])
      /\ ExecInv(exec[r], rows[j], envs[j], real[j])
      /\ JobInv(rows[j], envs[j], real[j], deploy.started)
      /\ exec[r].gen <= deploy.gen
      /\ DOMAIN exec = Runners /\ DOMAIN rows = Jobs /\ DOMAIN envs = Jobs /\ DOMAIN real = Jobs
  BY <1>1, OwnFacts
<1>3. envs[j] = NoEnv /\ rows[j].status # "queued" /\ rows[j].conclusion = "" /\ exec[r].left <= Timeout[j]
  BY <1>1, <1>f DEF ExecInv
<1>4. \/ rows' = rows
      \/ rows' = [rows EXCEPT ![j].status = "in_progress"]
  BY DEF startJob
<1>5. /\ DOMAIN rows' = Jobs /\ \A k \in Jobs \ {j} : rows'[k] = rows[k]
      /\ RowType(rows'[j]) /\ rows'[j].status # "queued"
      /\ rows'[j].conclusion = rows[j].conclusion /\ rows'[j].def = rows[j].def
      /\ rows'[j].given = rows[j].given
  <2>1. CASE rows' = rows
    BY <1>3, <1>f, <2>1
  <2>2. CASE rows' = [rows EXCEPT ![j].status = "in_progress"]
    <3> HIDE DEF j
    <3> QED BY <1>2, <1>f, <2>2, RowStatus
  <2> QED BY <1>4, <2>1, <2>2
<1>6. \/ Moves(r, "create") /\ faults' = faults
      \/ Moves(r, "poll") /\ Fault
  BY <1>2, GotoMoves DEF startJob, PCs
<1> HIDE DEF j
<1>7. PICK v \in {"create", "poll"} : Moves(r, v)
  BY <1>6
<1>8. After(exec'[r], rows'[j], envs'[j], real'[j], j)
  BY <1>1, <1>3, <1>5, <1>7, <1>f DEF After, Moves, ExecInv, JobInv, RealType, ExecType, j
<1>9. exec'[r].gen <= deploy'.gen
  BY <1>1, <1>7, <1>f DEF Moves
<1>10. envs'[j] = NoEnv
  BY <1>1, <1>3
<1> QED BY <1>1, <1>5, <1>6, <1>8, <1>9, <1>10, <1>f DEF OwnStep, Moves, j

(* CreateJob: the environment is fresh, and has as much time to live as is   *)
(* left of the deadline.                                                     *)
LEMMA CreatesOwn ==
    ASSUME ExecutionInv, NEW r \in Runners, CreateJob(r)
    PROVE  OwnStep(r, exec[r].job)
<1> DEFINE j == exec[r].job
<1>1. exec[r].pc = "create" /\ UNCHANGED <<rows, real, deploy>>
  BY DEF CreateJob
<1>2. Types
  BY DEF ExecutionInv
<1>f. /\ j \in Jobs /\ ExecType(exec[r]) /\ RowType(rows[j]) /\ EnvType(envs[j]) /\ RealType(real[j], rows[j])
      /\ ExecInv(exec[r], rows[j], envs[j], real[j])
      /\ JobInv(rows[j], envs[j], real[j], deploy.started)
      /\ exec[r].gen <= deploy.gen
      /\ DOMAIN exec = Runners /\ DOMAIN rows = Jobs /\ DOMAIN envs = Jobs /\ DOMAIN real = Jobs
  BY <1>1, OwnFacts
<1>3. envs[j] = NoEnv /\ rows[j].status # "queued" /\ rows[j].conclusion = "" /\ exec[r].left <= Timeout[j]
  BY <1>1, <1>f DEF ExecInv
<1>4. \/ envs' = [envs EXCEPT ![j] = FreshEnv(r)] /\ Moves(r, "step") /\ faults' = faults
      \/ envs' = envs /\ Moves(r, "poll") /\ faults' = faults
      \/ envs' = [envs EXCEPT ![j] = FreshEnv(r)] /\ Moves(r, "poll") /\ Fault
  BY <1>2, GotoMoves DEF CreateJob, CreateFailed, PCs
<1>5. CASE envs' = envs /\ Moves(r, "poll") /\ faults' = faults
  <2> HIDE DEF j
  <2>1. After(exec'[r], rows'[j], envs'[j], real'[j], j)
    BY <1>1, <1>3, <1>5, <1>f DEF After, Moves, ExecInv, JobInv, ExecType, j
  <2> QED BY <1>1, <1>3, <1>5, <1>f, <2>1 DEF OwnStep, Moves, j
<1>6. ASSUME NEW pc \in {"step", "poll"}, envs' = [envs EXCEPT ![j] = FreshEnv(r)], Moves(r, pc),
             IF pc = "step" THEN faults' = faults ELSE Fault
      PROVE  OwnStep(r, j)
  <2> DEFINE e == FreshEnv(r)
  <2>1. kind[r] \in {"pod", "local"}
    BY <1>2, JobExecutionAssumption DEF Types
  <2>2. EnvType(e) /\ e.age = 0 /\ e.deployed = 0 /\ e # NoEnv
    BY <2>1, NoEnvType DEF FreshEnv, EnvType, EnvFields
  <2>3. DOMAIN envs' = Jobs /\ envs'[j] = e /\ \A k \in Jobs \ {j} : envs'[k] = envs[k]
    BY <1>6, <1>f
  <2>4. deploy.started \in Nat /\ exec[r].left \in Nat /\ Timeout[j] \in Nat
    BY <1>2, <1>f, Bounds DEF Types, DeployType, ExecType
  <2>5. exec[r].i = 1
    BY <1>1, <1>f DEF ExecInv
  <2>l. rows[j].given \in Nat
    BY <1>f DEF RowType
  <2> HIDE DEF j, e
  <2>6. After(exec'[r], rows'[j], e, real'[j], j)
    <3>0. rows'[j] = rows[j] /\ real'[j] = real[j]
      BY <1>1
    <3>1. JobInv(rows[j], e, real[j], deploy.started)
      <4>1. e.deployed <= deploy.started
        BY <2>2, <2>4
      <4> QED BY <1>3, <4>1 DEF JobInv
    <3>2. ExecInv(exec'[r], rows[j], e, real[j])
      <4>1. exec'[r].pc = pc /\ exec'[r].i = 1 /\ exec'[r].left = exec[r].left /\ exec'[r].job = j
        BY <1>6, <2>5 DEF Moves, j
      <4>2. e.age + exec'[r].left <= Timeout[exec'[r].job]
        <5>1. e.age = 0 /\ exec[r].left <= Timeout[j] /\ exec[r].left \in Nat
          BY <1>3, <2>2, <2>4
        <5>2. e.age + exec[r].left = exec[r].left
          BY <5>1
        <5> QED BY <4>1, <5>1, <5>2
      <4>3. \A k \in 1..rows[j].given : ~(k < exec'[r].i)
        BY <2>l, <4>1
      <4> QED BY <1>3, <2>2, <4>1, <4>2, <4>3 DEF ExecInv
    <3>3. ExecType(exec'[r]) /\ exec'[r].pc = pc /\ exec'[r].job = j
      BY <1>6 DEF Moves, j
    <3> QED BY <1>f, <2>2, <3>0, <3>1, <3>2, <3>3 DEF After
  <2> QED BY <1>1, <1>6, <1>f, <2>3, <2>6 DEF OwnStep, Moves, j
<1> QED BY <1>4, <1>5, <1>6

(* Everything a step of a runner may use of what is known. *)
Own(r, j) ==
    /\ exec[r].job = j /\ exec[r].pc # "idle" /\ j \in Jobs
    /\ ExecType(exec[r]) /\ RowType(rows[j]) /\ EnvType(envs[j]) /\ RealType(real[j], rows[j])
    /\ ExecInv(exec[r], rows[j], envs[j], real[j])
    /\ JobInv(rows[j], envs[j], real[j], deploy.started)
    /\ exec[r].gen <= deploy.gen
    /\ DOMAIN exec = Runners /\ DOMAIN rows = Jobs /\ DOMAIN envs = Jobs /\ DOMAIN real = Jobs

LEMMA OwnHolds ==
    ASSUME ExecutionInv, NEW r \in Runners, exec[r].pc # "idle" PROVE Own(r, exec[r].job)
BY OwnFacts DEF Own

(* The row of j changes in the columns that only record what happened. *)
RowKept(j) ==
    /\ DOMAIN rows' = Jobs /\ \A k \in Jobs \ {j} : rows'[k] = rows[k]
    /\ RowType(rows'[j]) /\ rows'[j].status = rows[j].status
    /\ rows'[j].conclusion = rows[j].conclusion /\ rows'[j].def = rows[j].def
    /\ rows'[j].given = rows[j].given

LEMMA CompleteStepKeeps ==
    ASSUME Types, NEW r \in Runners, exec[r].job \in Jobs, NEW i, NEW c, completeStep(r, i, c)
    PROVE  RowKept(exec[r].job) /\ (faults' = faults \/ Fault)
<1> DEFINE j == exec[r].job
<1>1. DOMAIN rows = Jobs /\ RowType(rows[j])
  BY DEF Types
<1>2. \/ rows' = rows
      \/ rows' = [rows EXCEPT ![j].steps[i] = c]
  BY DEF completeStep
<1>3. faults' = faults \/ Fault
  BY DEF completeStep
<1>4. CASE rows' = rows
  BY <1>1, <1>3, <1>4 DEF RowKept
<1>5. CASE rows' = [rows EXCEPT ![j].steps[i] = c]
  <2> HIDE DEF j
  <2>1. j \in Jobs
    BY DEF j
  <2>2. \A k \in Jobs \ {j} : rows'[k] = rows[k]
    BY <1>1, <1>5
  <2>3. rows'[j] = [rows[j] EXCEPT !.steps = [rows[j].steps EXCEPT ![i] = c]]
    BY <1>1, <1>5, <2>1
  <2>4. DOMAIN rows'[j] = RowFields /\ \A f \in RowFields : f # "steps" => rows'[j][f] = rows[j][f]
    BY <1>1, <2>1, <2>3 DEF RowType, RowFields
  <2>5. /\ rows'[j].status = rows[j].status /\ rows'[j].conclusion = rows[j].conclusion
        /\ rows'[j].def = rows[j].def /\ rows'[j].given = rows[j].given
    BY <2>4 DEF RowFields
  <2>6. DOMAIN rows' = Jobs
    BY <1>1, <1>5
  <2>7. RowKept(j)
    BY <1>1, <2>1, <2>2, <2>4, <2>5, <2>6 DEF RowKept, RowType
  <2> QED BY <1>3, <2>7 DEF j
<1> QED BY <1>2, <1>4, <1>5

(* What became of step i of job j is recorded. *)
LEMMA RealSet ==
    ASSUME Types, NEW j \in Jobs, NEW i \in Nat \ {0}, NEW c, real' = [real EXCEPT ![j][i] = c]
    PROVE  /\ DOMAIN real' = Jobs /\ \A k \in Jobs \ {j} : real'[k] = real[k]
           /\ DOMAIN real'[j] = DOMAIN real[j]
           /\ \A k \in DOMAIN real[j] : real'[j][k] = IF k = i THEN c ELSE real[j][k]
<1>1. DOMAIN real = Jobs
  BY DEF Types
<1>2. real'[j] = [real[j] EXCEPT ![i] = c]
  BY <1>1
<1> QED BY <1>1, <1>2

LEMMA SkipsOwn ==
    ASSUME ExecutionInv, NEW r \in Runners, SkipStep(r)
    PROVE  OwnStep(r, exec[r].job)
<1> DEFINE j == exec[r].job
           i == exec[r].i
<1>1. /\ exec[r].pc = "step" /\ i <= rows[j].given /\ UNCHANGED <<envs, deploy>>
      /\ real' = [real EXCEPT ![j][i] = "skipped"]
      /\ exec' = [exec EXCEPT ![r].i = @ + 1]
      /\ completeStep(r, i, "skipped")
  BY DEF SkipStep, Given
<1>2. Types
  BY DEF ExecutionInv
<1>3. Own(r, j)
  BY <1>1, OwnHolds
<1>4. RowKept(j) /\ (faults' = faults \/ Fault)
  BY <1>1, <1>2, <1>3, CompleteStepKeeps DEF Own
<1>5. /\ DOMAIN real' = Jobs /\ \A k \in Jobs \ {j} : real'[k] = real[k]
      /\ DOMAIN real'[j] = DOMAIN real[j]
      /\ \A k \in DOMAIN real[j] : real'[j][k] = IF k = i THEN "skipped" ELSE real[j][k]
  BY <1>1, <1>2, <1>3, RealSet DEF Own, ExecType
<1> HIDE DEF j, i
<1>6. /\ DOMAIN exec' = Runners /\ \A q \in Runners \ {r} : exec'[q] = exec[q]
      /\ exec'[r] = [exec[r] EXCEPT !.i = i + 1]
  BY <1>1, <1>3 DEF Own, i
<1>7. /\ ExecType(exec'[r]) /\ exec'[r].pc = "step" /\ exec'[r].job = j /\ exec'[r].i = i + 1
      /\ exec'[r].left = exec[r].left /\ exec'[r].allSuccess = exec[r].allSuccess
      /\ exec'[r].gen = exec[r].gen
  BY <1>1, <1>3, <1>6 DEF Own, ExecType, ExecFields, i
<1>8. /\ Len(rows[j].def) \in Nat /\ DOMAIN real[j] = 1..Len(rows[j].def) + 1
      /\ rows[j].given \in Nat /\ rows[j].given <= Len(rows[j].def) + 1 /\ i \in Nat
  BY <1>3, LenProperties DEF Own, RowType, RealType, ExecType, i
<1>9. ExecInv(exec'[r], rows'[j], envs[j], real'[j])
  <2>1. ASSUME exec[r].allSuccess, NEW k \in 1..rows[j].given, k < i + 1
        PROVE  real'[j][k] \in {"success", "skipped"}
    <3>1. k = i \/ k < i
      BY <1>8, <2>1
    <3>2. k < i => real[j][k] \in {"success", "skipped"}
      BY <1>1, <1>3, <2>1 DEF Own, ExecInv, i
    <3> QED BY <1>5, <1>8, <3>1, <3>2
  <2> QED BY <1>1, <1>3, <1>4, <1>7, <2>1 DEF Own, ExecInv, RowKept, j
<1>10. JobInv(rows'[j], envs[j], real'[j], deploy.started)
  <2>1. rows'[j].conclusion = "" /\ rows'[j].status # "queued"
    BY <1>1, <1>3, <1>4 DEF Own, ExecInv, RowKept
  <2> QED BY <1>3, <2>1 DEF Own, JobInv
<1>11. RealType(real'[j], rows'[j])
  BY <1>4, <1>5, <1>8 DEF RealType, RowKept
<1>12. After(exec'[r], rows'[j], envs'[j], real'[j], j)
  BY <1>1, <1>3, <1>4, <1>7, <1>9, <1>10, <1>11 DEF After, RowKept, Own
<1> QED BY <1>1, <1>3, <1>4, <1>5, <1>6, <1>7, <1>12 DEF OwnStep, Own, RowKept, j

(* BeginStep: a deploy step makes its patch. *)
LEMMA BeginsOwn ==
    ASSUME ExecutionInv, NEW r \in Runners, BeginStep(r)
    PROVE  /\ OwnStep(r, exec[r].job)
           /\ DeployType(deploy') /\ DeployInv'
           /\ deploy'.started = deploy.started /\ deploy.gen <= deploy'.gen
<1> DEFINE j == exec[r].job
           i == exec[r].i
<1>1. /\ exec[r].pc = "step" /\ i <= Len(rows[j].def) /\ i <= rows[j].given
      /\ UNCHANGED <<rows, real, envs, faults>>
      /\ exec' = [exec EXCEPT ![r].pc = "run", ![r].gen = deploy'.gen]
      /\ deploy' = deploy \/ deploy' = [deploy EXCEPT !.gen = @ + 1]
  BY DEF BeginStep, N, Steps, Given
<1>2. DeployType(deploy) /\ DeployInv
  BY DEF ExecutionInv, Types
<1>3. Own(r, j)
  BY <1>1, OwnHolds
<1>4. /\ DeployType(deploy') /\ DeployInv'
      /\ deploy'.started = deploy.started /\ deploy.gen <= deploy'.gen
  BY <1>1, <1>2 DEF DeployType, DeployInv
<1> HIDE DEF j, i
<1>5. /\ DOMAIN exec' = Runners /\ \A q \in Runners \ {r} : exec'[q] = exec[q]
      /\ exec'[r] = [exec[r] EXCEPT !.pc = "run", !.gen = deploy'.gen]
  BY <1>1, <1>3 DEF Own
<1>6. DOMAIN exec'[r] = ExecFields /\ exec'[r].pc = "run" /\ exec'[r].gen = deploy'.gen
  BY <1>3, <1>5 DEF Own, ExecType, ExecFields
<1>7. /\ exec'[r].job = j /\ exec'[r].i = i /\ exec'[r].left = exec[r].left
      /\ exec'[r].allSuccess = exec[r].allSuccess
  BY <1>3, <1>5 DEF Own, ExecType, ExecFields, i
<1>8. ExecType(exec'[r])
  BY <1>3, <1>4, <1>6, <1>7 DEF Own, ExecType, DeployType, PCs, i
<1>9. ExecInv(exec'[r], rows[j], envs[j], real[j])
  BY <1>1, <1>3, <1>6, <1>7 DEF Own, ExecInv, i
<1>10. After(exec'[r], rows'[j], envs'[j], real'[j], j)
  BY <1>1, <1>3, <1>6, <1>7, <1>8, <1>9 DEF After, Own
<1>11. exec'[r].gen <= deploy'.gen
  BY <1>4, <1>6 DEF DeployType
<1>12. OwnStep(r, j)
  BY <1>1, <1>3, <1>5, <1>6, <1>10, <1>11 DEF OwnStep, Own
<1> QED BY <1>4, <1>12 DEF j
(* The environment an ended step leaves to the next one. *)
LEMMA StepLeaves ==
    ASSUME ExecutionInv, NEW r \in Runners, exec[r].pc = "run", NEW res \in StepResults(r)
    PROVE  LET j == exec[r].job  e == Emptied(r, res.env) IN
           /\ res.ok \in BOOLEAN /\ EnvType(e)
           /\ e = NoEnv <=> envs[j] = NoEnv
           /\ e # NoEnv => e.age = envs[j].age /\ e.deployed <= deploy.started
<1> DEFINE j == exec[r].job
           x == Ctx(r)
           e == Emptied(r, res.env)
<1>1. Own(r, j) /\ DeployInv /\ DeployType(deploy)
  BY OwnHolds DEF ExecutionInv, Types
<1>2. CASE envs[j] = NoEnv
  <2>1. res = Result(FALSE, NoEnv)
    BY <1>2 DEF StepResults
  <2>2. res.ok = FALSE /\ res.env = NoEnv
    BY <2>1 DEF Result
  <2>3. e = NoEnv
    BY <2>2 DEF Emptied
  <2> QED BY <1>2, <2>2, <2>3, NoEnvType
<1>3. CASE envs[j] # NoEnv
  <2>1. x.env = envs[j] /\ x.gen = exec[r].gen
    BY DEF Ctx
  <2>2. DOMAIN envs[j] = EnvFields /\ envs[j].kind \in {"pod", "local"} /\ envs[j].age \in Nat /\ envs[j].deployed \in Nat
    BY <1>1, <1>3 DEF Own, EnvType
  <2> HIDE DEF x, e
  <2>4. Situated(x)
    BY <1>1, <2>1, <2>2 DEF Situated, Carries, Own
  <2>5. Proper(x, res)
    <3>1. res \in ExecuteStep(x)
      BY <1>3 DEF StepResults, x
    <3> QED BY <1>1, <2>4, <3>1, StepsProper DEF AllProper
  <2>6. /\ DOMAIN res.env = EnvFields /\ res.env.kind = envs[j].kind /\ res.env.age = envs[j].age
        /\ res.env.deployed = envs[j].deployed \/ (res.env.deployed = exec[r].gen /\ rolloutComplete(deploy))
        /\ res.ok \in BOOLEAN
    BY <2>1, <2>5 DEF Proper, Carries
  <2>7. res.env # NoEnv
    BY <2>2, <2>6, NoEnvType
  <2>8. /\ DOMAIN e = EnvFields /\ e.kind = res.env.kind /\ e.age = res.env.age
        /\ e.deployed = res.env.deployed
    <3>1. CASE e = res.env
      BY <2>6, <3>1
    <3>2. ASSUME NEW v, e = [res.env EXCEPT !.out = v, !.plan = 0]
          PROVE  /\ DOMAIN e = EnvFields /\ e.kind = res.env.kind /\ e.age = res.env.age
                 /\ e.deployed = res.env.deployed
      BY <2>6, <3>2 DEF EnvFields
    <3>3. e = res.env \/ \E v : e = [res.env EXCEPT !.out = v, !.plan = 0]
      BY DEF e, Emptied
    <3> QED BY <3>1, <3>2, <3>3
  <2>9. e # NoEnv
    BY <2>2, <2>6, <2>8, NoEnvType
  <2>10. envs[j].deployed <= deploy.started
    BY <1>1, <1>3 DEF Own, JobInv
  <2>11. rolloutComplete(deploy) => exec[r].gen <= deploy.started
    BY <1>1 DEF Own, ExecType, rolloutComplete, DeployInv, DeployType
  <2>12. e.deployed <= deploy.started
    BY <2>6, <2>8, <2>10, <2>11
  <2>13. e.deployed \in Nat
    BY <1>1, <2>2, <2>6, <2>8 DEF Own, ExecType
  <2>15. EnvType(e)
    BY <2>2, <2>6, <2>8, <2>13 DEF EnvType
  <2>16. e.age = envs[j].age
    BY <2>6, <2>8
  <2> QED BY <1>3, <2>6, <2>9, <2>12, <2>15, <2>16 DEF e
<1> QED BY <1>2, <1>3
(* EndStep: a failure makes the job a failure unless the step may continue   *)
(* on error, and the step's conclusion is what is recorded.                  *)
LEMMA EndsOwn ==
    ASSUME ExecutionInv, NEW r \in Runners, EndStep(r)
    PROVE  OwnStep(r, exec[r].job)
<1> DEFINE j == exec[r].job
           i == exec[r].i
<1>1. exec[r].pc = "run" /\ deploy' = deploy
  BY DEF EndStep
<1> DEFINE c(res) == IF res.ok THEN "success" ELSE "failure"
<1>2. PICK res \in StepResults(r) :
         /\ envs' = [envs EXCEPT ![j] = Emptied(r, res.env)]
         /\ completeStep(r, i, c(res))
         /\ real' = [real EXCEPT ![j][i] = c(res)]
         /\ exec' = [exec EXCEPT
               ![r].pc = IF res.ok \/ Def(r).coe THEN "step" ELSE "finish",
               ![r].i = @ + 1, ![r].allSuccess = AllSuccess(r, res.ok),
               ![r].outputs = @ \cup Captured(r, res.env)]
  BY DEF EndStep
<1> DEFINE e == Emptied(r, res.env)
           d == c(res)
<1>3. Types /\ Own(r, j)
  BY <1>1, OwnHolds DEF ExecutionInv
<1>4. /\ res.ok \in BOOLEAN /\ EnvType(e)
      /\ e = NoEnv <=> envs[j] = NoEnv
      /\ e # NoEnv => e.age = envs[j].age /\ e.deployed <= deploy.started
  BY <1>1, StepLeaves
<1>6. RowKept(j) /\ (faults' = faults \/ Fault)
  BY <1>2, <1>3, CompleteStepKeeps DEF Own
<1>7. /\ DOMAIN real' = Jobs /\ \A k \in Jobs \ {j} : real'[k] = real[k]
      /\ DOMAIN real'[j] = DOMAIN real[j]
      /\ \A k \in DOMAIN real[j] : real'[j][k] = IF k = i THEN d ELSE real[j][k]
  BY <1>2, <1>3, RealSet DEF Own, ExecType
<1>8. d = "success" <=> res.ok
  BY <1>4
<1> HIDE DEF j, i, e, d
<1>9. /\ DOMAIN envs' = Jobs /\ \A k \in Jobs \ {j} : envs'[k] = envs[k]
      /\ envs'[j] = e
  BY <1>2, <1>3 DEF Own, e, j
<1>10. PICK p, b, o :
          /\ p \in {"step", "finish"} /\ b = (exec[r].allSuccess /\ res.ok)
          /\ p = "step" \/ ~res.ok
          /\ exec' = [exec EXCEPT ![r].pc = p, ![r].i = i + 1, ![r].allSuccess = b, ![r].outputs = o]
  BY <1>2 DEF AllSuccess, i
<1>11. DOMAIN exec = Runners /\ DOMAIN exec[r] = ExecFields /\ exec[r].allSuccess \in BOOLEAN /\ i \in Nat \ {0}
  BY <1>3 DEF Own, ExecType, i
<1>12. /\ DOMAIN exec' = Runners /\ \A q \in Runners \ {r} : exec'[q] = exec[q]
       /\ exec'[r] = [exec[r] EXCEPT !.pc = p, !.i = i + 1, !.allSuccess = b, !.outputs = o]
  BY <1>10, <1>11
<1>13. /\ DOMAIN exec'[r] = ExecFields /\ exec'[r].pc = p /\ exec'[r].i = i + 1
       /\ exec'[r].allSuccess = b
  BY <1>11, <1>12 DEF ExecFields
<1>14. exec'[r].job = j /\ exec'[r].left = exec[r].left /\ exec'[r].gen = exec[r].gen
  BY <1>11, <1>12 DEF ExecFields, j
<1>15. b \in BOOLEAN
  BY <1>4, <1>10, <1>11
<1>16. i + 1 \in Nat \ {0}
  BY <1>11
<1>17. ExecType(exec'[r])
  BY <1>3, <1>10, <1>13, <1>14, <1>15, <1>16 DEF Own, ExecType, PCs
<1>18. /\ Len(rows[j].def) \in Nat /\ DOMAIN real[j] = 1..Len(rows[j].def) + 1
       /\ rows[j].given \in Nat /\ rows[j].given <= Len(rows[j].def) + 1
  BY <1>3, LenProperties DEF Own, RowType, RealType
<1>20. ExecInv(exec'[r], rows'[j], e, real'[j])
  <2>1. ASSUME b, NEW k \in 1..rows[j].given, k < i + 1
        PROVE  real'[j][k] \in {"success", "skipped"}
    <3>1. k = i \/ k < i
      BY <1>11, <1>18, <2>1
    <3>2. k < i => real[j][k] \in {"success", "skipped"}
      BY <1>1, <1>3, <1>10, <2>1 DEF Own, ExecInv, i
    <3>3. d = "success"
      BY <1>8, <1>10, <2>1
    <3> QED BY <1>7, <1>18, <3>1, <3>2, <3>3
  <2>2. /\ rows'[j].status # "queued" /\ rows'[j].conclusion = ""
        /\ rows'[j].def = rows[j].def /\ rows'[j].given = rows[j].given
    BY <1>1, <1>3, <1>6 DEF Own, ExecInv, RowKept
  <2>3. ~(p = "finish" /\ b)
    BY <1>10
  <2>4. ASSUME p = "step", exec[r].left > 0, Timeout[j] <= GCAge
        PROVE  e # NoEnv /\ e.age + exec[r].left <= Timeout[j]
    <3>1. envs[j] # NoEnv /\ envs[j].age + exec[r].left <= Timeout[j]
      BY <1>1, <1>3, <2>4 DEF Own, ExecInv
    <3> QED BY <1>4, <3>1
  <2> QED BY <1>10, <1>13, <1>14, <2>1, <2>2, <2>3, <2>4 DEF ExecInv
<1>21. JobInv(rows'[j], e, real'[j], deploy.started)
  <2>1. rows'[j].conclusion = "" /\ rows'[j].status # "queued"
    BY <1>1, <1>3, <1>6 DEF Own, ExecInv, RowKept
  <2> QED BY <1>4, <2>1 DEF JobInv
<1>22. RealType(real'[j], rows'[j])
  BY <1>6, <1>7, <1>18 DEF RealType, RowKept
<1>23. After(exec'[r], rows'[j], envs'[j], real'[j], j)
  BY <1>1, <1>4, <1>6, <1>9, <1>10, <1>13, <1>14, <1>17, <1>20, <1>21, <1>22 DEF After, RowKept
<1>24. OwnStep(r, j)
  BY <1>1, <1>3, <1>6, <1>7, <1>9, <1>10, <1>12, <1>13, <1>14, <1>23 DEF OwnStep, Own, RowKept, j
<1> QED BY <1>24 DEF j

LEMMA DoneOwn ==
    ASSUME ExecutionInv, NEW r \in Runners, StepsDone(r)
    PROVE  OwnStep(r, exec[r].job)
<1> DEFINE j == exec[r].job
<1>1. /\ exec[r].pc = "step" /\ exec[r].i > rows[j].given /\ UNCHANGED <<rows, envs, real, deploy, faults>>
      /\ Goto(r, "finish")
  BY DEF StepsDone, Given
<1>2. Moves(r, "finish")
  BY <1>1, GotoMoves DEF ExecutionInv, PCs
<1>3. Own(r, j)
  BY <1>1, OwnHolds
<1> HIDE DEF j
<1>4. ExecInv(exec'[r], rows[j], envs[j], real[j])
  BY <1>1, <1>2, <1>3 DEF Own, ExecInv, Moves
<1>5. After(exec'[r], rows'[j], envs'[j], real'[j], j)
  BY <1>1, <1>2, <1>3, <1>4 DEF After, Own, Moves
<1>6. OwnStep(r, j)
  BY <1>1, <1>2, <1>3, <1>5 DEF OwnStep, Own, Moves
<1> QED BY <1>6 DEF j
(* The row of a job that is reported. *)
LEMMA RowReported ==
    ASSUME Types, NEW j \in Jobs, NEW c \in {"success", "failure"},
           \/ rows' = [rows EXCEPT ![j].status = "completed", ![j].conclusion = c]
           \/ \E o : rows' = [rows EXCEPT ![j].status = "completed", ![j].conclusion = c, ![j].outputs = o]
    PROVE  /\ DOMAIN rows' = Jobs /\ \A k \in Jobs \ {j} : rows'[k] = rows[k]
           /\ RowType(rows'[j]) /\ rows'[j].status = "completed" /\ rows'[j].conclusion = c
           /\ rows'[j].def = rows[j].def /\ rows'[j].given = rows[j].given
<1>1. DOMAIN rows = Jobs /\ RowType(rows[j]) /\ DOMAIN rows[j] = RowFields
  BY DEF Types, RowType
<1>2. CASE rows' = [rows EXCEPT ![j].status = "completed", ![j].conclusion = c]
  <2>1. rows'[j] = [rows[j] EXCEPT !.status = "completed", !.conclusion = c]
    BY <1>1, <1>2
  <2>2. /\ DOMAIN rows'[j] = RowFields /\ rows'[j].status = "completed" /\ rows'[j].conclusion = c
        /\ rows'[j].def = rows[j].def /\ rows'[j].given = rows[j].given
    BY <1>1, <2>1 DEF RowFields
  <2>3. DOMAIN rows' = Jobs /\ \A k \in Jobs \ {j} : rows'[k] = rows[k]
    BY <1>1, <1>2
  <2> QED BY <1>1, <2>2, <2>3 DEF RowType
<1>3. ASSUME NEW o, rows' = [rows EXCEPT ![j].status = "completed", ![j].conclusion = c, ![j].outputs = o]
      PROVE  /\ DOMAIN rows' = Jobs /\ \A k \in Jobs \ {j} : rows'[k] = rows[k]
             /\ RowType(rows'[j]) /\ rows'[j].status = "completed" /\ rows'[j].conclusion = c
             /\ rows'[j].def = rows[j].def /\ rows'[j].given = rows[j].given
  <2>1. rows'[j] = [rows[j] EXCEPT !.status = "completed", !.conclusion = c, !.outputs = o]
    BY <1>1, <1>3
  <2>2. /\ DOMAIN rows'[j] = RowFields /\ rows'[j].status = "completed" /\ rows'[j].conclusion = c
        /\ rows'[j].def = rows[j].def /\ rows'[j].given = rows[j].given
    BY <1>1, <2>1 DEF RowFields
  <2>3. DOMAIN rows' = Jobs /\ \A k \in Jobs \ {j} : rows'[k] = rows[k]
    BY <1>1, <1>3
  <2> QED BY <1>1, <2>2, <2>3 DEF RowType
<1> QED BY <1>2, <1>3

(* The report: success is said of a job whose steps have earned it only.     *)
LEMMA FinishOwn ==
    ASSUME ExecutionInv, NEW r \in Runners, FinishJob(r)
    PROVE  OwnStep(r, exec[r].job)
<1> DEFINE j == exec[r].job
<1>1. exec[r].pc = "finish" /\ UNCHANGED <<envs, real, deploy>>
  BY DEF FinishJob
<1>2. Types /\ Own(r, j)
  BY <1>1, OwnHolds DEF ExecutionInv
<1>3. PICK c, o :
          c \in {"success", "failure"} /\ completeJob(r, c, o) /\ (c = "success" => exec[r].allSuccess)
  <2>1. CASE Expired(r)
    BY <2>1 DEF FinishJob, DeadlineConclusion
  <2>2. CASE ~Expired(r) /\ exec[r].allSuccess
    BY <2>2 DEF FinishJob
  <2>3. CASE ~Expired(r) /\ ~exec[r].allSuccess
    BY <2>3 DEF FinishJob
  <2> QED BY <2>1, <2>2, <2>3
<1>4. /\ \/ rows' = rows
         \/ rows' = [rows EXCEPT ![j].status = "completed", ![j].conclusion = c, ![j].outputs = o]
      /\ \/ exec' = [exec EXCEPT ![r].pc = "cleanup"]
         \/ exec' = [exec EXCEPT ![r].pc = "cleanup", ![r].err = TRUE]
      /\ faults' = faults \/ Fault
  BY <1>3 DEF completeJob
<1> HIDE DEF j
<1>5. DOMAIN exec = Runners /\ DOMAIN exec[r] = ExecFields /\ j \in Jobs
  BY <1>2 DEF Own, ExecType
<1>6. /\ DOMAIN exec' = Runners /\ \A q \in Runners \ {r} : exec'[q] = exec[q]
      /\ \/ exec'[r] = [exec[r] EXCEPT !.pc = "cleanup"]
         \/ exec'[r] = [exec[r] EXCEPT !.pc = "cleanup", !.err = TRUE]
  BY <1>4, <1>5
<1>7. /\ DOMAIN exec'[r] = ExecFields /\ exec'[r].pc = "cleanup" /\ exec'[r].job = j
      /\ exec'[r].i = exec[r].i /\ exec'[r].left = exec[r].left
      /\ exec'[r].allSuccess = exec[r].allSuccess /\ exec'[r].gen = exec[r].gen
  <2>1. CASE exec'[r] = [exec[r] EXCEPT !.pc = "cleanup"]
    BY <1>5, <2>1 DEF ExecFields, j
  <2>2. CASE exec'[r] = [exec[r] EXCEPT !.pc = "cleanup", !.err = TRUE]
    BY <1>5, <2>2 DEF ExecFields, j
  <2> QED BY <1>6, <2>1, <2>2
<1>8. ExecType(exec'[r])
  BY <1>2, <1>7 DEF Own, ExecType, PCs
<1>9. rows[j].status # "queued" /\ rows[j].conclusion = ""
  BY <1>1, <1>2 DEF Own, ExecInv
<1>10. exec[r].allSuccess => Earned(real[j], rows[j].given)
  <2>1. ExecInv(exec[r], rows[j], envs[j], real[j]) /\ exec[r].i \in Nat
    BY <1>2 DEF Own, ExecType
  <2>2. rows[j].given \in Nat
    BY <1>2 DEF Own, RowType
  <2>3. ASSUME exec[r].allSuccess, NEW k \in 1..rows[j].given
        PROVE  real[j][k] \in {"success", "skipped"}
    <3>1. exec[r].i > rows[j].given
      BY <1>1, <2>1, <2>3 DEF ExecInv
    <3>2. k < exec[r].i
      BY <2>1, <2>2, <3>1
    <3> QED BY <1>1, <2>1, <2>3, <3>2 DEF ExecInv
  <2> QED BY <2>3 DEF Earned
<1>11. /\ DOMAIN rows' = Jobs /\ \A k \in Jobs \ {j} : rows'[k] = rows[k]
       /\ RowType(rows'[j]) /\ rows'[j].status # "queued" /\ rows'[j].conclusion \in {"", c}
       /\ rows'[j].def = rows[j].def /\ rows'[j].given = rows[j].given
  <2>1. CASE rows' = rows
    BY <1>2, <1>9, <2>1 DEF Own
  <2>2. CASE rows' = [rows EXCEPT ![j].status = "completed", ![j].conclusion = c, ![j].outputs = o]
    <3>1. /\ DOMAIN rows' = Jobs /\ \A k \in Jobs \ {j} : rows'[k] = rows[k]
          /\ RowType(rows'[j]) /\ rows'[j].status = "completed" /\ rows'[j].conclusion = c
          /\ rows'[j].def = rows[j].def /\ rows'[j].given = rows[j].given
      BY <1>2, <1>3, <1>5, <2>2, RowReported
    <3> QED BY <3>1
  <2> QED BY <1>4, <2>1, <2>2
<1>12. JobInv(rows'[j], envs[j], real[j], deploy.started)
  <2>1. rows'[j].conclusion = "success" => Earned(real[j], rows'[j].given)
    BY <1>3, <1>10, <1>11
  <2> QED BY <1>2, <1>11, <2>1 DEF Own, JobInv
<1>13. ExecInv(exec'[r], rows'[j], envs[j], real[j])
  BY <1>7, <1>11 DEF ExecInv
<1>14. RealType(real[j], rows'[j])
  BY <1>2, <1>11 DEF Own, RealType
<1>15. After(exec'[r], rows'[j], envs'[j], real'[j], j)
  BY <1>1, <1>2, <1>7, <1>8, <1>11, <1>12, <1>13, <1>14 DEF After, Own
<1>16. OwnStep(r, j)
  BY <1>1, <1>2, <1>4, <1>6, <1>7, <1>11, <1>15 DEF OwnStep, Own
<1> QED BY <1>16 DEF j

(* A runner lets go of a job: nothing more is known of it as a runner. *)
LEMMA IdleAfter ==
    ASSUME NEW w, NEW e, NEW h, NEW j,
           RowType(w), EnvType(e), RealType(h, w), JobInv(w, e, h, deploy.started)
    PROVE  After(Idle, w, e, h, j)
BY IdleType DEF After, ExecInv

LEMMA CleansOwn ==
    ASSUME ExecutionInv, NEW r \in Runners, Cleanup(r)
    PROVE  OwnStep(r, exec[r].job)
<1> DEFINE j == exec[r].job
<1>1. /\ exec[r].pc = "cleanup" /\ UNCHANGED <<rows, real, deploy>>
      /\ \/ envs' = [envs EXCEPT ![j] = NoEnv] /\ faults' = faults
         \/ envs' = envs /\ Fault
      /\ Goto(r, "poll") \/ exec' = [exec EXCEPT ![r] = Idle]
  BY DEF Cleanup, Goto
<1>2. Types /\ Own(r, j)
  BY <1>1, OwnHolds DEF ExecutionInv
<1>3. /\ \A q \in Runners \ {r} : exec'[q] = exec[q]
      /\ DOMAIN exec' = Runners
      /\ exec'[r] = Idle \/ Moves(r, "poll")
  BY <1>1, <1>2, GotoMoves, ResetMoves DEF PCs, Moves
<1> HIDE DEF j
<1>4. /\ DOMAIN envs' = Jobs /\ \A k \in Jobs \ {j} : envs'[k] = envs[k]
      /\ envs'[j] \in {NoEnv, envs[j]} /\ (envs'[j] = NoEnv \/ Fault)
  BY <1>1, <1>2 DEF Own
<1>5. rows[j].status # "queued" /\ EnvType(envs'[j])
  BY <1>1, <1>2, <1>4, NoEnvType DEF Own, ExecInv
<1>6. JobInv(rows[j], envs'[j], real[j], deploy.started)
  BY <1>2, <1>4, <1>5 DEF Own, JobInv
<1>7. After(exec'[r], rows'[j], envs'[j], real'[j], j)
  <2>1. CASE exec'[r] = Idle
    BY <1>1, <1>2, <1>5, <1>6, <2>1, IdleAfter DEF Own
  <2>2. CASE Moves(r, "poll")
    <3>1. ExecInv(exec'[r], rows[j], envs'[j], real[j])
      BY <1>5, <2>2 DEF ExecInv, Moves
    <3> QED BY <1>1, <1>2, <1>5, <1>6, <2>2, <3>1 DEF After, Own, Moves
  <2> QED BY <1>3, <2>1, <2>2
<1>8. exec'[r].gen <= deploy'.gen
  BY <1>1, <1>2, <1>3, IdleType DEF Own, Moves, Types, DeployType
<1>9. faults' = faults \/ Fault
  BY <1>1
<1>10. OwnStep(r, j)
  BY <1>1, <1>2, <1>3, <1>4, <1>7, <1>8, <1>9 DEF OwnStep, Own
<1> QED BY <1>10 DEF j

LEMMA PollsOwn ==
    ASSUME ExecutionInv, NEW r \in Runners, PollReportsFailure(r)
    PROVE  OwnStep(r, exec[r].job)
<1> DEFINE j == exec[r].job
<1>1. /\ exec[r].pc = "poll" /\ UNCHANGED <<envs, real, deploy>>
      /\ \/ rows' = [rows EXCEPT ![j].status = "completed", ![j].conclusion = "failure"] /\ faults' = faults
         \/ rows' = rows /\ Fault
      /\ exec' = [exec EXCEPT ![r] = Idle]
  BY DEF PollReportsFailure
<1>2. Types /\ Own(r, j)
  BY <1>1, OwnHolds DEF ExecutionInv
<1>3. DOMAIN exec' = Runners /\ \A q \in Runners \ {r} : exec'[q] = exec[q]
  BY <1>1, <1>2, ResetMoves
<1>4. exec'[r] = Idle
  BY <1>1, <1>2, ResetMoves
<1> HIDE DEF j
<1>5. rows[j].status # "queued" /\ j \in Jobs
  BY <1>1, <1>2 DEF Own, ExecInv
<1>6. /\ DOMAIN rows' = Jobs /\ \A k \in Jobs \ {j} : rows'[k] = rows[k]
      /\ RowType(rows'[j]) /\ rows'[j].def = rows[j].def /\ rows'[j].given = rows[j].given
      /\ rows'[j] = rows[j] \/ (rows'[j].status = "completed" /\ rows'[j].conclusion = "failure")
  <2>1. CASE rows' = rows
    BY <1>2, <2>1 DEF Own
  <2>2. CASE rows' = [rows EXCEPT ![j].status = "completed", ![j].conclusion = "failure"]
    BY <1>2, <1>5, <2>2, RowReported
  <2> QED BY <1>1, <2>1, <2>2
<1>7. JobInv(rows'[j], envs[j], real[j], deploy.started)
  BY <1>2, <1>6 DEF Own, JobInv
<1>8. RealType(real[j], rows'[j])
  BY <1>2, <1>6 DEF Own, RealType
<1>9. After(exec'[r], rows'[j], envs'[j], real'[j], j)
  BY <1>1, <1>2, <1>4, <1>6, <1>7, <1>8, IdleAfter DEF Own
<1>10. exec'[r].gen <= deploy'.gen
  BY <1>1, <1>2, <1>4, IdleType DEF Types, DeployType
<1>11. faults' = faults \/ Fault
  BY <1>1
<1>12. OwnStep(r, j)
  BY <1>1, <1>2, <1>3, <1>6, <1>9, <1>10, <1>11 DEF OwnStep, Own
<1> QED BY <1>12 DEF j

LEMMA DiesOwn ==
    ASSUME ExecutionInv, NEW r \in Runners, RunnerDies(r)
    PROVE  OwnStep(r, exec[r].job)
<1> DEFINE j == exec[r].job
<1>1. /\ Fault /\ exec' = [exec EXCEPT ![r] = Idle] /\ UNCHANGED <<rows, envs, real, deploy>>
      /\ exec[r].pc # "idle"
  BY DEF RunnerDies, ExecutionInv, RunnerInv
<1>2. Types /\ Own(r, j)
  BY <1>1, OwnHolds DEF ExecutionInv
<1>3. DOMAIN exec' = Runners /\ \A q \in Runners \ {r} : exec'[q] = exec[q]
  BY <1>1, <1>2, ResetMoves
<1>4. exec'[r] = Idle
  BY <1>1, <1>2, ResetMoves
<1> HIDE DEF j
<1>5. After(exec'[r], rows'[j], envs'[j], real'[j], j)
  BY <1>1, <1>2, <1>4, IdleAfter DEF Own
<1>6. exec'[r].gen <= deploy'.gen
  BY <1>1, <1>2, <1>4, IdleType DEF Types, DeployType
<1>7. OwnStep(r, j)
  BY <1>1, <1>2, <1>3, <1>5, <1>6 DEF OwnStep, Own
<1> QED BY <1>7 DEF j
(* What a runner does with its job leaves everything known of the others as  *)
(* it was: they have other jobs.                                             *)
LEMMA LeftGrows ==
    ASSUME IsFiniteSet(Jobs), NEW j \in Jobs, LeftInv, faults \in Nat,
           \/ Left' \subseteq Left /\ faults' = faults
           \/ Left' \subseteq Left \cup {j} /\ faults' = faults + 1
    PROVE  LeftInv'
<1>1. IsFiniteSet(Left)
  <2>1. Left \subseteq Jobs
    BY DEF Left
  <2> QED BY <2>1, FS_Subset
<1>2. Cardinality(Left) \in Nat /\ Cardinality(Left) <= faults
  BY <1>1, FS_CardinalityType DEF LeftInv
<1>3. CASE Left' \subseteq Left /\ faults' = faults
  <2>1. Cardinality(Left') <= Cardinality(Left) /\ Cardinality(Left') \in Nat
    BY <1>1, <1>3, FS_Subset, FS_CardinalityType
  <2> QED BY <1>2, <1>3, <2>1 DEF LeftInv
<1>4. CASE Left' \subseteq Left \cup {j} /\ faults' = faults + 1
  <2>1. IsFiniteSet(Left \cup {j}) /\ Cardinality(Left \cup {j}) <= Cardinality(Left) + 1
    <3>1. IsFiniteSet(Left \cup {j})
          /\ Cardinality(Left \cup {j}) = IF j \in Left THEN Cardinality(Left) ELSE Cardinality(Left) + 1
      BY <1>1, FS_AddElement
    <3> QED BY <1>2, <3>1
  <2>2. Cardinality(Left') <= Cardinality(Left \cup {j}) /\ Cardinality(Left') \in Nat
        /\ Cardinality(Left \cup {j}) \in Nat
    BY <1>4, <2>1, FS_Subset, FS_CardinalityType
  <2> QED BY <1>2, <1>4, <2>1, <2>2 DEF LeftInv
<1> QED BY <1>3, <1>4

LEMMA OwnStepKeeps ==
    ASSUME ExecutionInv, NEW r \in Runners, OwnStep(r, exec[r].job),
           DeployType(deploy'), DeployInv', deploy'.started = deploy.started, deploy.gen <= deploy'.gen,
           kind' = kind
    PROVE  ExecutionInv'
<1> DEFINE j == exec[r].job
<1>1. Types /\ RunnerInv /\ JobsInv /\ Exclusive /\ LeftInv
  BY DEF ExecutionInv
<1>2. /\ exec[r].pc # "idle" /\ j \in Jobs
      /\ DOMAIN exec' = Runners /\ DOMAIN rows' = Jobs /\ DOMAIN envs' = Jobs /\ DOMAIN real' = Jobs
      /\ \A q \in Runners \ {r} : exec'[q] = exec[q]
      /\ \A k \in Jobs \ {j} : rows'[k] = rows[k] /\ envs'[k] = envs[k] /\ real'[k] = real[k]
      /\ exec'[r].gen <= deploy'.gen
  BY OwnHolds DEF OwnStep, Own
<1>3. After(exec'[r], rows'[j], envs'[j], real'[j], j)
  BY DEF OwnStep
<1>4. faults \in 0..MaxFaults /\ MaxFaults \in Nat /\ faults' \in 0..MaxFaults
  BY <1>1, Bounds DEF Types, OwnStep, Fault
<1>5. deploy'.gen \in Nat /\ deploy.gen \in Nat
  BY <1>1 DEF Types, DeployType
<1> HIDE DEF j
<1>6. Types'
  <2>1. \A q \in Runners : ExecType(exec'[q])
    BY <1>1, <1>2, <1>3 DEF Types, After
  <2>2. \A k \in Jobs : RowType(rows'[k]) /\ EnvType(envs'[k]) /\ RealType(real'[k], rows'[k])
    BY <1>1, <1>2, <1>3 DEF Types, After
  <2> QED BY <1>1, <1>2, <1>4, <2>1, <2>2 DEF Types
<1>7. \A q \in Runners \ {r} : exec[q].pc # "idle" => exec[q].job \in Jobs \ {j}
  BY <1>1, <1>2 DEF Exclusive, Types, ExecType, j
<1>8. RunnerInv'
  <2>1. ASSUME NEW q \in Runners
        PROVE  /\ exec'[q].pc = "idle" => exec'[q] = Idle
               /\ exec'[q].gen <= deploy'.gen
               /\ ExecInv(exec'[q], rows'[exec'[q].job], envs'[exec'[q].job], real'[exec'[q].job])
    <3>1. CASE q = r
      <4>1. CASE exec'[r].pc = "idle"
        BY <1>2, <1>3, <3>1, <4>1 DEF After, ExecInv
      <4>2. CASE exec'[r].pc # "idle"
        BY <1>2, <1>3, <3>1, <4>2 DEF After
      <4> QED BY <4>1, <4>2
    <3>2. CASE q # r
      <4>1. exec'[q] = exec[q] /\ exec[q].gen \in Nat
        BY <1>1, <1>2, <3>2 DEF Types, ExecType
      <4>2. exec'[q].gen <= deploy'.gen
        BY <1>1, <1>5, <4>1 DEF RunnerInv
      <4>3. CASE exec[q].pc = "idle"
        BY <1>1, <4>1, <4>2, <4>3 DEF RunnerInv, ExecInv
      <4>4. CASE exec[q].pc # "idle"
        BY <1>1, <1>2, <1>7, <3>2, <4>1, <4>2, <4>4 DEF RunnerInv
      <4> QED BY <4>3, <4>4
    <3> QED BY <3>1, <3>2
  <2> QED BY <2>1 DEF RunnerInv
<1>9. JobsInv'
  <2>1. \A k \in Jobs : JobInv(rows'[k], envs'[k], real'[k], deploy.started)
    BY <1>1, <1>2, <1>3 DEF JobsInv, After
  <2> QED BY <2>1 DEF JobsInv
<1>10. Exclusive'
  <2>1. exec'[r].pc # "idle" => exec'[r].job = j
    BY <1>3 DEF After
  <2>2. \A q \in Runners \ {r} : exec'[q].pc # "idle" => exec'[q].job # j
    BY <1>2, <1>7
  <2> QED BY <1>1, <1>2, <2>1, <2>2 DEF Exclusive
<1>11. LeftInv'
  <2>1. Left' \subseteq Left \cup {j}
    <3>1. ASSUME NEW k \in Left', k # j  PROVE k \in Left
      <4>1. k \in Jobs /\ envs'[k] # NoEnv /\ \A q \in Runners : exec'[q].pc \in {"idle", "poll"} \/ exec'[q].job # k
        BY DEF Left
      <4>2. envs[k] # NoEnv
        BY <1>2, <3>1, <4>1
      <4>3. \A q \in Runners : exec[q].pc \in {"idle", "poll"} \/ exec[q].job # k
        BY <1>2, <3>1, <4>1 DEF j
      <4> QED BY <4>1, <4>2, <4>3 DEF Left
    <3> QED BY <3>1
  <2>2. ASSUME ~Fault, j \in Left'  PROVE j \in Left
    <3>1. envs'[j] # NoEnv /\ \A q \in Runners : exec'[q].pc \in {"idle", "poll"} \/ exec'[q].job # j
      BY <2>2 DEF Left
    <3>2. exec'[r].pc \in {"idle", "poll"}
      BY <1>3, <3>1 DEF After
    <3>3. exec[r].pc = "poll" /\ envs'[j] = envs[j]
      BY <2>2, <3>1, <3>2 DEF OwnStep, j
    <3>4. \A q \in Runners : exec[q].pc \in {"idle", "poll"} \/ exec[q].job # j
      BY <1>2, <3>1, <3>3
    <3> QED BY <1>2, <3>1, <3>3, <3>4 DEF Left
  <2>3. Fault => faults' = faults + 1
    BY DEF Fault
  <2>4. ~Fault => faults' = faults
    BY DEF OwnStep
  <2>5. faults \in Nat
    BY <1>4
  <2>6. \/ Left' \subseteq Left /\ faults' = faults
        \/ Left' \subseteq Left \cup {j} /\ faults' = faults + 1
    BY <2>1, <2>2, <2>3, <2>4
  <2> QED BY <1>1, <1>2, <2>5, <2>6, LeftGrows, Bounds
<1> QED BY <1>6, <1>8, <1>9, <1>10, <1>11 DEF ExecutionInv, Types
-----------------------------------------------------------------------------
(* The other steps. *)

(* claimJob: a job in the queue is nobody's. *)
LEMMA ClaimKeeps ==
    ASSUME ExecutionInv, NEW r \in Runners, NEW j \in Jobs, claimJob(r, j), kind' = kind
    PROVE  ExecutionInv'
<1> DEFINE x == [Idle EXCEPT !.pc = "start", !.job = j, !.left = Timeout[j]]
<1>1. Types /\ RunnerInv /\ JobsInv /\ Exclusive /\ DeployInv /\ LeftInv
  BY DEF ExecutionInv
<1>2. /\ exec[r] = Idle /\ rows[j].status = "queued" /\ exec' = [exec EXCEPT ![r] = x]
      /\ envs' = envs /\ deploy' = deploy /\ real' = real /\ faults' = faults
  BY DEF claimJob
<1>3. DOMAIN exec = Runners /\ DOMAIN rows = Jobs /\ exec[r].pc = "idle"
  BY <1>1, <1>2, IdleType DEF Types
<1>4. Timeout[j] \in Nat /\ IsFiniteSet(Jobs)
  BY Bounds
<1>5. DOMAIN x = ExecFields /\ x.pc = "start" /\ x.job = j /\ x.left = Timeout[j] /\ x.i = 1
      /\ x.allSuccess = Idle.allSuccess /\ x.gen = 0
  BY IdleType DEF ExecType, ExecFields
<1>6. ExecType(x)
  BY <1>4, <1>5, IdleType DEF ExecType, PCs
<1>7. /\ DOMAIN rows' = Jobs /\ \A k \in Jobs \ {j} : rows'[k] = rows[k]
      /\ RowType(rows'[j]) /\ rows'[j].status = "claimed"
      /\ rows'[j].conclusion = rows[j].conclusion /\ rows'[j].def = rows[j].def
  <2>1. PICK n \in 0..Len(rows[j].def) + 1 :
           rows' = [rows EXCEPT ![j].status = "claimed", ![j].given = n]
    BY DEF claimJob, ListJobSteps, N, Steps
  <2>2. RowType(rows[j]) /\ rows'[j] = [rows[j] EXCEPT !.status = "claimed", !.given = n]
    BY <1>1, <1>3, <2>1 DEF Types
  <2>3. DOMAIN rows' = Jobs /\ \A k \in Jobs \ {j} : rows'[k] = rows[k]
    BY <1>3, <2>1
  <2>4. Len(rows[j].def) \in Nat
    BY <2>2, LenProperties DEF RowType
  <2>5. n \in Nat /\ n <= Len(rows[j].def) + 1
    BY <2>4
  <2> QED BY <2>2, <2>3, <2>5 DEF RowType, RowFields
<1>8. /\ rows[j].conclusion = "" /\ envs[j] = NoEnv
      /\ EnvType(envs[j]) /\ RealType(real[j], rows[j])
  BY <1>1, <1>2 DEF JobsInv, JobInv, Types
<1>9. \A q \in Runners : exec[q].pc # "idle" => exec[q].job \in Jobs \ {j}
  BY <1>1, <1>2 DEF RunnerInv, ExecInv, Types, ExecType
<1> HIDE DEF x
<1>10. DOMAIN exec' = Runners /\ exec'[r] = x /\ \A q \in Runners \ {r} : exec'[q] = exec[q]
  BY <1>2, <1>3
<1>11. Types'
  <2>1. \A q \in Runners : ExecType(exec'[q])
    BY <1>1, <1>6, <1>10 DEF Types
  <2>2. \A k \in Jobs : RowType(rows'[k]) /\ EnvType(envs'[k]) /\ RealType(real'[k], rows'[k])
    BY <1>1, <1>2, <1>7, <1>8 DEF Types, RealType
  <2> QED BY <1>1, <1>2, <1>7, <1>10, <2>1, <2>2 DEF Types
<1>12. RunnerInv'
  <2>1. ExecInv(x, rows'[j], envs[j], real[j])
    <3>1. x.left <= Timeout[x.job]
      BY <1>4, <1>5
    <3> QED BY <1>5, <1>7, <1>8, <3>1 DEF ExecInv
  <2>2. x.gen <= deploy.gen
    BY <1>1, <1>5 DEF Types, DeployType
  <2>3. ASSUME NEW q \in Runners
        PROVE  /\ exec'[q].pc = "idle" => exec'[q] = Idle
               /\ exec'[q].gen <= deploy'.gen
               /\ ExecInv(exec'[q], rows'[exec'[q].job], envs'[exec'[q].job], real'[exec'[q].job])
    <3>1. CASE q = r
      BY <1>2, <1>5, <1>10, <2>1, <2>2, <3>1
    <3>2. CASE q # r /\ exec[q].pc = "idle"
      BY <1>1, <1>2, <1>10, <3>2 DEF RunnerInv, ExecInv
    <3>3. CASE q # r /\ exec[q].pc # "idle"
      BY <1>1, <1>2, <1>7, <1>9, <1>10, <3>3 DEF RunnerInv
    <3> QED BY <3>1, <3>2, <3>3
  <2> QED BY <2>3 DEF RunnerInv
<1>13. JobsInv'
  <2>1. JobInv(rows'[j], envs[j], real[j], deploy.started)
    BY <1>7, <1>8 DEF JobInv
  <2> QED BY <1>1, <1>2, <1>7, <2>1 DEF JobsInv
<1>14. Exclusive'
  BY <1>1, <1>5, <1>9, <1>10 DEF Exclusive
<1>15. LeftInv'
  <2>1. Left' \subseteq Left
    BY <1>2, <1>3, <1>10 DEF Left
  <2>2. faults \in Nat
    BY <1>1, Bounds DEF Types
  <2> QED BY <1>1, <1>2, <1>4, <2>1, <2>2, LeftGrows
<1>16. DeployInv'
  BY <1>1, <1>2 DEF DeployInv
<1> QED BY <1>11, <1>12, <1>13, <1>14, <1>15, <1>16 DEF ExecutionInv

(* Steps that change nothing but environments, clocks and the Deployment:    *)
(* they keep what is known when they keep it of each runner and each job.    *)
LEMMA WorldKeeps ==
    ASSUME ExecutionInv, rows' = rows, real' = real, faults' = faults, kind' = kind,
           DOMAIN exec' = Runners, DOMAIN envs' = Jobs, DeployType(deploy'), DeployInv',
           \A q \in Runners :
               /\ ExecType(exec'[q]) /\ exec'[q].gen <= deploy'.gen
               /\ exec'[q].pc = exec[q].pc /\ exec'[q].job = exec[q].job
               /\ exec'[q].pc = "idle" => exec'[q] = Idle
               /\ exec[q].pc # "idle" =>
                    ExecInv(exec'[q], rows[exec[q].job], envs'[exec[q].job], real[exec[q].job]),
           \A k \in Jobs :
               /\ EnvType(envs'[k]) /\ JobInv(rows[k], envs'[k], real[k], deploy'.started)
               /\ envs[k] = NoEnv => envs'[k] = NoEnv
    PROVE  ExecutionInv'
<1>1. Types /\ RunnerInv /\ JobsInv /\ Exclusive /\ LeftInv
  BY DEF ExecutionInv
<1>2. Types'
  BY <1>1 DEF Types
<1>3. RunnerInv'
  <2>1. ASSUME NEW q \in Runners
        PROVE  /\ exec'[q].pc = "idle" => exec'[q] = Idle
               /\ exec'[q].gen <= deploy'.gen
               /\ ExecInv(exec'[q], rows'[exec'[q].job], envs'[exec'[q].job], real'[exec'[q].job])
    <3>1. CASE exec[q].pc = "idle"
      BY <3>1 DEF ExecInv
    <3>2. CASE exec[q].pc # "idle"
      BY <3>2
    <3> QED BY <3>1, <3>2
  <2> QED BY <2>1 DEF RunnerInv
<1>4. JobsInv'
  BY DEF JobsInv
<1>5. Exclusive'
  BY <1>1 DEF Exclusive
<1>6. LeftInv'
  <2>1. Left' \subseteq Left
    BY DEF Left
  <2>2. faults \in Nat
    BY <1>1, Bounds DEF Types
  <2>3. PICK j : j \in Jobs
    BY JobExecutionAssumption
  <2> QED BY <1>1, <2>1, <2>2, <2>3, Bounds, LeftGrows
<1> QED BY <1>2, <1>3, <1>4, <1>5, <1>6 DEF ExecutionInv

(* GCStalePods: the environment of a job within its deadline is not stale.   *)
LEMMA CollectKeeps ==
    ASSUME ExecutionInv, NEW r \in Runners, GCStalePods(r), kind' = kind
    PROVE  ExecutionInv'
<1>1. Types /\ RunnerInv /\ JobsInv /\ DeployInv
  BY DEF ExecutionInv
<1>2. /\ rows' = rows /\ exec' = exec /\ deploy' = deploy /\ real' = real /\ faults' = faults
      /\ envs' = [j \in Jobs |-> IF Stale(envs[j]) /\ envs[j].kind = kind[r] THEN NoEnv ELSE envs[j]]
  BY DEF GCStalePods
<1>3. /\ DOMAIN envs' = Jobs
      /\ \A k \in Jobs : envs'[k] = envs[k] \/ (Stale(envs[k]) /\ envs'[k] = NoEnv)
  BY <1>2
<1>4. ASSUME NEW k \in Jobs
      PROVE  /\ EnvType(envs'[k]) /\ JobInv(rows[k], envs'[k], real[k], deploy'.started)
             /\ envs[k] = NoEnv => envs'[k] = NoEnv
  <2>1. JobInv(rows[k], envs[k], real[k], deploy'.started) /\ EnvType(envs[k])
    BY <1>1, <1>2 DEF JobsInv, Types
  <2> QED BY <1>3, <2>1, NoEnvType DEF JobInv
<1>5. ASSUME NEW q \in Runners
      PROVE  /\ ExecType(exec'[q]) /\ exec'[q].gen <= deploy'.gen
             /\ exec'[q].pc = "idle" => exec'[q] = Idle
             /\ exec[q].pc # "idle" =>
                  ExecInv(exec'[q], rows[exec[q].job], envs'[exec[q].job], real[exec[q].job])
  <2> DEFINE j == exec[q].job
  <2>1. ExecType(exec[q]) /\ j \in Jobs
    BY <1>1 DEF Types, ExecType
  <2>2. ExecInv(exec[q], rows[j], envs[j], real[j])
    BY <1>1 DEF RunnerInv
  <2>3. EnvType(envs[j])
    BY <1>1, <2>1 DEF Types
  <2> HIDE DEF j
  <2>4. CASE envs'[j] = envs[j]
    BY <1>1, <1>2, <2>1, <2>2, <2>4 DEF RunnerInv, j
  <2>5. CASE Stale(envs[j]) /\ envs'[j] = NoEnv
    <3>1. envs[j] # NoEnv /\ envs[j].age > GCAge /\ envs[j].age \in Nat
      BY <2>3, <2>5 DEF Stale, EnvType
    <3>2. ASSUME exec[q].pc \in {"step", "run"}, exec[q].left > 0, Timeout[exec[q].job] <= GCAge
          PROVE  FALSE
      <4>1. envs[j].age + exec[q].left <= Timeout[exec[q].job]
        BY <2>2, <3>2 DEF ExecInv
      <4>2. Timeout[exec[q].job] \in Nat /\ GCAge \in Nat /\ exec[q].left \in Nat
        BY <2>1, Bounds DEF ExecType, j
      <4> QED BY <3>1, <3>2, <4>1, <4>2
    <3>3. ExecInv(exec[q], rows[j], NoEnv, real[j])
      BY <2>2, <3>1, <3>2 DEF ExecInv
    <3> QED BY <1>1, <1>2, <2>1, <2>5, <3>3 DEF RunnerInv, j
  <2> QED BY <1>3, <2>1, <2>4, <2>5
<1> QED BY <1>1, <1>2, <1>3, <1>4, <1>5, WorldKeeps DEF Types, DeployInv, DeployType

(* Tick: an environment ages no faster than its runner's deadline comes.     *)
LEMMA TickEnv ==
    ASSUME ExecutionInv, Tick, NEW k \in Jobs
    PROVE  \/ envs'[k] = envs[k]
           \/ /\ envs[k] # NoEnv /\ DOMAIN envs'[k] = EnvFields /\ envs'[k].kind = envs[k].kind
              /\ envs'[k].age = envs[k].age + 1 /\ envs'[k].deployed = envs[k].deployed
<1>1. EnvType(envs[k])
  BY DEF ExecutionInv, Types
<1>2. envs'[k] = envs[k] \/ (envs[k] # NoEnv /\ envs'[k] = [envs[k] EXCEPT !.age = @ + 1])
  BY DEF Tick
<1>3. CASE envs[k] # NoEnv /\ envs'[k] = [envs[k] EXCEPT !.age = @ + 1]
  <2>1. DOMAIN envs[k] = EnvFields
    BY <1>1, <1>3 DEF EnvType
  <2> QED BY <1>3, <2>1 DEF EnvFields
<1> QED BY <1>2, <1>3

LEMMA TickExec ==
    ASSUME ExecutionInv, Tick, NEW q \in Runners
    PROVE  /\ ExecType(exec'[q]) /\ exec'[q].pc = exec[q].pc /\ exec'[q].job = exec[q].job
           /\ exec'[q].i = exec[q].i /\ exec'[q].allSuccess = exec[q].allSuccess
           /\ exec'[q].gen = exec[q].gen
           /\ exec'[q].pc = "idle" => exec'[q] = Idle
           /\ exec'[q].left <= exec[q].left
           /\ exec[q].pc # "idle" /\ exec'[q].left > 0 => exec'[q].left + 1 = exec[q].left
<1>1. ExecType(exec[q]) /\ (exec[q].pc = "idle" => exec[q] = Idle)
  BY DEF ExecutionInv, Types, RunnerInv
<1>2. exec'[q] = IF exec[q] = Idle \/ exec[q].left = 0 THEN exec[q] ELSE [exec[q] EXCEPT !.left = @ - 1]
  BY DEF Tick
<1>3. CASE exec[q] = Idle \/ exec[q].left = 0
  <2>1. exec'[q] = exec[q] /\ exec[q].left \in Nat
    BY <1>1, <1>2, <1>3 DEF ExecType
  <2>2. exec[q].pc # "idle" => exec[q].left = 0
    BY <1>3, IdleType
  <2> QED BY <1>1, <2>1, <2>2
<1>4. CASE ~(exec[q] = Idle \/ exec[q].left = 0)
  <2>1. exec'[q] = [exec[q] EXCEPT !.left = @ - 1] /\ DOMAIN exec[q] = ExecFields /\ exec[q].pc # "idle"
    BY <1>1, <1>2, <1>4 DEF ExecType
  <2>2. /\ DOMAIN exec'[q] = ExecFields /\ exec'[q].pc = exec[q].pc /\ exec'[q].job = exec[q].job
        /\ exec'[q].i = exec[q].i /\ exec'[q].allSuccess = exec[q].allSuccess
        /\ exec'[q].gen = exec[q].gen /\ exec'[q].left = exec[q].left - 1
    BY <2>1 DEF ExecFields
  <2>3. exec[q].left \in Nat /\ exec'[q].left \in Nat /\ exec'[q].left <= exec[q].left /\ exec'[q].left + 1 = exec[q].left
    BY <1>1, <1>4, <2>2 DEF ExecType
  <2>4. ExecType(exec'[q])
    BY <1>1, <2>2, <2>3 DEF ExecType
  <2> QED BY <2>1, <2>2, <2>3, <2>4
<1> QED BY <1>3, <1>4

LEMMA TickKeeps ==
    ASSUME ExecutionInv, Tick, kind' = kind
    PROVE  ExecutionInv'
<1>1. Types /\ RunnerInv /\ JobsInv /\ DeployInv
  BY DEF ExecutionInv
<1>2. /\ rows' = rows /\ deploy' = deploy /\ real' = real /\ faults' = faults
      /\ DOMAIN envs' = Jobs /\ DOMAIN exec' = Runners
  BY DEF Tick
<1>3. ASSUME NEW k \in Jobs
      PROVE  /\ EnvType(envs'[k]) /\ JobInv(rows[k], envs'[k], real[k], deploy'.started)
             /\ envs[k] = NoEnv <=> envs'[k] = NoEnv
  <2>1. JobInv(rows[k], envs[k], real[k], deploy'.started) /\ EnvType(envs[k])
    BY <1>1, <1>2 DEF JobsInv, Types
  <2>2. CASE envs'[k] = envs[k]
    BY <2>1, <2>2
  <2>3. ASSUME /\ envs[k] # NoEnv /\ DOMAIN envs'[k] = EnvFields /\ envs'[k].kind = envs[k].kind
               /\ envs'[k].age = envs[k].age + 1 /\ envs'[k].deployed = envs[k].deployed
        PROVE  /\ EnvType(envs'[k]) /\ JobInv(rows[k], envs'[k], real[k], deploy'.started)
               /\ envs[k] = NoEnv <=> envs'[k] = NoEnv
    <3>1. envs[k].kind \in {"pod", "local"} /\ envs[k].age \in Nat /\ envs[k].deployed \in Nat
      BY <2>1, <2>3 DEF EnvType
    <3>2. envs'[k].age \in Nat
      BY <2>3, <3>1
    <3>3. EnvType(envs'[k])
      BY <2>3, <3>1, <3>2 DEF EnvType
    <3>4. envs'[k] # NoEnv
      BY <2>3, <3>1, NoEnvType
    <3> QED BY <2>1, <2>3, <3>3, <3>4 DEF JobInv
  <2> QED BY <2>2, <2>3, TickEnv
<1>4. ASSUME NEW q \in Runners, exec[q].pc # "idle"
      PROVE  ExecInv(exec'[q], rows[exec[q].job], envs'[exec[q].job], real[exec[q].job])
  <2> DEFINE j == exec[q].job
  <2>1. ExecType(exec[q]) /\ j \in Jobs /\ RowType(rows[j])
    BY <1>1 DEF Types, ExecType
  <2>2. ExecInv(exec[q], rows[j], envs[j], real[j])
    BY <1>1 DEF RunnerInv
  <2>3. /\ exec'[q].pc = exec[q].pc /\ exec'[q].job = j
        /\ exec'[q].i = exec[q].i /\ exec'[q].allSuccess = exec[q].allSuccess
        /\ exec'[q].left <= exec[q].left /\ exec'[q].left \in Nat
        /\ exec'[q].left > 0 => exec'[q].left + 1 = exec[q].left
    BY <1>4, TickExec DEF ExecType
  <2>4. EnvType(envs[j]) /\ Timeout[j] \in Nat /\ exec[q].left \in Nat
    BY <1>1, <2>1, Bounds DEF Types, ExecType
  <2> HIDE DEF j
  <2>5. ASSUME exec[q].pc \in {"step", "run"}, exec'[q].left > 0, Timeout[j] <= GCAge
        PROVE  envs'[j] # NoEnv /\ envs'[j].age + exec'[q].left <= Timeout[j]
    <3>1. exec[q].left > 0 /\ exec[q].left = exec'[q].left + 1
      BY <2>3, <2>5
    <3>2. envs[j] # NoEnv /\ envs[j].age + exec[q].left <= Timeout[j]
      BY <2>2, <2>5, <3>1 DEF ExecInv, j
    <3>3. envs'[j].age \in {envs[j].age, envs[j].age + 1} /\ envs[j].age \in Nat
      BY <2>1, <2>4, <3>2, TickEnv DEF EnvType
    <3>4. envs'[j] # NoEnv
      BY <1>3, <2>1, <3>2
    <3> QED BY <2>3, <2>4, <3>1, <3>2, <3>3, <3>4
  <2>6. exec[q].left <= Timeout[j] => exec'[q].left <= Timeout[j]
    BY <2>3, <2>4
  <2>7. ExecInv(exec'[q], rows[j], envs'[j], real[j])
    <3>1. envs[j] = NoEnv <=> envs'[j] = NoEnv
      BY <1>3, <2>1
    <3> QED BY <1>4, <2>2, <2>3, <2>5, <2>6, <3>1 DEF ExecInv, j
  <2> QED BY <2>7 DEF j
<1>5. \A q \in Runners :
         /\ ExecType(exec'[q]) /\ exec'[q].gen <= deploy'.gen
         /\ exec'[q].pc = exec[q].pc /\ exec'[q].job = exec[q].job
         /\ exec'[q].pc = "idle" => exec'[q] = Idle
  BY <1>1, <1>2, TickExec DEF RunnerInv
<1>6. DeployType(deploy') /\ DeployInv'
  BY <1>1, <1>2 DEF Types, DeployType, DeployInv
<1> QED BY <1>2, <1>3, <1>4, <1>5, <1>6, WorldKeeps

(* Controller: a template counts as started when all its pods are there. *)
LEMMA ControllerKeeps ==
    ASSUME ExecutionInv, Controller, kind' = kind
    PROVE  ExecutionInv'
<1>1. Types /\ RunnerInv /\ JobsInv /\ DeployInv
  BY DEF ExecutionInv
<1>2. rows' = rows /\ exec' = exec /\ envs' = envs /\ real' = real /\ faults' = faults
  BY DEF Controller
<1>3. DeployType(deploy) /\ Replicas \in Nat \ {0}
  BY <1>1, JobExecutionAssumption DEF Types
<1>4. DeployType(deploy') /\ deploy'.gen = deploy.gen /\ DeployInv' /\ deploy.started <= deploy'.started
  <2>1. CASE ObserveTemplate
    BY <1>1, <1>3, <2>1 DEF ObserveTemplate, DeployType, DeployInv
  <2>2. CASE SurgePod
    BY <1>1, <1>3, <2>2 DEF SurgePod, DeployType, DeployInv
  <2>3. CASE PodReady
    BY <1>1, <1>3, <2>3 DEF PodReady, DeployType, DeployInv
  <2>4. CASE RemoveOldPod
    BY <1>1, <1>3, <2>4 DEF RemoveOldPod, DeployType, DeployInv
  <2> QED BY <2>1, <2>2, <2>3, <2>4 DEF Controller
<1>5. ASSUME NEW k \in Jobs
      PROVE  EnvType(envs'[k]) /\ JobInv(rows[k], envs'[k], real[k], deploy'.started)
  <2>1. JobInv(rows[k], envs[k], real[k], deploy.started) /\ EnvType(envs[k])
    BY <1>1 DEF JobsInv, Types
  <2>2. envs[k] # NoEnv => envs[k].deployed <= deploy'.started
    <3>1. ASSUME envs[k] # NoEnv
          PROVE  envs[k].deployed \in Nat /\ envs[k].deployed <= deploy.started
      BY <2>1, <3>1 DEF EnvType, JobInv
    <3> QED BY <1>3, <1>4, <3>1 DEF DeployType
  <2> QED BY <1>2, <2>1, <2>2 DEF JobInv
<1>6. \A q \in Runners :
         /\ ExecType(exec'[q]) /\ exec'[q].gen <= deploy'.gen
         /\ exec'[q].pc = "idle" => exec'[q] = Idle
         /\ ExecInv(exec'[q], rows[exec[q].job], envs'[exec[q].job], real[exec[q].job])
  BY <1>1, <1>2, <1>4 DEF Types, RunnerInv
<1> QED BY <1>1, <1>2, <1>4, <1>5, <1>6, WorldKeeps DEF Types

(* A stuttering step. *)
LEMMA StaysKept ==
    ASSUME ExecutionInv, UNCHANGED <<rows, exec, envs, deploy, real, faults, kind>>
    PROVE  ExecutionInv'
<1>1. Types /\ RunnerInv /\ JobsInv /\ DeployInv
  BY DEF ExecutionInv
<1>2. DeployType(deploy') /\ DeployInv'
  BY <1>1 DEF Types, DeployInv, DeployType
<1>3. \A k \in Jobs : EnvType(envs'[k]) /\ JobInv(rows[k], envs'[k], real[k], deploy'.started)
  BY <1>1 DEF Types, JobsInv
<1>4. \A q \in Runners :
         /\ ExecType(exec'[q]) /\ exec'[q].gen <= deploy'.gen
         /\ exec'[q].pc = "idle" => exec'[q] = Idle
         /\ ExecInv(exec'[q], rows[exec[q].job], envs'[exec[q].job], real[exec[q].job])
  BY <1>1 DEF Types, RunnerInv
<1> QED BY <1>1, <1>2, <1>3, <1>4, WorldKeeps DEF Types
-----------------------------------------------------------------------------
(* The invariant, and the properties it implies. *)

LEMMA InitKnown == Init => ExecutionInv
<1> SUFFICES ASSUME Init PROVE ExecutionInv
  OBVIOUS
<1>1. PICK D \in Workflows :
         /\ rows = [j \in Jobs |-> [status |-> "queued", conclusion |-> "", outputs |-> {}, def |-> D[j],
                                    given |-> 0, steps |-> [i \in 1 .. Len(D[j]) + 1 |-> "pending"]]]
         /\ real = [j \in Jobs |-> [i \in 1 .. Len(D[j]) + 1 |-> "none"]]
  BY DEF Init
<1>2. /\ exec = [r \in Runners |-> Idle] /\ envs = [j \in Jobs |-> NoEnv]
      /\ deploy = [gen |-> 0, observed |-> 0, old |-> 0, updated |-> Replicas, ready |-> Replicas, started |-> 0]
      /\ faults = 0 /\ kind \in Kinds
  BY DEF Init
<1>3. ASSUME NEW j \in Jobs
      PROVE  /\ RowType(rows[j]) /\ rows[j].status = "queued" /\ rows[j].conclusion = ""
             /\ RealType(real[j], rows[j])
  <2>1. D[j] \in Seq(StepDefinition)
    BY JobExecutionAssumption
  <2>2. Len(D[j]) \in Nat
    BY <2>1, LenProperties
  <2>3. /\ DOMAIN rows[j] = RowFields /\ rows[j].status = "queued" /\ rows[j].conclusion = ""
        /\ rows[j].def = D[j] /\ rows[j].given = 0
    BY <1>1 DEF RowFields
  <2>5. RowType(rows[j])
    <3>1. rows[j].def \in Seq(StepDefinition)
      BY <2>1, <2>3
    <3>2. rows[j].given = 0 /\ Len(rows[j].def) \in Nat
      BY <2>2, <2>3
    <3>3. \A n \in Nat : 0 <= n + 1
      OBVIOUS
    <3>4. 0 <= Len(rows[j].def) + 1
      BY <3>2, <3>3
    <3>5. rows[j].given <= Len(rows[j].def) + 1
      BY <3>2, <3>4, Zenon
    <3>6. rows[j].given \in Nat
      BY <3>2
    <3> QED BY <2>3, <3>1, <3>5, <3>6 DEF RowType
  <2>6. DOMAIN real[j] = 1..Len(D[j]) + 1
    BY <1>1
  <2>7. RealType(real[j], rows[j])
    BY <2>3, <2>6 DEF RealType
  <2> QED BY <2>3, <2>5, <2>7
<1>4. \A r \in Runners : exec[r] = Idle
  BY <1>2
<1>5. \A j \in Jobs : envs[j] = NoEnv
  BY <1>2
<1>6. DeployType(deploy) /\ deploy.gen = 0 /\ DeployInv
  BY <1>2, JobExecutionAssumption DEF DeployType, DeployInv
<1>7. Types
  <2>1. DOMAIN rows = Jobs /\ DOMAIN exec = Runners /\ DOMAIN envs = Jobs /\ DOMAIN real = Jobs
    BY <1>1, <1>2
  <2>2. faults \in 0..MaxFaults
    BY <1>2, Bounds
  <2>3. \A r \in Runners : ExecType(exec[r])
    BY <1>4, IdleType
  <2>4. \A j \in Jobs : EnvType(envs[j])
    BY <1>5, NoEnvType
  <2> QED BY <1>2, <1>3, <1>6, <2>1, <2>2, <2>3, <2>4 DEF Types
<1>8. RunnerInv
  <2>1. \A r \in Runners : exec[r].pc = "idle" /\ exec[r].gen <= deploy.gen
    BY <1>4, <1>6, IdleType
  <2>2. \A w, e, h : ExecInv(Idle, w, e, h)
    BY IdleType DEF ExecInv
  <2> QED BY <1>4, <2>1, <2>2 DEF RunnerInv
<1>9. JobsInv
  BY <1>3, <1>5 DEF JobsInv, JobInv
<1>10. Exclusive
  BY <1>4, IdleType DEF Exclusive
<1>12. LeftInv
  <2>1. Left = {}
    BY <1>5 DEF Left
  <2> QED BY <1>2, <2>1, FS_EmptySet DEF LeftInv
<1> QED BY <1>6, <1>7, <1>8, <1>9, <1>10, <1>12 DEF ExecutionInv

(* A runner's step keeps what is known. *)
LEMMA RunnerKeeps ==
    ASSUME ExecutionInv, NEW r \in Runners, OwnStep(r, exec[r].job),
           UNCHANGED <<deploy, kind>>
    PROVE  ExecutionInv'
<1>1. DeployType(deploy') /\ DeployInv'
  BY DEF ExecutionInv, Types, DeployInv
<1>2. deploy.gen <= deploy'.gen
  BY DEF ExecutionInv, Types, DeployType
<1> QED BY <1>1, <1>2, OwnStepKeeps

LEMMA NextKeeps == ExecutionInv /\ [Next]_vars => ExecutionInv'
<1> SUFFICES ASSUME ExecutionInv, [Next]_vars PROVE ExecutionInv'
  OBVIOUS
<1>1. ASSUME NEW r \in Runners, executeJob(r) PROVE ExecutionInv'
  <2>0. kind' = kind
    BY <1>1 DEF executeJob
  <2>1. CASE startJob(r)
    BY <2>0, <2>1, StartsOwn, RunnerKeeps DEF startJob
  <2>2. CASE CreateJob(r)
    BY <2>0, <2>2, CreatesOwn, RunnerKeeps DEF CreateJob
  <2>3. CASE SkipStep(r)
    BY <2>0, <2>3, SkipsOwn, RunnerKeeps DEF SkipStep
  <2>4. CASE BeginStep(r)
    BY <2>0, <2>4, BeginsOwn, OwnStepKeeps
  <2>5. CASE StepsDone(r)
    BY <2>0, <2>5, DoneOwn, RunnerKeeps DEF StepsDone
  <2>6. CASE FinishJob(r)
    BY <2>0, <2>6, FinishOwn, RunnerKeeps DEF FinishJob
  <2>7. CASE Cleanup(r)
    BY <2>0, <2>7, CleansOwn, RunnerKeeps DEF Cleanup
  <2>8. CASE PollReportsFailure(r)
    BY <2>0, <2>8, PollsOwn, RunnerKeeps DEF PollReportsFailure
  <2> QED BY <1>1, <2>1, <2>2, <2>3, <2>4, <2>5, <2>6, <2>7, <2>8 DEF executeJob
<1>2. ASSUME NEW r \in Runners, StepEnds(r) PROVE ExecutionInv'
  <2>1. EndStep(r) /\ kind' = kind /\ deploy' = deploy
    BY <1>2 DEF StepEnds, EndStep
  <2>2. DeployType(deploy') /\ DeployInv' /\ deploy.gen <= deploy'.gen
    BY <2>1 DEF ExecutionInv, Types, DeployInv, DeployType
  <2> QED BY <2>1, <2>2, EndsOwn, OwnStepKeeps
<1>3. ASSUME NEW r \in Runners, GCStalePods(r), kind' = kind PROVE ExecutionInv'
  BY <1>3, CollectKeeps
<1>4. ASSUME NEW r \in Runners, RunnerDies(r), kind' = kind PROVE ExecutionInv'
  BY <1>4, DiesOwn, RunnerKeeps DEF RunnerDies
<1>5. ASSUME NEW r \in Runners, NEW j \in Jobs, claimJob(r, j), kind' = kind PROVE ExecutionInv'
  BY <1>5, ClaimKeeps
<1>6. CASE Tick /\ kind' = kind
  BY <1>6, TickKeeps
<1>8. CASE Controller /\ kind' = kind
  BY <1>8, ControllerKeeps
<1>9. CASE UNCHANGED vars
  BY <1>9, StaysKept DEF vars
<1> QED BY <1>1, <1>2, <1>3, <1>4, <1>5, <1>6, <1>8, <1>9 DEF Next

THEOREM ExecutionKnown == Spec => []ExecutionInv
BY InitKnown, NextKeeps, PTL DEF Spec

(* The variables keep their types (TypeOK). *)
THEOREM TypeCorrect == Spec => []TypeOK
<1>1. ExecutionInv => TypeOK
  <2> SUFFICES ASSUME ExecutionInv PROVE TypeOK
    OBVIOUS
  <2>1. \A j \in Jobs : /\ rows[j].status \in {"queued", "claimed", "in_progress", "completed"}
                        /\ rows[j].conclusion \in {"", "success", "failure"}
                        /\ envs[j].kind \in {"none", "pod", "local"}
    BY NoEnvType DEF ExecutionInv, Types, RowType
  <2>2. \A r \in Runners : exec[r].pc \in PCs
    BY DEF ExecutionInv, Types, ExecType
  <2>3. faults \in 0..MaxFaults /\ deploy.observed <= deploy.gen /\ kind \in Kinds
    BY DEF ExecutionInv, Types, DeployInv
  <2> QED BY <2>1, <2>2, <2>3 DEF TypeOK, PCs
<1> QED BY <1>1, ExecutionKnown, PTL

(* A job recorded as a success has done or rightly skipped every step that   *)
(* came with its claim, for any workflow, any number of steps the claim      *)
(* carries, any loss of calls and any death of runners: the conclusion is    *)
(* allSuccess, which only EndStep and the conditions of steps decide         *)
(* (runner.go:533-671).                                                      *)
THEOREM SuccessEarned == Spec => []SuccessIsEarned
<1>1. ExecutionInv => SuccessIsEarned
  BY DEF ExecutionInv, JobsInv, JobInv, Earned, SuccessIsEarned, Given
<1> QED BY <1>1, ExecutionKnown, PTL

(* An environment nobody executes a job in has cost a fault, be it at its    *)
(* creation, its deletion or in between, and the collector takes none from a *)
(* job that is within its deadline (executor.go:93, executor.go:277-287).    *)
THEOREM EnvironmentsFollow == Spec => []EnvironmentsFollowJobs
<1>1. ExecutionInv => EnvironmentsAreReleased
  <2> SUFFICES ASSUME ExecutionInv PROVE EnvironmentsAreReleased
    OBVIOUS
  <2> DEFINE Unused == {j \in Jobs : envs[j] # NoEnv /\ \A r \in Runners : exec[r] = Idle \/ exec[r].job # j}
  <2>1. Unused \subseteq Left
    BY IdleType DEF Left
  <2>2. IsFiniteSet(Left)
    <3>1. Left \subseteq Jobs
      BY DEF Left
    <3> QED BY <3>1, Bounds, FS_Subset
  <2> HIDE DEF Unused
  <2>3. /\ Cardinality(Unused) <= Cardinality(Left) /\ Cardinality(Unused) \in Nat
        /\ Cardinality(Left) \in Nat
    BY <2>1, <2>2, FS_Subset, FS_CardinalityType
  <2>4. Cardinality(Left) <= faults /\ faults \in Nat
    BY Bounds DEF ExecutionInv, LeftInv, Types
  <2>5. Cardinality(Unused) <= faults
    BY <2>3, <2>4
  <2> QED BY <2>5 DEF Unused, EnvironmentsAreReleased
<1>2. ExecutionInv => LiveEnvironmentsAreKept
  BY IdleType DEF ExecutionInv, RunnerInv, ExecInv, LiveEnvironmentsAreKept
<1> QED BY <1>1, <1>2, ExecutionKnown, TypeCorrect, PTL DEF EnvironmentsFollowJobs

(* A deploy step that ended well saw all the pods of its own patch or of a   *)
(* later one started, for any number of replicas, deploys and interleavings  *)
(* with the controller (executor.go:2155).                                   *)
THEOREM DeploysStarted == Spec => []DeploysHaveStarted
<1>1. ExecutionInv => DeploysHaveStarted
  BY DEF ExecutionInv, JobsInv, JobInv, DeploysHaveStarted
<1> QED BY <1>1, ExecutionKnown, PTL

-----------------------------------------------------------------------------
(* The log of one job, a state machine of its own (JobLogs). Unless a call   *)
(* was given up, one call at most is in the server and it holds the last     *)
(* chunk: a number read for it is above every number stored and above what   *)
(* the page has asked up to, so the page meets each chunk once.              *)
StoredRows ==
    /\ \A r \in jobLogs : /\ r.chunk \in Nat /\ r.chunkSeq \in Nat
                          /\ 1 <= r.chunkSeq /\ r.chunkSeq <= r.chunk /\ r.chunk <= sent
    /\ \A a, b \in jobLogs : a.chunk < b.chunk => a.chunkSeq < b.chunkSeq
    /\ \A a, b \in jobLogs : b.chunkSeq < a.chunkSeq => b.chunk < a.chunk

OneCall ==
    /\ answered => calls = {}
    /\ \A c, d \in calls : c = d
    /\ \A c \in calls :
         /\ c = [chunk |-> sent, chunkSeq |-> c.chunkSeq] /\ 1 <= sent
         /\ c.chunkSeq \in Nat /\ 1 <= c.chunkSeq
         /\ \A r \in jobLogs : r.chunk < sent
         /\ c.chunkSeq # Unread =>
                /\ c.chunkSeq <= sent /\ view.after < c.chunkSeq
                /\ \A r \in jobLogs : r.chunkSeq < c.chunkSeq

PageKnows ==
    /\ view = [shown |-> view.shown, after |-> view.after] /\ view.after \in Nat
    /\ view.after = 0 \/ \E r \in jobLogs : view.after <= r.chunkSeq
    /\ \A r \in jobLogs : r.chunkSeq <= view.after => r.chunk \in view.shown

LogInv ==
    /\ sent \in Nat /\ sent <= MaxChunks
    /\ gaveUp \/ (StoredRows /\ OneCall /\ PageKnows)

LEMMA LargestNumber ==
    ASSUME NEW n \in Nat, NEW S \in SUBSET (1..n), S # {}
    PROVE  \E m \in S : \A k \in S : k <= m
<1> DEFINE T == {n - i : i \in S}
<1>1. T \subseteq Nat /\ T # {}
  <2>1. \A i \in S : n - i \in Nat
    OBVIOUS
  <2> QED BY <2>1
<1>2. PICK x \in T : \A y \in T : ~(<<y, x>> \in OpToRel(<, Nat))
  <2> HIDE DEF T
  <2> QED BY <1>1, NatLessThanWellFounded, WFMin
<1>3. \A y \in T : ~(y < x)
  <2> HIDE DEF T
  <2> QED BY <1>1, <1>2 DEF OpToRel
<1>4. PICK m \in S : x = n - m
  OBVIOUS
<1>5. \A k \in S : ~(n - k < n - m)
  BY <1>3, <1>4
<1>6. \A k \in S : k \in Nat /\ m \in Nat
  OBVIOUS
<1> QED BY <1>5, <1>6

(* The next number is one above the largest stored: a row has it.            *)
LEMMA NextIsAbove ==
    ASSUME NEW R, R # {}, NEW n \in Nat, \A r \in R : r.chunkSeq \in 1..n
    PROVE  /\ NextSeq(R) \in Nat /\ 1 <= NextSeq(R)
           /\ \A r \in R : r.chunkSeq < NextSeq(R)
           /\ \E r \in R : NextSeq(R) = 1 + r.chunkSeq
<1> DEFINE Numbers == {r.chunkSeq : r \in R}
           Largest(k) == \A r \in R : r.chunkSeq <= k
           top == CHOOSE k \in Numbers : Largest(k)
<1>1. Numbers \in SUBSET (1..n) /\ Numbers # {}
  OBVIOUS
<1>2. \E m \in Numbers : \A k \in Numbers : k <= m
  <2> HIDE DEF Numbers
  <2> QED BY <1>1, LargestNumber
<1>3. \E m \in Numbers : Largest(m)
  BY <1>2
<1>4. top \in Numbers /\ Largest(top)
  <2> HIDE DEF Numbers, Largest
  <2> QED BY <1>3
<1>5. NextSeq(R) = 1 + top
  BY DEF NextSeq
<1>6. PICK b \in R : top = b.chunkSeq
  BY <1>4
<1>7. \A r \in R : r.chunkSeq <= b.chunkSeq
  BY <1>4, <1>6
<1> HIDE DEF top
<1> QED BY <1>5, <1>6, <1>7

LEMMA ChunksBound == MaxChunks \in Nat
BY JobLogsAssumption

LEMMA LogInitInv == LogInit => LogInv
BY ChunksBound DEF LogInit, LogInv, StoredRows, OneCall, PageKnows

LEMMA SendKeeps == LogInv /\ ~gaveUp /\ appendLogs => LogInv'
<1> SUFFICES ASSUME LogInv, ~gaveUp, appendLogs PROVE LogInv'
  OBVIOUS
<1> USE DEF LogInv, StoredRows, OneCall, PageKnows
<1>1. calls = {} /\ calls' = {[chunk |-> sent + 1, chunkSeq |-> Unread]} /\ sent' = sent + 1
      /\ sent < MaxChunks /\ answered' = FALSE /\ UNCHANGED <<jobLogs, gaveUp, view>>
  BY DEF appendLogs
<1>2. Unread \in Nat /\ 1 <= Unread
  BY ChunksBound DEF Unread
<1>3. sent' \in Nat /\ sent' <= MaxChunks
  BY <1>1, ChunksBound
<1>4. StoredRows' /\ PageKnows'
  BY <1>1
<1>5. OneCall'
  BY <1>1, <1>2
<1> QED BY <1>3, <1>4, <1>5

LEMMA SelectKeeps == ASSUME NEW c, LogInv, ~gaveUp, AppendJobLogSelect(c) PROVE LogInv'
<1> USE DEF LogInv, StoredRows, OneCall, PageKnows
<1> DEFINE d == [c EXCEPT !.chunkSeq = NextSeq(jobLogs)]
<1>1. calls = {c} /\ calls' = {d} /\ ~answered /\ UNCHANGED <<jobLogs, sent, answered, gaveUp, view>>
  BY DEF AppendJobLogSelect
<1>2. c = [chunk |-> sent, chunkSeq |-> c.chunkSeq] /\ \A r \in jobLogs : r.chunk < sent
  BY <1>1
<1>3. d = [chunk |-> sent, chunkSeq |-> NextSeq(jobLogs)]
  <2>1. d = [[chunk |-> sent, chunkSeq |-> c.chunkSeq] EXCEPT !.chunkSeq = NextSeq(jobLogs)]
    BY <1>2
  <2> HIDE DEF d
  <2> QED BY <2>1
<1>4. NextSeq(jobLogs) \in Nat /\ 1 <= NextSeq(jobLogs)
      /\ (\A r \in jobLogs : r.chunkSeq < NextSeq(jobLogs))
      /\ (jobLogs = {} => NextSeq(jobLogs) = 1)
      /\ (jobLogs # {} => \E r \in jobLogs : NextSeq(jobLogs) = 1 + r.chunkSeq)
  <2>1. CASE jobLogs = {}
    BY <2>1 DEF NextSeq
  <2>2. CASE jobLogs # {}
    <3>1. \A r \in jobLogs : r.chunkSeq \in 1..sent
      OBVIOUS
    <3> HIDE DEF LogInv, StoredRows, OneCall, PageKnows
    <3>2. sent \in Nat
      BY DEF LogInv
    <3> QED BY <2>2, <3>1, <3>2, NextIsAbove
  <2> QED BY <2>1, <2>2
<1> DEFINE n == NextSeq(jobLogs)
<1> HIDE DEF n, d
<1>5. n \in Nat /\ 1 <= n /\ (\A r \in jobLogs : r.chunkSeq < n) /\ d = [chunk |-> sent, chunkSeq |-> n]
      /\ (jobLogs = {} => n = 1) /\ (jobLogs # {} => \E r \in jobLogs : n = 1 + r.chunkSeq)
  BY <1>3, <1>4 DEF n
<1>6. n <= sent /\ view.after < n
  <2>1. CASE jobLogs = {}
    BY <1>1, <1>5, <2>1
  <2>2. CASE jobLogs # {}
    <3>1. PICK r \in jobLogs : n = 1 + r.chunkSeq
      BY <1>5, <2>2
    <3>2. n <= sent
      BY <1>2, <3>1
    <3>3. view.after < n
      BY <1>5
    <3> QED BY <3>2, <3>3
  <2> QED BY <2>1, <2>2
<1>7. d.chunkSeq = n
  BY <1>5
<1>8. StoredRows' /\ PageKnows' /\ sent' \in Nat /\ sent' <= MaxChunks
  BY <1>1
<1>9. OneCall'
  BY <1>1, <1>5, <1>6, <1>7
<1> QED BY <1>8, <1>9

LEMMA InsertKeeps == ASSUME NEW c, LogInv, ~gaveUp, AppendJobLogInsert(c) PROVE LogInv'
<1> USE DEF LogInv, StoredRows, OneCall, PageKnows
<1>1. /\ calls = {c} /\ calls' = {} /\ jobLogs' = jobLogs \cup {c} /\ UNCHANGED <<sent, gaveUp, view>>
      /\ c.chunkSeq # Unread
  BY DEF AppendJobLogInsert
<1>2. /\ c = [chunk |-> sent, chunkSeq |-> c.chunkSeq] /\ c.chunkSeq \in Nat /\ 1 <= c.chunkSeq
      /\ c.chunkSeq <= sent /\ view.after < c.chunkSeq
      /\ \A r \in jobLogs : r.chunk < sent /\ r.chunkSeq < c.chunkSeq
  BY <1>1
<1>3. c.chunk = sent
  BY <1>2
<1>4. StoredRows'
  BY <1>1, <1>2, <1>3
<1>5. PageKnows'
  BY <1>1, <1>2, <1>3
<1>6. OneCall'
  BY <1>1
<1> QED BY <1>1, <1>4, <1>5, <1>6

LEMMA FailKeeps == ASSUME NEW c, LogInv, ~gaveUp, AppendJobLogFails(c) PROVE LogInv'
<1> USE DEF LogInv, StoredRows, OneCall, PageKnows
<1>1. calls' = {} /\ UNCHANGED <<jobLogs, sent, gaveUp, view>>
  BY DEF AppendJobLogFails
<1> QED BY <1>1

LEMMA PageKeeps == LogInv /\ ~gaveUp /\ GetJobLogs => LogInv'
<1> SUFFICES ASSUME LogInv, ~gaveUp, GetJobLogs PROVE LogInv'
  OBVIOUS
<1> DEFINE new == {r \in jobLogs : r.chunkSeq > view.after}
           n == NextSeq(new)
<1>1. /\ new # {} /\ UNCHANGED <<jobLogs, calls, sent, answered, gaveUp>>
      /\ view' = [shown |-> view.shown \cup {r.chunk : r \in new}, after |-> n - 1]
  BY DEF GetJobLogs, GetJobLogsSince
<1>2. \A r \in new : r.chunkSeq \in 1..sent
  BY DEF LogInv, StoredRows
<1>3. sent \in Nat
  BY DEF LogInv
<1>4. n \in Nat /\ 1 <= n /\ (\A r \in new : r.chunkSeq < n) /\ \E r \in new : n = 1 + r.chunkSeq
  <2> HIDE DEF new
  <2> QED BY <1>1, <1>2, <1>3, NextIsAbove
<1> HIDE DEF n
<1>5. PICK top \in new : n = 1 + top.chunkSeq
  BY <1>4
<1>6. /\ top \in jobLogs /\ top.chunkSeq \in Nat /\ top.chunkSeq > view.after
      /\ view'.after = top.chunkSeq /\ view'.shown = view.shown \cup {r.chunk : r \in new}
  BY <1>1, <1>5 DEF LogInv, StoredRows
<1>7. PageKnows'
  <2>1. \A r \in jobLogs : r.chunkSeq <= view'.after => r.chunk \in view'.shown
    BY <1>6 DEF LogInv, StoredRows, PageKnows
  <2>2. view' = [shown |-> view'.shown, after |-> view'.after]
    BY <1>1
  <2> QED BY <1>1, <1>6, <2>1, <2>2 DEF PageKnows
<1>8. StoredRows'
  BY <1>1 DEF LogInv, StoredRows
<1>9. OneCall'
  <2>1. \A c \in calls : c.chunkSeq # Unread => view'.after < c.chunkSeq
    BY <1>6 DEF LogInv, OneCall
  <2> QED BY <1>1, <2>1 DEF LogInv, OneCall, Unread
<1> QED BY <1>1, <1>7, <1>8, <1>9 DEF LogInv

LEMMA LogNextKeeps == LogInv /\ [LogNext]_logVars => LogInv'
<1> SUFFICES ASSUME LogInv, [LogNext]_logVars PROVE LogInv'
  OBVIOUS
<1>1. CASE UNCHANGED logVars
  BY <1>1 DEF logVars, LogInv, StoredRows, OneCall, PageKnows, Unread
<1>2. CASE gaveUp /\ LogNext
  <2>1. gaveUp' /\ (sent' = sent \/ (sent < MaxChunks /\ sent' = sent + 1))
    BY <1>2 DEF LogNext, appendLogs, GiveUp, GetJobLogs, AppendJobLogSelect, AppendJobLogInsert, AppendJobLogFails
  <2> QED BY <2>1, ChunksBound DEF LogInv
<1>3. CASE ~gaveUp /\ LogNext
  <2>1. CASE appendLogs
    BY <1>3, <2>1, SendKeeps
  <2>2. CASE GiveUp
    BY <2>2 DEF GiveUp, LogInv
  <2>3. CASE GetJobLogs
    BY <1>3, <2>3, PageKeeps
  <2>4. ASSUME NEW c \in calls, AppendJobLogSelect(c) \/ AppendJobLogInsert(c) \/ AppendJobLogFails(c)
        PROVE  LogInv'
    BY <1>3, <2>4, SelectKeeps, InsertKeeps, FailKeeps
  <2> QED BY <1>3, <2>1, <2>2, <2>3, <2>4 DEF LogNext
<1> QED BY <1>1, <1>2, <1>3

(* Unless a call was given up while it ran, a page that follows the log has  *)
(* every chunk up to the last number it knows, and the numbers order the     *)
(* chunks as sent, for any number of chunks and whichever calls fail         *)
(* (db/ci.go:937, api/ci.go:642).                                            *)
THEOREM FollowersHold == LogSpec => []FollowersMissNothing
<1>1. LogInv => FollowersMissNothing
  BY DEF LogInv, StoredRows, PageKnows, FollowersMissNothing
<1> QED BY <1>1, LogInitInv, LogNextKeeps, PTL DEF LogSpec
=============================================================================
