----------------------------- MODULE JobExecution -----------------------------
(* The execution of claimed jobs by the runners (kailab-control runner).    *)
(* A runner executes one job at a time: it tells the control plane that the *)
(* job has started, creates an environment (a pod, or a directory for the   *)
(* local executor), runs the steps in it one after the other under the      *)
(* job's deadline, reports the conclusion and removes the environment.      *)
(*                                                                          *)
(* Time is counted in ticks. A command ends well or badly, at any time; one *)
(* whose context has expired ends badly. Calls to the control plane and to  *)
(* Kubernetes may fail, at most MaxFaults times, and runners may die.       *)
EXTENDS Naturals, Sequences, FiniteSets

CONSTANTS Runners,
          Kinds,       \* the executors configured: set of [Runners -> {"pod", "local"}]
          Jobs,
          RunOf,       \* [Jobs -> workflow run]
          Workflows,   \* what the jobs' steps may be: set of [Jobs -> Seq([id, uses, cond, coe, name])]
          Timeout,     \* [Jobs -> ticks until the job's deadline]
          GCAge,       \* the 30 minutes of GCStalePods, in ticks
          Replicas,    \* the replicas the Deployment asks for
          MaxFaults    \* bound: failed calls, lost answers, dead runners

(* A step of a job, and what the code takes for granted of its settings: a *)
(* job has finitely many steps and a deadline, a runner has one executor.  *)
StepDefinition == [id : STRING, uses : STRING, cond : STRING, coe : BOOLEAN, name : STRING]

ASSUME JobExecutionAssumption ==
    /\ Jobs # {} /\ IsFiniteSet(Jobs)
    /\ Kinds \subseteq [Runners -> {"pod", "local"}]
    /\ \A D \in Workflows : \A j \in Jobs : D[j] \in Seq(StepDefinition)
    /\ Timeout \in [Jobs -> Nat] /\ {GCAge, MaxFaults} \subseteq Nat
    /\ Replicas \in Nat \ {0}

VARIABLES rows,        \* the jobs as the control plane has them
          exec,        \* what each runner is doing
          envs,        \* [Jobs -> pod or directory]
          store,       \* caches and artifacts, in the order they were put
          deploy,      \* the Deployment: its generation, its status, the last one started
          real,        \* [Jobs -> what became of each step]
          faults,
          kind         \* each runner's executor, which never changes

vars == <<rows, exec, envs, store, deploy, real, faults, kind>>

Idle  == [pc |-> "idle", job |-> CHOOSE j \in Jobs : TRUE, i |-> 1, left |-> 0, allSuccess |-> TRUE,
          gen |-> 0, outputs |-> {}, err |-> FALSE]
NoEnv == [kind |-> "none"]
Steps(j) == rows[j].def
N(j)     == Len(Steps(j))
Given(j) == rows[j].given

Init ==
    /\ \E D \in Workflows :
         /\ rows = [j \in Jobs |-> [status |-> "queued", conclusion |-> "", outputs |-> {}, def |-> D[j],
                                    given |-> 0, steps |-> [i \in 1 .. Len(D[j]) + 1 |-> "pending"]]]
         /\ real = [j \in Jobs |-> [i \in 1 .. Len(D[j]) + 1 |-> "none"]]
    /\ exec = [r \in Runners |-> Idle]
    /\ envs = [j \in Jobs |-> NoEnv]
    /\ store = <<>>
    /\ deploy = [gen |-> 0, observed |-> 0, old |-> 0, updated |-> Replicas, ready |-> Replicas, started |-> 0]
    /\ faults = 0 /\ kind \in Kinds

Fault == faults < MaxFaults /\ faults' = faults + 1

-----------------------------------------------------------------------------
(* The actions a step may use. Each gives the set of its possible results:  *)
(* whether the exit code is 0 and what the environment is then. x carries   *)
(* the environment, the job, the step, whether the context has expired, and *)
(* the shared state the action reads.                                       *)

Result(ok, e)  == [ok |-> ok, env |-> e]
Command(x, e2) == {Result(FALSE, x.env)} \cup (IF x.expired THEN {} ELSE {Result(TRUE, e2)})

(* A script: what it writes to GITHUB_OUTPUT is in the environment's file.  *)
executeCommand(x) == Command(x, [x.env EXCEPT !.out = @ \cup {x.step}])

Installs(x, tool)      == Command(x, [x.env EXCEPT !.tools = @ \cup {tool}])
actionSetupGo(x)       == Installs(x, "go")
actionSetupNode(x)     == Installs(x, "node")
actionSetupPython(x)   == Installs(x, "python")
actionSetupJava(x)     == Installs(x, "java")
actionRustToolchain(x) == Installs(x, "rust")
actionDockerSetupBuildx(x) == Installs(x, "buildah")

(* Ends well even when QEMU cannot be installed. *)
actionDockerSetupQemu(x) == Command(x, x.env) \cup Installs(x, "qemu")

(* Without credentials, and outside Artifact Registry, login is skipped.    *)
actionDockerLogin(x) ==
    {Result(TRUE, x.env)} \cup Command(x, [x.env EXCEPT !.tools = @ \cup {"buildah", "login"}])

actionDockerMetadata(x) == {Result(TRUE, x.env)} \cup executeCommand(x)

actionDockerBuildPush(x) ==
    IF "buildah" \in x.env.tools THEN Command(x, [x.env EXCEPT !.image = TRUE])
    ELSE {Result(FALSE, x.env)}

(* The archive of snap.<branch>, or of snap.latest, as it is during the     *)
(* step (the commit the run is for is only logged), or file by file.        *)
Fetches(x)            == Command(x, [x.env EXCEPT !.files = 1])
kaiCheckoutArchive(x) == Fetches(x)
kaiCheckoutPerFile(x) == Fetches(x)
actionCheckout(x)     == kaiCheckoutArchive(x) \cup kaiCheckoutPerFile(x)

(* The store. *)
Put(key, val)     == store' = Append(store, [key |-> key, val |-> val])
Holds(key)        == \E n \in DOMAIN store : store[n].key = key
LatestOf(keys)    == LET ns == {n \in DOMAIN store : store[n].key \in keys}
                     IN  store[CHOOSE n \in ns : \A k \in ns : k <= n]
ListByPrefix(pre) == {k \in {store[n].key : n \in DOMAIN store} : k[1] = pre}

(* Restore the exact key, or the latest with the prefix; what the commands  *)
(* answer is ignored and the step ends well.                                *)
CacheKey(x) == <<"cache", x.def.name>>
actionCache(x) ==
    LET keys == IF Holds(CacheKey(x)) THEN {CacheKey(x)} ELSE ListByPrefix("cache")
        hit  == [x.env EXCEPT !.cached = LatestOf(keys).val, !.out = @ \cup {x.step}]
    IN  {Result(TRUE, x.env), Result(TRUE, [x.env EXCEPT !.out = @ \cup {x.step}])}
        \cup (IF keys = {} THEN {} ELSE {Result(TRUE, hit)})

ArtifactKey(j, name) == <<"artifacts", RunOf[j], name>>

actionUploadArtifact(x) == {Result(TRUE, x.env)}

Downloaded(x) ==
    IF Holds(ArtifactKey(x.job, x.def.name))
    THEN {[x.env EXCEPT !.got = @ \cup {LatestOf({ArtifactKey(x.job, x.def.name)}).val}]} ELSE {}
actionDownloadArtifact(x) == {Result(TRUE, e) : e \in {x.env} \cup Downloaded(x)}

(* The plan comes as outputs of the result, not through the file. *)
actionCIPlan(x) == {Result(TRUE, [x.env EXCEPT !.plan = x.step])}

(* A bug to catch: the status is read before the controller has seen the    *)
(* patch.                                                                   *)
rolloutByReplicas(d) == d.updated = Replicas /\ d.old + d.ready = Replicas

(* Ready and available pods are counted whatever their template, and how    *)
(* many pods there are in all is not looked at.                             *)
rolloutComplete(d) == d.updated = Replicas /\ d.old + d.ready = Replicas /\ d.observed >= d.gen

(* The patch is made when the step begins; the step then waits for the      *)
(* rollout, for its own timeout or for the context.                         *)
waitForDeployments(x) ==
    {Result(FALSE, x.env)} \cup
    (IF ~x.expired /\ rolloutComplete(deploy) THEN {Result(TRUE, [x.env EXCEPT !.deployed = x.gen])} ELSE {})
actionDeployK8s(x) == waitForDeployments(x)
actionApplyK8s(x)  == waitForDeployments(x)

(* An action fetched from its repository: unsupported kinds are skipped, a  *)
(* composite or Node action is a series of commands.                        *)
runCompositeAction(x) == executeCommand(x)
runNodeAction(x)      == executeCommand(x)
actionGeneric(x)      == {Result(TRUE, x.env)} \cup runCompositeAction(x) \cup runNodeAction(x)

executeAction(x) ==
    CASE x.def.uses = "run"       -> executeCommand(x)
      [] x.def.uses = "checkout"  -> actionCheckout(x)
      [] x.def.uses = "go"        -> actionSetupGo(x)
      [] x.def.uses = "node"      -> actionSetupNode(x)
      [] x.def.uses = "python"    -> actionSetupPython(x)
      [] x.def.uses = "java"      -> actionSetupJava(x)
      [] x.def.uses = "rust"      -> actionRustToolchain(x)
      [] x.def.uses = "cache"     -> actionCache(x)
      [] x.def.uses = "upload"    -> actionUploadArtifact(x)
      [] x.def.uses = "download"  -> actionDownloadArtifact(x)
      [] x.def.uses = "qemu"      -> actionDockerSetupQemu(x)
      [] x.def.uses = "buildx"    -> actionDockerSetupBuildx(x)
      [] x.def.uses = "login"     -> actionDockerLogin(x)
      [] x.def.uses = "metadata"  -> actionDockerMetadata(x)
      [] x.def.uses = "build"     -> actionDockerBuildPush(x)
      [] x.def.uses = "deploy"    -> actionDeployK8s(x)
      [] x.def.uses = "apply"     -> actionApplyK8s(x)
      [] x.def.uses = "plan"      -> actionCIPlan(x)
      [] OTHER                    -> actionGeneric(x)

(* The local executor: a shell on the host, whose outputs go to a file of   *)
(* the job's directory; the archive, or a clone by git.                     *)
localExecuteCommand(x)  == Command(x, [x.env EXCEPT !.out = @ \cup {x.step}])
localCheckout(x)        == Fetches(x)
localSetupGo(x)         == Installs(x, "go")
localSetupNode(x)       == Installs(x, "node")
localUploadArtifact(x)  == {Result(TRUE, x.env)}
localCIPlan(x)          == {Result(TRUE, [x.env EXCEPT !.plan = x.step])}
localApplyK8s(x)        == waitForDeployments(x)

(* It fails the step when the artifact is not there. *)
localDownloadArtifact(x) ==
    {Result(FALSE, x.env)} \cup {Result(~x.expired, e) : e \in Downloaded(x)}

(* It knows fewer actions and skips the others. *)
localExecuteAction(x) ==
    CASE x.def.uses = "run"      -> localExecuteCommand(x)
      [] x.def.uses = "checkout" -> localCheckout(x)
      [] x.def.uses = "go"       -> localSetupGo(x)
      [] x.def.uses = "node"     -> localSetupNode(x)
      [] x.def.uses = "upload"   -> localUploadArtifact(x)
      [] x.def.uses = "download" -> localDownloadArtifact(x)
      [] x.def.uses = "plan"     -> localCIPlan(x)
      [] x.def.uses = "apply"    -> localApplyK8s(x)
      [] OTHER                   -> {Result(TRUE, x.env)}

ExecuteStep(x) == IF x.env.kind = "pod" THEN executeAction(x) ELSE localExecuteAction(x)

(* What the step leaves in the store: caches are saved under a key that was *)
(* not there, if there is something to save.                                *)
StoreAfter(x, e) ==
    CASE x.def.uses = "upload"                         -> Put(ArtifactKey(x.job, x.def.name), RunOf[x.job]) \/ UNCHANGED store
      [] x.def.uses = "cache" /\ ~Holds(CacheKey(x)) /\ e.kind = "pod"
                                                       -> Put(CacheKey(x), e.files) \/ UNCHANGED store
      [] OTHER                                         -> UNCHANGED store

-----------------------------------------------------------------------------
(* poll and executeJob. *)

(* How many rows of steps come with a claim. The job can be claimed while   *)
(* its steps are still being inserted, or after an insertion has failed; a  *)
(* failed listing gives none; and the workflow may have fewer steps now     *)
(* than when the job was created.                                           *)
ListJobSteps(j) == 0 .. N(j) + 1

claimJob(r, j) ==
    /\ exec[r] = Idle /\ rows[j].status = "queued"
    /\ \E n \in ListJobSteps(j) : rows' = [rows EXCEPT ![j].status = "claimed", ![j].given = n]
    /\ exec' = [exec EXCEPT ![r] = [Idle EXCEPT !.pc = "start", !.job = j, !.left = Timeout[j]]]
    /\ UNCHANGED <<envs, store, deploy, real, faults>>

Goto(r, pc) == exec' = [exec EXCEPT ![r].pc = pc]

startJob(r) ==
    LET j == exec[r].job IN
    /\ exec[r].pc = "start"
    /\ \/ rows' = [rows EXCEPT ![j].status = "in_progress"] /\ Goto(r, "create") /\ UNCHANGED faults
       \/ rows' = [rows EXCEPT ![j].status = "in_progress"] /\ Goto(r, "poll") /\ Fault
       \/ UNCHANGED rows /\ Goto(r, "poll") /\ Fault
    /\ UNCHANGED <<envs, store, deploy, real>>

FreshEnv(r) == [kind |-> kind[r], age |-> 0, files |-> 0, tools |-> {}, out |-> {}, got |-> {},
                cached |-> 0, plan |-> 0, image |-> FALSE, deployed |-> 0]

(* The call fails, with the pod made or not, or the pod does not come up in *)
(* time. Only then is it deleted, and whether that worked is not looked at. *)
CreateFailed(r, j) ==
    \/ UNCHANGED <<envs, faults>>
    \/ envs' = [envs EXCEPT ![j] = FreshEnv(r)] /\ Fault

CreateJob(r) ==
    LET j == exec[r].job IN
    /\ exec[r].pc = "create"
    /\ \/ /\ exec[r].left > 0 /\ (kind[r] = "pod" => envs[j] = NoEnv)
          /\ envs' = [envs EXCEPT ![j] = FreshEnv(r)]
          /\ Goto(r, "step") /\ UNCHANGED faults
       \/ CreateFailed(r, j) /\ Goto(r, "poll")
    /\ UNCHANGED <<rows, store, deploy, real>>

Def(r)     == Steps(exec[r].job)[exec[r].i]
Expired(r) == exec[r].left = 0

(* if: with job_status as the steps so far have made it. *)
EvalCond(r) ==
    CASE Def(r).cond = "failure" -> ~exec[r].allSuccess
      [] Def(r).cond = "success" -> exec[r].allSuccess
      [] OTHER                   -> TRUE

(* completeStep: not sent once the context has expired, and not repeated.   *)
completeStep(r, i, conclusion) ==
    LET j == exec[r].job IN
    IF Expired(r) THEN UNCHANGED <<rows, faults>>
    ELSE \/ rows' = [rows EXCEPT ![j].steps[i] = conclusion] /\ UNCHANGED faults
         \/ UNCHANGED rows /\ Fault

(* A step of the claim that has no definition (any more), or whose          *)
(* condition is false.                                                      *)
SkipStep(r) ==
    /\ exec[r].pc = "step" /\ exec[r].i <= Given(exec[r].job)
    /\ exec[r].i <= N(exec[r].job) => ~EvalCond(r)
    /\ completeStep(r, exec[r].i, "skipped")
    /\ real' = [real EXCEPT ![exec[r].job][exec[r].i] = "skipped"]
    /\ exec' = [exec EXCEPT ![r].i = @ + 1]
    /\ UNCHANGED <<envs, store, deploy>>

BeginStep(r) ==
    LET patches == Def(r).uses \in {"deploy", "apply"} /\ ~Expired(r) IN
    /\ exec[r].pc = "step" /\ exec[r].i <= Given(exec[r].job)
    /\ exec[r].i <= N(exec[r].job) /\ EvalCond(r)
    /\ deploy' = IF patches THEN [deploy EXCEPT !.gen = @ + 1] ELSE deploy
    /\ exec' = [exec EXCEPT ![r].pc = "run", ![r].gen = deploy'.gen]
    /\ UNCHANGED <<rows, envs, store, real, faults>>

(* The environment the step finds: none when it was collected meanwhile.    *)
Ctx(r) ==
    LET j == exec[r].job IN
    [env |-> envs[j], job |-> j, step |-> exec[r].i, def |-> Def(r), expired |-> Expired(r),
     gen |-> exec[r].gen]
StepResults(r) ==
    IF envs[exec[r].job] = NoEnv THEN {Result(FALSE, NoEnv)} ELSE ExecuteStep(Ctx(r))

(* The runner reads /tmp/github_output, which is where a pod's steps write  *)
(* and a local job's do not, for a step with an id, and empties it.         *)
Captured(r, e) ==
    IF Def(r).id = "" \/ e = NoEnv THEN {}
    ELSE {[id |-> Def(r).id, by |-> w] :
             w \in (IF e.kind = "pod" /\ ~Expired(r) THEN e.out ELSE {}) \cup ({e.plan} \ {0})}
Emptied(r, e) ==
    IF e = NoEnv \/ Def(r).id = "" THEN e
    ELSE [e EXCEPT !.out = IF e.kind = "pod" /\ ~Expired(r) THEN {} ELSE @, !.plan = 0]

(* A bug to catch: the last step decides. *)
LastStepDecides(r, ok) == ok

AllSuccess(r, ok) == exec[r].allSuccess /\ ok

EndStep(r) ==
    LET j == exec[r].job i == exec[r].i IN
    /\ exec[r].pc = "run"
    /\ \E res \in StepResults(r) :
         LET conclusion == IF res.ok THEN "success" ELSE "failure" IN
         /\ envs' = [envs EXCEPT ![j] = Emptied(r, res.env)]
         /\ IF res.env = NoEnv THEN UNCHANGED store ELSE StoreAfter(Ctx(r), res.env)
         /\ completeStep(r, i, conclusion)
         /\ real' = [real EXCEPT ![j][i] = conclusion]
         /\ exec' = [exec EXCEPT
               ![r].pc = IF res.ok \/ Def(r).coe THEN "step" ELSE "finish",
               ![r].i = @ + 1, ![r].allSuccess = AllSuccess(r, res.ok),
               ![r].outputs = @ \cup Captured(r, res.env)]
    /\ UNCHANGED deploy

StepsDone(r) ==
    /\ exec[r].pc = "step" /\ exec[r].i > Given(exec[r].job)
    /\ Goto(r, "finish")
    /\ UNCHANGED <<rows, envs, store, deploy, real, faults>>

(* completeJob sends once and looks only at whether an answer came: it may  *)
(* be lost on the way, refused by the server, or answered in vain.          *)
completeJob(r, conclusion, outputs) ==
    LET j == exec[r].job
        done == [rows EXCEPT ![j].status = "completed", ![j].conclusion = conclusion, ![j].outputs = outputs]
    IN  \/ rows' = done /\ exec' = [exec EXCEPT ![r].pc = "cleanup"] /\ UNCHANGED faults
        \/ rows' = done /\ exec' = [exec EXCEPT ![r].pc = "cleanup", ![r].err = TRUE] /\ Fault
        \/ UNCHANGED rows /\ exec' = [exec EXCEPT ![r].pc = "cleanup", ![r].err = TRUE] /\ Fault
        \/ UNCHANGED rows /\ exec' = [exec EXCEPT ![r].pc = "cleanup"] /\ Fault

DeadlineConclusion == "failure"

FinishJob(r) ==
    /\ exec[r].pc = "finish"
    /\ IF Expired(r) THEN completeJob(r, DeadlineConclusion, {})
       ELSE completeJob(r, IF exec[r].allSuccess THEN "success" ELSE "failure", exec[r].outputs)
    /\ UNCHANGED <<envs, store, deploy, real>>

Cleanup(r) ==
    /\ exec[r].pc = "cleanup"
    /\ \/ envs' = [envs EXCEPT ![exec[r].job] = NoEnv] /\ UNCHANGED faults
       \/ UNCHANGED envs /\ Fault
    /\ exec' = IF exec[r].err THEN [exec EXCEPT ![r].pc = "poll"] ELSE [exec EXCEPT ![r] = Idle]
    /\ UNCHANGED <<rows, store, deploy, real>>

(* poll reports a failure for a job whose execution returned an error.      *)
PollReportsFailure(r) ==
    LET j == exec[r].job IN
    /\ exec[r].pc = "poll"
    /\ \/ /\ rows' = [rows EXCEPT ![j].status = "completed", ![j].conclusion = "failure"]
          /\ UNCHANGED faults
       \/ UNCHANGED rows /\ Fault
    /\ exec' = [exec EXCEPT ![r] = Idle]
    /\ UNCHANGED <<envs, store, deploy, real>>

-----------------------------------------------------------------------------
(* A bug to catch: whatever is there is stale. *)
StaleAnyAge(e) == e # NoEnv

Stale(e) == e # NoEnv /\ e.age > GCAge

(* A runner that is not executing a job looks at everyone's environments.   *)
GCStalePods(r) ==
    /\ exec[r] = Idle /\ \E j \in Jobs : Stale(envs[j])
    /\ envs' = [j \in Jobs |-> IF Stale(envs[j]) /\ envs[j].kind = kind[r] THEN NoEnv ELSE envs[j]]
    /\ UNCHANGED <<rows, exec, store, deploy, real, faults>>

RunnerDies(r) ==
    /\ exec[r] # Idle /\ Fault
    /\ exec' = [exec EXCEPT ![r] = Idle]
    /\ UNCHANGED <<rows, envs, store, deploy, real>>

(* Deadlines and ages; the ages matter up to GCAge + 1. *)
Tick ==
    /\ exec' = [r \in Runners |-> IF exec[r] = Idle \/ exec[r].left = 0 THEN exec[r] ELSE [exec[r] EXCEPT !.left = @ - 1]]
    /\ envs' = [j \in Jobs |-> IF envs[j] = NoEnv \/ envs[j].age > GCAge THEN envs[j] ELSE [envs[j] EXCEPT !.age = @ + 1]]
    /\ UNCHANGED <<rows, store, deploy, real, faults>>

(* The world: the Deployment controller.                                    *)

(* What the status says next: the controller has seen the latest template,  *)
(* whose pods are all still to come; it has one more of them, one above the *)
(* replicas at most, and has started the template when it has them all;     *)
(* they become ready; a pod of an earlier template is removed when enough   *)
(* are ready without it.                                                    *)
ObserveTemplate ==
    /\ deploy.observed < deploy.gen
    /\ deploy' = [deploy EXCEPT !.observed = deploy.gen, !.old = @ + deploy.ready, !.updated = 0, !.ready = 0]
SurgePod ==
    /\ deploy.updated < Replicas /\ deploy.old + deploy.updated <= Replicas
    /\ deploy' = [deploy EXCEPT !.updated = @ + 1,
                                !.started = IF deploy.updated + 1 = Replicas THEN deploy.observed ELSE @]
PodReady ==
    /\ deploy.ready < deploy.updated
    /\ deploy' = [deploy EXCEPT !.ready = @ + 1]
RemoveOldPod ==
    /\ deploy.old > 0 /\ deploy.old + deploy.ready > Replicas
    /\ deploy' = [deploy EXCEPT !.old = @ - 1]

Controller ==
    /\ ObserveTemplate \/ SurgePod \/ PodReady \/ RemoveOldPod
    /\ UNCHANGED <<rows, exec, envs, store, real, faults>>

executeJob(r) ==
    /\ \/ startJob(r) \/ CreateJob(r) \/ SkipStep(r) \/ BeginStep(r) \/ StepsDone(r)
       \/ FinishJob(r) \/ Cleanup(r) \/ PollReportsFailure(r)
    /\ UNCHANGED kind

StepEnds(r) == EndStep(r) /\ UNCHANGED kind

Next ==
    \/ \E r \in Runners : executeJob(r) \/ StepEnds(r)
    \/ /\ \/ \E r \in Runners : GCStalePods(r) \/ RunnerDies(r) \/ \E j \in Jobs : claimJob(r, j)
          \/ Tick \/ Controller
       /\ UNCHANGED kind

Spec == Init /\ [][Next]_vars

-----------------------------------------------------------------------------
(* The types of the variables. *)
TypeOK ==
    /\ \A j \in Jobs : /\ rows[j].status \in {"queued", "claimed", "in_progress", "completed"}
                       /\ rows[j].conclusion \in {"", "success", "failure"}
                       /\ envs[j].kind \in {"none", "pod", "local"}
    /\ \A r \in Runners : exec[r].pc \in {"idle", "start", "create", "step", "run", "finish", "cleanup", "poll"}
    /\ faults \in 0 .. MaxFaults /\ deploy.observed <= deploy.gen /\ kind \in Kinds

(* A job the control plane records as a success did all the steps that came *)
(* with its claim, each of which ended well or was skipped by its condition *)
(* or for want of a definition: continue-on-error, deadlines, steps that    *)
(* end well without having done anything and lost calls do not make a       *)
(* success of a failure (runner.go:533-671). The claim need not carry all   *)
(* the steps of the workflow: one without any is a success.                 *)
SuccessIsEarned ==
    \A j \in Jobs : rows[j].conclusion = "success" =>
        \A i \in 1 .. Given(j) : real[j][i] \in {"success", "skipped"}

(* An environment belongs to a job that a runner executes, or one of the    *)
(* failures that leave it behind has happened: a lost answer to its         *)
(* creation, a failed deletion, a dead runner (executor.go:277-286,         *)
(* runner.go:497). Each leaves one behind.                                  *)
EnvironmentsAreReleased ==
    Cardinality({j \in Jobs : envs[j] # NoEnv /\ \A r \in Runners : exec[r] = Idle \/ exec[r].job # j}) <= faults

(* The collector of one runner leaves the environment of a job that another *)
(* executes within its deadline, for deadlines up to the collector's age    *)
(* (executor.go:93: jobs may ask for longer ones).                          *)
LiveEnvironmentsAreKept ==
    \A r \in Runners :
        (exec[r] # Idle /\ exec[r].pc \in {"step", "run"} /\ exec[r].left > 0 /\ Timeout[exec[r].job] <= GCAge)
            => envs[exec[r].job] # NoEnv

(* A deploy step that ends well has seen the controller start all the pods  *)
(* of its patch or of a later one: it has not taken the status from before  *)
(* the controller noticed the patch for the new one (executor.go:2155).     *)
(* That the new pods are ready it does not know: those of the old template  *)
(* are counted with them.                                                   *)
DeploysHaveStarted ==
    \A j \in Jobs : envs[j] # NoEnv => envs[j].deployed <= deploy.started

(* Environments are released, and not before their time.                    *)
EnvironmentsFollowJobs == TypeOK /\ EnvironmentsAreReleased /\ LiveEnvironmentsAreKept
=============================================================================
