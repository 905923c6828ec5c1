-------------------------------- MODULE CIRuns --------------------------------
(***************************************************************************)
(* The CI engine of the control plane (kailab-control): the tables         *)
(* workflow_runs, jobs and concurrency_locks, the HTTP handlers and the    *)
(* scheduler goroutine that write them, and the runners that call the      *)
(* handlers.  No handler uses a transaction: every SQL statement commits   *)
(* by itself and is one action, so the statements of concurrent handlers   *)
(* interleave.  One workflow is modelled, with its jobs, their needs and   *)
(* one concurrency group.                                                  *)
(*                                                                         *)
(* Timestamps are abstracted to what the stale-job query tells apart: a    *)
(* heartbeat is absent, fresh or older than its cutoff, and so is the      *)
(* started_at (or, before the job starts, created_at) of a job.            *)
(***************************************************************************)
EXTENDS Integers, Sequences, FiniteSets

CONSTANTS
    Threads,      \* goroutines serving requests, one request each
    Reaper,       \* the scheduler goroutine
    NoThread,     \* a runner that waits for no answer
    Runners,
    JobOrder,     \* names of the workflow's jobs in the order they are created
    Needs,        \* the names each job needs
    NoJob,
    Concurrency,  \* the workflow's group: "none", "skip" or "cancel" in progress
    MaxRuns,      \* bound: runs ever created
    MaxLosses,    \* bound: failed statements, lost answers, runner restarts
    MaxSilences,  \* bound: heartbeats missed while a runner works on the job
    MaxCrashes,   \* bound: restarts of the control plane
    MaxCancels    \* bound: cancellations by a user

Names == {JobOrder[i] : i \in DOMAIN JobOrder}

ASSUME CIRunsAssumption ==
    /\ Reaper \notin Threads /\ NoThread \notin Threads \cup {Reaper}
    /\ JobOrder \in Seq(Names)
    /\ Len(JobOrder) > 0
    /\ \A i, k \in 1..Len(JobOrder) : JobOrder[i] = JobOrder[k] => i = k
    /\ Needs \in [Names -> SUBSET Names]
    /\ Concurrency \in {"none", "skip", "cancel"}
    /\ {MaxRuns, MaxLosses, MaxSilences, MaxCrashes, MaxCancels} \subseteq Nat
    /\ NoJob \notin (1..MaxRuns) \X Names

Runs  == 1..MaxRuns
NoRun == 0
Jobs  == Runs \X Names

NeedsOf(j) == {j[1]} \X Needs[j[2]]
JobsOf(r)  == {r} \X Names

VARIABLES
    runs,    \* table workflow_runs
    jobs,    \* table jobs
    lock,    \* table concurrency_locks: the run holding the group
    thread,  \* the request each goroutine serves
    runner,  \* what each runner does
    won,     \* history: jobs that were ever concluded with success
    losses, silences, crashes, cancels  \* what the bounds count

vars == <<runs, jobs, lock, thread, runner, won, losses, silences, crashes, cancels>>

All == Threads \cup {Reaper}

-----------------------------------------------------------------------------
(* Rows and goroutines.                                                    *)

NoRow   == [status |-> "absent", conclusion |-> "none", number |-> 0]
NewJob  == [status |-> "queued", conclusion |-> "none", beat |-> "none", base |-> "fresh"]
Idle    == [pc |-> "idle", run |-> NoRun, job |-> NoJob, todo |-> {}, next |-> {},
            word |-> "none", number |-> 0, grouped |-> FALSE]
Resting == [phase |-> "idle", job |-> NoJob, thread |-> NoThread]

Init ==
    /\ runs     = [r \in Runs |-> NoRow]
    /\ jobs     = [j \in Jobs |-> [NewJob EXCEPT !.status = "absent"]]
    /\ lock     = NoRun
    /\ thread   = [t \in All |-> Idle]
    /\ runner   = [w \in Runners |-> Resting]
    /\ won      = {}
    /\ losses   = 0
    /\ silences = 0
    /\ crashes  = 0
    /\ cancels  = 0

Created == {r \in Runs : runs[r].status # "absent"}
Exists(j) == jobs[j].status # "absent"

(* A statement either executes or fails, at a cost bounded by MaxLosses. *)
Outcome(ok) == /\ losses + (IF ok THEN 0 ELSE 1) <= MaxLosses
               /\ losses' = losses + (IF ok THEN 0 ELSE 1)

(* UPDATE workflow_runs SET status = 'completed', conclusion = c. *)
CompleteWorkflowRun(r, c, ok) ==
    runs' = IF ok THEN [runs EXCEPT ![r] = [@ EXCEPT !.status = "completed",
                                                     !.conclusion = c]]
                  ELSE runs

CompleteJob_swapped(j, c, ok) ==  \* slip: status and conclusion change places
    /\ jobs' = IF ok THEN [jobs EXCEPT ![j] = [@ EXCEPT !.status = c,
                                                        !.conclusion = "completed"]]
                     ELSE jobs
    /\ won'  = IF ok /\ c = "success" THEN won \cup {j} ELSE won

(* UPDATE jobs SET status = 'completed', conclusion = c: whatever it was.  *)
CompleteJob(j, c, ok) ==
    /\ jobs' = IF ok THEN [jobs EXCEPT ![j] = [@ EXCEPT !.status = "completed",
                                                        !.conclusion = c]]
                     ELSE jobs
    /\ won'  = IF ok /\ c = "success" THEN won \cup {j} ELSE won

(* DELETE FROM concurrency_locks WHERE workflow_run_id = r. *)
ReleaseConcurrencyLock(r, ok) == lock' = IF ok /\ lock = r THEN NoRun ELSE lock

(* The statement at pc continues at another one. *)
At(t, p)   == thread[t].pc = p
Goto(t, p) == thread' = [thread EXCEPT ![t].pc = p]

-----------------------------------------------------------------------------
(* The runner: poll, executeJob and completeJob.                           *)

(* A runner gets its answer, or an error: a failed poll is forgotten, a    *)
(* failed start or completion is reported as a failure of the job, and a   *)
(* failed report is dropped.                                               *)
Resume(w, good, j) ==
    CASE runner[w].phase = "claiming" /\ good /\ j # NoJob ->
             [phase |-> "claimed", job |-> j, thread |-> NoThread]
      [] runner[w].phase = "starting" /\ good ->
             [runner[w] EXCEPT !.phase = "running", !.thread = NoThread]
      [] runner[w].phase \in {"starting", "completing"} /\ ~good ->
             [runner[w] EXCEPT !.phase = "failed", !.thread = NoThread]
      [] OTHER -> Resting

(* The goroutine ends and whoever waits for it gets the answer. *)
Answer(t, good, j) ==
    /\ thread' = [thread EXCEPT ![t] = Idle]
    /\ runner' = [w \in Runners |->
                    IF runner[w].thread = t THEN Resume(w, good, j) ELSE runner[w]]

(* A runner in phase p sends a request and waits. *)
Send(w, t, p, q, request) ==
    /\ runner[w].phase = p
    /\ At(t, "idle")
    /\ thread' = [thread EXCEPT ![t] = request]
    /\ runner' = [runner EXCEPT ![w] = [@ EXCEPT !.phase = q, !.thread = t]]
    /\ UNCHANGED <<runs, jobs, lock, won, losses, silences, crashes, cancels>>

Poll(w, t)   == Send(w, t, "idle", "claiming", [Idle EXCEPT !.pc = "select"])
Start(w, t)  == Send(w, t, "claimed", "starting",
                     [Idle EXCEPT !.pc = "start", !.job = runner[w].job])
Finish(w, t) == \E c \in {"success", "failure"} :
                    Send(w, t, "running", "completing",
                         [Idle EXCEPT !.pc = "complete", !.job = runner[w].job,
                                      !.word = c])
Report(w, t) == Send(w, t, "failed", "reporting",
                     [Idle EXCEPT !.pc = "complete", !.job = runner[w].job,
                                  !.word = "failure"])

(* executeJob returns an error before the job's steps have run. *)
ExecuteError(w) ==
    /\ runner[w].phase = "running"
    /\ runner' = [runner EXCEPT ![w].phase = "failed"]
    /\ UNCHANGED <<runs, jobs, lock, thread, won, losses, silences, crashes, cancels>>

(* The 30 seconds of the HTTP client are over; the handler goes on. *)
TimeOut(w) ==
    /\ runner[w].thread # NoThread
    /\ losses < MaxLosses
    /\ losses' = losses + 1
    /\ runner' = [runner EXCEPT ![w] = Resume(w, FALSE, NoJob)]
    /\ UNCHANGED <<runs, jobs, lock, thread, won, silences, crashes, cancels>>

(* The runner process restarts and has forgotten its job. *)
RestartRunner(w) ==
    /\ runner[w] # Resting
    /\ losses < MaxLosses
    /\ losses' = losses + 1
    /\ runner' = [runner EXCEPT ![w] = Resting]
    /\ UNCHANGED <<runs, jobs, lock, thread, won, silences, crashes, cancels>>

-----------------------------------------------------------------------------
(* ClaimJob.                                                               *)

Claimable_anyConclusion(j) ==  \* slip: dep.conclusion is not compared
    /\ jobs[j].status = "queued"
    /\ \A d \in NeedsOf(j) : jobs[d].status = "completed"

(* Every need is there, completed with success. *)
Claimable(j) ==
    /\ jobs[j].status = "queued"
    /\ \A d \in NeedsOf(j) :
          jobs[d].status = "completed" /\ jobs[d].conclusion = "success"

(* SELECT ... LIMIT 1.  created_at has whole seconds, so the order among   *)
(* candidates is left open.                                                *)
SelectJob(t) ==
    /\ At(t, "select")
    /\ \E ok \in BOOLEAN :
         /\ Outcome(ok)
         /\ \/ \E j \in {k \in Jobs : Claimable(k)} :
                  /\ ok
                  /\ thread' = [thread EXCEPT ![t] = [@ EXCEPT !.pc = "claim", !.job = j]]
                  /\ UNCHANGED runner
            \/ /\ ~ok \/ ~\E k \in Jobs : Claimable(k)
               /\ Answer(t, ok, NoJob)
    /\ UNCHANGED <<runs, jobs, lock, won, silences, crashes, cancels>>

ClaimJob_unguarded(t) ==  \* slip: the UPDATE forgets AND status = 'queued'
    /\ At(t, "claim")
    /\ LET j == thread[t].job IN
       \E ok \in BOOLEAN :
         /\ Outcome(ok)
         /\ jobs' = IF ok THEN [jobs EXCEPT ![j].status = "pending"] ELSE jobs
         /\ Answer(t, ok, IF ok THEN j ELSE NoJob)
    /\ UNCHANGED <<runs, lock, won, silences, crashes, cancels>>

(* UPDATE jobs SET status = 'pending' WHERE id = j AND status = 'queued'. *)
ClaimJob(t) ==
    /\ At(t, "claim")
    /\ LET j == thread[t].job IN
       \E ok \in BOOLEAN :
         /\ Outcome(ok)
         /\ IF ok /\ jobs[j].status = "queued"
              THEN /\ jobs' = [jobs EXCEPT ![j].status = "pending"]
                   /\ Answer(t, TRUE, j)
              ELSE Answer(t, ok, NoJob) /\ UNCHANGED jobs
    /\ UNCHANGED <<runs, lock, won, silences, crashes, cancels>>

-----------------------------------------------------------------------------
(* StartJob and Heartbeat.                                                 *)

StartJob(t) ==
    /\ At(t, "start")
    /\ \E ok \in BOOLEAN :
         /\ Outcome(ok)
         /\ IF ok
              THEN /\ jobs' = [jobs EXCEPT ![thread[t].job] =
                                        [@ EXCEPT !.status = "in_progress", !.base = "fresh"]]
                   /\ Goto(t, "beat")
                   /\ UNCHANGED runner
              ELSE Answer(t, FALSE, NoJob) /\ UNCHANGED jobs
    /\ UNCHANGED <<runs, lock, won, silences, crashes, cancels>>

(* UPDATE jobs SET last_heartbeat_at = now WHERE status = 'in_progress'. *)
HeartbeatJob(j, ok) ==
    jobs' = IF ok /\ jobs[j].status = "in_progress"
            THEN [jobs EXCEPT ![j].beat = "fresh"] ELSE jobs

FirstHeartbeat(t) ==
    /\ At(t, "beat")
    /\ \E ok \in BOOLEAN : Outcome(ok) /\ HeartbeatJob(thread[t].job, ok)
    /\ Goto(t, "readRun")
    /\ UNCHANGED <<runs, lock, runner, won, silences, crashes, cancels>>

(* The run is read; only a queued one is to be marked in progress. *)
ReadRun(t) ==
    /\ At(t, "readRun")
    /\ \E ok \in BOOLEAN :
         /\ Outcome(ok)
         /\ IF ok /\ runs[thread[t].job[1]].status = "queued"
              THEN Goto(t, "markRun") /\ UNCHANGED runner
              ELSE Answer(t, TRUE, NoJob)
    /\ UNCHANGED <<runs, jobs, lock, won, silences, crashes, cancels>>

(* UpdateWorkflowRunStatus: whatever the status is by now. *)
MarkRun(t) ==
    /\ At(t, "markRun")
    /\ \E ok \in BOOLEAN :
         /\ Outcome(ok)
         /\ runs' = IF ok THEN [runs EXCEPT ![thread[t].job[1]].status = "in_progress"]
                          ELSE runs
    /\ Answer(t, TRUE, NoJob)
    /\ UNCHANGED <<jobs, lock, won, silences, crashes, cancels>>

(* The runner's ticker; the request is one statement. *)
Heartbeat(w) ==
    /\ runner[w].phase = "running"
    /\ HeartbeatJob(runner[w].job, TRUE)
    /\ UNCHANGED <<runs, lock, thread, runner, won, losses, silences, crashes, cancels>>

-----------------------------------------------------------------------------
(* CompleteJob and checkAndCompleteWorkflowRun.                            *)

FinishJob_checkSuccessOnly(t) ==  \* slip: the run is checked after successes only
    /\ At(t, "complete")
    /\ \E ok \in BOOLEAN :
         /\ Outcome(ok)
         /\ CompleteJob(thread[t].job, thread[t].word, ok)
         /\ IF ok /\ thread[t].word = "success"
              THEN /\ thread' = [thread EXCEPT ![t] =
                         [Idle EXCEPT !.pc = "list", !.run = thread[t].job[1]]]
                   /\ UNCHANGED runner
              ELSE Answer(t, TRUE, NoJob)
    /\ UNCHANGED <<runs, lock, silences, crashes, cancels>>

(* The runner does not look at the status of the answer. *)
FinishJob(t) ==
    /\ At(t, "complete")
    /\ \E ok \in BOOLEAN :
         /\ Outcome(ok)
         /\ CompleteJob(thread[t].job, thread[t].word, ok)
         /\ IF ok
              THEN /\ thread' = [thread EXCEPT ![t] =
                         [Idle EXCEPT !.pc = "list", !.run = thread[t].job[1]]]
                   /\ UNCHANGED runner
              ELSE Answer(t, TRUE, NoJob)
    /\ UNCHANGED <<runs, lock, silences, crashes, cancels>>

(* The check of one run is over: the reaper goes on with its next run. *)
EndCheck(t) ==
    \/ thread[t].next = {} /\ Answer(t, TRUE, NoJob)
    \/ /\ \E r \in thread[t].next :
             thread' = [thread EXCEPT ![t] = [Idle EXCEPT !.pc = "list", !.run = r,
                                              !.next = thread[t].next \ {r}]]
       /\ UNCHANGED runner

(* Jobs not started yet that need a job concluded with failure. *)
Blocked(r) ==
    {j \in JobsOf(r) :
        /\ jobs[j].status \in {"queued", "pending"}
        /\ \E d \in NeedsOf(j) :
              jobs[d].status = "completed" /\ jobs[d].conclusion = "failure"}

ListJobs(t) ==
    /\ At(t, "list")
    /\ \E ok \in BOOLEAN :
         /\ Outcome(ok)
         /\ IF ok
              THEN /\ thread' = [thread EXCEPT ![t] =
                         [@ EXCEPT !.todo = Blocked(thread[t].run),
                                   !.pc = IF Blocked(thread[t].run) = {} THEN "verdict"
                                          ELSE "cascade"]]
                   /\ UNCHANGED runner
              ELSE EndCheck(t)
    /\ UNCHANGED <<runs, jobs, lock, won, silences, crashes, cancels>>

(* One of the goroutine's pending writes is done. *)
Strike(t, j, here, after) ==
    thread' = [thread EXCEPT ![t] =
                 [@ EXCEPT !.todo = thread[t].todo \ {j},
                           !.pc = IF thread[t].todo = {j} THEN after ELSE here]]

CancelBlocked(t) ==
    /\ At(t, "cascade")
    /\ \E j \in thread[t].todo, ok \in BOOLEAN :
         /\ Outcome(ok)
         /\ CompleteJob(j, "cancelled", ok)
         /\ Strike(t, j, "cascade", "verdict")
    /\ UNCHANGED <<runs, lock, runner, silences, crashes, cancels>>

(* The conclusion of a run from those of its jobs. *)
Verdict(r) ==
    LET concluded == {jobs[j].conclusion : j \in {k \in JobsOf(r) : Exists(k)}} IN
    IF "failure" \in concluded THEN "failure"
    ELSE IF "cancelled" \in concluded THEN "cancelled" ELSE "success"

AllComplete(r) == \A j \in JobsOf(r) : Exists(j) => jobs[j].status = "completed"

(* The jobs are listed again. *)
ReadVerdict(t) ==
    /\ At(t, "verdict")
    /\ \E ok \in BOOLEAN :
         /\ Outcome(ok)
         /\ IF ok /\ AllComplete(thread[t].run)
              THEN /\ thread' = [thread EXCEPT ![t] =
                         [@ EXCEPT !.pc = "conclude", !.word = Verdict(thread[t].run)]]
                   /\ UNCHANGED runner
              ELSE EndCheck(t)
    /\ UNCHANGED <<runs, jobs, lock, won, silences, crashes, cancels>>

Conclude(t) ==
    /\ At(t, "conclude")
    /\ \E ok \in BOOLEAN :
          Outcome(ok) /\ CompleteWorkflowRun(thread[t].run, thread[t].word, ok)
    /\ Goto(t, "release")
    /\ UNCHANGED <<jobs, lock, runner, won, silences, crashes, cancels>>

Release_onSuccess(t) ==  \* slip: only a successful run gives the group back
    /\ At(t, "release")
    /\ \E ok \in BOOLEAN :
          /\ Outcome(ok)
          /\ ReleaseConcurrencyLock(thread[t].run, ok /\ thread[t].word = "success")
    /\ EndCheck(t)
    /\ UNCHANGED <<runs, jobs, won, silences, crashes, cancels>>

Release(t) ==
    /\ At(t, "release")
    /\ \E ok \in BOOLEAN : Outcome(ok) /\ ReleaseConcurrencyLock(thread[t].run, ok)
    /\ EndCheck(t)
    /\ UNCHANGED <<runs, jobs, won, silences, crashes, cancels>>

-----------------------------------------------------------------------------
(* FailStaleJobs and reapStaleJobs, in the scheduler's goroutine.          *)

Stale_notPending(j) ==  \* slip: status IN (in_progress) only
    jobs[j].status = "in_progress" /\ \/ jobs[j].beat = "old"
                                      \/ jobs[j].beat = "none" /\ jobs[j].base = "old"

Stale(j) ==
    \/ jobs[j].status = "in_progress" /\ jobs[j].beat = "old"
    \/ /\ jobs[j].status \in {"in_progress", "pending"}
       /\ jobs[j].beat = "none" /\ jobs[j].base = "old"

SelectStale ==
    /\ At(Reaper, "idle")
    /\ \E j \in Jobs : Stale(j)
    /\ thread' = [thread EXCEPT ![Reaper] =
                    [Idle EXCEPT !.pc = "reap", !.todo = {j \in Jobs : Stale(j)}]]
    /\ UNCHANGED <<runs, jobs, lock, runner, won, losses, silences, crashes, cancels>>

(* One stale job is failed; after the last, the affected runs are checked. *)
FailStale ==
    /\ At(Reaper, "reap")
    /\ \E j \in thread[Reaper].todo, ok \in BOOLEAN :
         /\ Outcome(ok)
         /\ CompleteJob(j, "failure", ok)
         /\ LET affected == thread[Reaper].next \cup {j[1]} IN
            IF thread[Reaper].todo # {j}
              THEN thread' = [thread EXCEPT ![Reaper] =
                                [@ EXCEPT !.todo = thread[Reaper].todo \ {j},
                                          !.next = affected]]
              ELSE \E r \in affected :
                     thread' = [thread EXCEPT ![Reaper] =
                        [Idle EXCEPT !.pc = "list", !.run = r, !.next = affected \ {r}]]
    /\ UNCHANGED <<runs, lock, runner, silences, crashes, cancels>>

(* Somebody is busy with the job. *)
Attended(j) == \/ \E w \in Runners : runner[w].job = j
               \/ \E t \in Threads : thread[t].job = j

(* Time passes: a heartbeat or a start gets older than its cutoff.  While  *)
(* somebody is busy with the job this takes minutes of lost heartbeats or  *)
(* of a stalled handler, unless the job is still waiting in the queue.     *)
Age(j) ==
    /\ Exists(j)
    /\ \/ jobs[j].beat = "fresh" /\ jobs' = [jobs EXCEPT ![j].beat = "old"]
       \/ /\ jobs[j].beat = "none" /\ jobs[j].base = "fresh"
          /\ jobs' = [jobs EXCEPT ![j].base = "old"]
    /\ silences' = silences +
                     (IF Attended(j) /\ jobs[j].status # "queued" THEN 1 ELSE 0)
    /\ silences' <= MaxSilences
    /\ UNCHANGED <<runs, lock, thread, runner, won, losses, crashes, cancels>>

-----------------------------------------------------------------------------
(* CancelWorkflowRun.                                                      *)

(* The run is read and is not completed. *)
BeginCancel(t) ==
    /\ At(t, "idle")
    /\ cancels < MaxCancels
    /\ cancels' = cancels + 1
    /\ \E r \in Created :
         /\ runs[r].status # "completed"
         /\ thread' = [thread EXCEPT ![t] = [Idle EXCEPT !.pc = "cancelRun", !.run = r]]
    /\ UNCHANGED <<runs, jobs, lock, runner, won, losses, silences, crashes>>

CancelRun(t) ==
    /\ At(t, "cancelRun")
    /\ \E ok \in BOOLEAN :
         /\ Outcome(ok)
         /\ CompleteWorkflowRun(thread[t].run, "cancelled", ok)
         /\ thread' = [thread EXCEPT ![t] =
                         IF ok THEN [@ EXCEPT !.pc = "listLive"] ELSE Idle]
    /\ UNCHANGED <<jobs, lock, runner, won, silences, crashes, cancels>>

ListLive(t) ==
    /\ At(t, "listLive")
    /\ LET live == {j \in JobsOf(thread[t].run) :
                       Exists(j) /\ jobs[j].status # "completed"} IN
       \E ok \in BOOLEAN :
         /\ Outcome(ok)
         /\ thread' = [thread EXCEPT ![t] =
                         IF ok /\ live # {}
                           THEN [@ EXCEPT !.pc = "cancelJobs", !.todo = live] ELSE Idle]
    /\ UNCHANGED <<runs, jobs, lock, runner, won, silences, crashes, cancels>>

CancelJob(t) ==
    /\ At(t, "cancelJobs")
    /\ \E j \in thread[t].todo, ok \in BOOLEAN :
         /\ Outcome(ok)
         /\ CompleteJob(j, "cancelled", ok)
         /\ IF thread[t].todo = {j} THEN thread' = [thread EXCEPT ![t] = Idle]
                                    ELSE Strike(t, j, "cancelJobs", "cancelJobs")
    /\ UNCHANGED <<runs, lock, runner, silences, crashes, cancels>>

-----------------------------------------------------------------------------
(* TriggerCI, and DispatchWorkflow, RerunWorkflowRun and                   *)
(* checkAndTriggerSchedule, which create a run without the group's lock.   *)

CreatePCs == {"cancelOld", "releaseOld", "number", "insert"}
Room == Cardinality(Created) + Cardinality({t \in All : thread[t].pc \in CreatePCs})
          < MaxRuns

(* The group's lock is read.  A busy group is skipped, or its run is to be *)
(* cancelled; a failed read counts as no lock.                             *)
BeginTrigger(t) ==
    /\ At(t, "idle") /\ Room
    /\ \E ok \in BOOLEAN :
         /\ Outcome(ok)
         /\ ok /\ lock # NoRun => Concurrency = "cancel"
         /\ thread' = [thread EXCEPT ![t] =
              [Idle EXCEPT !.pc = IF ok /\ lock # NoRun THEN "cancelOld" ELSE "number",
                           !.run = lock, !.grouped = (Concurrency # "none")]]
    /\ UNCHANGED <<runs, jobs, lock, runner, won, silences, crashes, cancels>>

(* The old run is completed; its jobs are left as they are. *)
CancelOld(t) ==
    /\ At(t, "cancelOld")
    /\ \E ok \in BOOLEAN :
          Outcome(ok) /\ CompleteWorkflowRun(thread[t].run, "cancelled", ok)
    /\ Goto(t, "releaseOld")
    /\ UNCHANGED <<jobs, lock, runner, won, silences, crashes, cancels>>

ReleaseOld(t) ==
    /\ At(t, "releaseOld")
    /\ \E ok \in BOOLEAN : Outcome(ok) /\ ReleaseConcurrencyLock(thread[t].run, ok)
    /\ Goto(t, "number")
    /\ UNCHANGED <<runs, jobs, runner, won, silences, crashes, cancels>>

BeginUngrouped(t) ==
    /\ At(t, "idle") /\ Room
    /\ thread' = [thread EXCEPT ![t] = [Idle EXCEPT !.pc = "number"]]
    /\ UNCHANGED <<runs, jobs, lock, runner, won, losses, silences, crashes, cancels>>

(* SELECT COALESCE(MAX(run_number), 0) + 1. *)
IsNextNumber(n) == /\ \A r \in Created : runs[r].number < n
                   /\ n = 1 \/ \E r \in Created : runs[r].number = n - 1

PickNumber(t) ==
    /\ At(t, "number")
    /\ \/ /\ Outcome(TRUE)
          /\ \E n \in 1..(MaxRuns + 1) :
               /\ IsNextNumber(n)
               /\ thread' = [thread EXCEPT ![t] = [@ EXCEPT !.pc = "insert", !.number = n]]
       \/ Outcome(FALSE) /\ thread' = [thread EXCEPT ![t] = Idle]
    /\ UNCHANGED <<runs, jobs, lock, runner, won, silences, crashes, cancels>>

(* A fresh id. *)
NewRun == {r \in Runs \ Created : \A q \in Runs \ Created : r <= q}

(* INSERT INTO workflow_runs. *)
InsertRun(t) ==
    /\ At(t, "insert")
    /\ \E r \in NewRun, ok \in BOOLEAN :
         /\ Outcome(ok)
         /\ IF ok
              THEN /\ runs' = [runs EXCEPT ![r] =
                          [NoRow EXCEPT !.status = "queued", !.number = thread[t].number]]
                   /\ thread' = [thread EXCEPT ![t] =
                         [@ EXCEPT !.run = r, !.number = 1,
                                   !.pc = IF thread[t].grouped THEN "acquire" ELSE "create"]]
              ELSE thread' = [thread EXCEPT ![t] = Idle] /\ UNCHANGED runs
    /\ UNCHANGED <<jobs, lock, runner, won, silences, crashes, cancels>>

(* INSERT INTO concurrency_locks, whose group is UNIQUE; the result is not *)
(* looked at.                                                              *)
AcquireLock(t) ==
    /\ At(t, "acquire")
    /\ \E ok \in BOOLEAN :
         /\ Outcome(ok)
         /\ lock' = IF ok /\ lock = NoRun THEN thread[t].run ELSE lock
    /\ Goto(t, "create")
    /\ UNCHANGED <<runs, jobs, runner, won, silences, crashes, cancels>>

(* createJobsFromWorkflow: one INSERT per job; an error leaves the rest out. *)
CreateJob(t) ==
    /\ At(t, "create")
    /\ LET j == <<thread[t].run, JobOrder[thread[t].number]>> IN
       \E ok \in BOOLEAN :
         /\ Outcome(ok)
         /\ jobs'   = IF ok THEN [jobs EXCEPT ![j] = NewJob] ELSE jobs
         /\ thread' = [thread EXCEPT ![t] =
                         IF ok /\ thread[t].number < Len(JobOrder)
                           THEN [@ EXCEPT !.number = thread[t].number + 1] ELSE Idle]
    /\ UNCHANGED <<runs, lock, runner, won, silences, crashes, cancels>>

-----------------------------------------------------------------------------
(* The control plane dies and restarts: its goroutines are gone, and the   *)
(* runners that waited for them get an error.                              *)
CrashServer ==
    /\ crashes < MaxCrashes
    /\ crashes' = crashes + 1
    /\ thread'  = [t \in All |-> Idle]
    /\ runner'  = [w \in Runners |-> IF runner[w].thread = NoThread THEN runner[w]
                                     ELSE Resume(w, FALSE, NoJob)]
    /\ UNCHANGED <<runs, jobs, lock, won, losses, silences, cancels>>

CheckStep(t) ==
    ListJobs(t) \/ CancelBlocked(t) \/ ReadVerdict(t) \/ Conclude(t) \/ Release(t)

(* A goroutine executes the next statement of its handler. *)
HandlerStep(t) ==
    \/ SelectJob(t) \/ ClaimJob(t)
    \/ StartJob(t) \/ FirstHeartbeat(t) \/ ReadRun(t) \/ MarkRun(t)
    \/ FinishJob(t) \/ CheckStep(t)
    \/ CancelRun(t) \/ ListLive(t) \/ CancelJob(t)
    \/ CancelOld(t) \/ ReleaseOld(t) \/ PickNumber(t) \/ InsertRun(t)
    \/ AcquireLock(t) \/ CreateJob(t)

ReaperStep == SelectStale \/ FailStale \/ CheckStep(Reaper)

RunnerStep(w, t) == Poll(w, t) \/ Start(w, t) \/ Finish(w, t) \/ Report(w, t)

UserStep(t) == BeginTrigger(t) \/ BeginUngrouped(t) \/ BeginCancel(t)

Next ==
    \/ \E t \in Threads : HandlerStep(t) \/ UserStep(t)
    \/ \E t \in Threads, w \in Runners : RunnerStep(w, t)
    \/ \E w \in Runners :
          ExecuteError(w) \/ Heartbeat(w) \/ TimeOut(w) \/ RestartRunner(w)
    \/ \E j \in Jobs : Age(j)
    \/ ReaperStep
    \/ CrashServer

Spec == Init /\ [][Next]_vars

(* Handlers run to their end, the scheduler ticks, time passes, a job's    *)
(* timeout ends it, and the server accepts every request in the end.       *)
FairSpec ==
    /\ Spec
    /\ \A t \in Threads : WF_vars(HandlerStep(t))
    /\ WF_vars(ReaperStep)
    /\ \A w \in Runners : SF_vars(\E t \in Threads : RunnerStep(w, t))
    /\ \A j \in Jobs : WF_vars(~Attended(j) /\ Age(j))

-----------------------------------------------------------------------------
(* Properties.                                                             *)

Conclusions == {"none", "success", "failure", "cancelled"}
PCs == {"idle", "select", "claim", "start", "beat", "readRun", "markRun", "complete",
        "list", "cascade", "verdict", "conclude", "release", "reap",
        "cancelRun", "listLive", "cancelJobs", "acquire", "create"} \cup CreatePCs

RunRow  == [status : {"absent", "queued", "in_progress", "completed"},
            conclusion : Conclusions, number : Nat]
JobRow  == [status : {"absent", "queued", "pending", "in_progress", "completed"},
            conclusion : Conclusions,
            beat : {"none", "fresh", "old"}, base : {"fresh", "old"}]
Request == [pc : PCs, run : Runs \cup {NoRun}, job : Jobs \cup {NoJob},
            todo : SUBSET Jobs, next : SUBSET Runs, word : Conclusions,
            number : Nat, grouped : BOOLEAN]
Working == {"claimed", "starting", "running", "completing", "failed", "reporting"}
Worker  == [phase : {"idle", "claiming"} \cup Working,
            job : Jobs \cup {NoJob}, thread : Threads \cup {NoThread}]

TypeOK ==
    /\ runs   \in [Runs -> RunRow]
    /\ jobs   \in [Jobs -> JobRow]
    /\ lock   \in Runs \cup {NoRun}
    /\ thread \in [All -> Request]
    /\ runner \in [Runners -> Worker]
    /\ won \subseteq Jobs
    /\ losses \in 0..MaxLosses /\ silences \in 0..MaxSilences
    /\ crashes \in 0..MaxCrashes /\ cancels \in 0..MaxCancels

(* A job is given to one runner only, however polls, timeouts, restarts    *)
(* and cancellations interleave.  ClaimJob's UPDATE repeats the test of    *)
(* its SELECT, and nothing ever puts a job back into the queue.            *)
ClaimedOnce ==
    \A w, v \in Runners :
        runner[w].job # NoJob /\ runner[w].job = runner[v].job => w = v

(* ci-workflows.md: downstream jobs start when dependencies succeed.  A    *)
(* job that is pending or in progress needs only jobs that have concluded  *)
(* with success, even when its row was completed in the meantime and a     *)
(* late StartJob revived it.                                               *)
NeedsBeforeRun ==
    \A j \in Jobs :
        jobs[j].status \in {"pending", "in_progress"} => NeedsOf(j) \subseteq won

(* Nobody is working on run r. *)
Quiet(r) ==
    /\ \A t \in All : /\ thread[t].run # r /\ r \notin thread[t].next
                      /\ thread[t].todo \cap JobsOf(r) = {}
                      /\ thread[t].job \notin JobsOf(r)
    /\ \A w \in Runners : runner[w].job \notin JobsOf(r)

(* All jobs of run r are completed and nobody is working on it any more. *)
RowsOf(r)  == {j \in DOMAIN jobs : j[1] = r /\ Exists(j)}
Settled(r) == Quiet(r) /\ RowsOf(r) # {} /\ \A j \in RowsOf(r) : jobs[j].status = "completed"

(* So far every statement has been executed and every answer has arrived,  *)
(* and neither a runner nor the control plane has restarted.               *)
Undisturbed == losses = 0 /\ crashes = 0

(* api/ci.go: checkAndCompleteWorkflowRun checks if all jobs are complete  *)
(* and updates the run.  The last completion is never lost: a settled run  *)
(* is completed, although every handler that completes a job looks at the  *)
(* others' rows in separate statements, a reaped job may still complete,   *)
(* and jobs are being created while the first ones complete.  It holds as  *)
(* long as no user has cancelled a run.                                    *)
SettledRunsComplete ==
    Undisturbed /\ cancels = 0 =>
        \A r \in Created : Settled(r) => runs[r].status = "completed"

(* A run that ended by itself does not keep the concurrency group: no      *)
(* completion overtakes the acquisition of the lock.                       *)
LockReturned ==
    Undisturbed =>
        \A r \in Created :
            Quiet(r) /\ runs[r].conclusion \in {"success", "failure"} => lock # r

(* Every claimed job ends, by its runner or by the reaper, when answers    *)
(* are lost, runners restart or the server dies between two statements.    *)
ClaimedJobsEnd ==
    \A j \in Jobs :
        jobs[j].status \in {"pending", "in_progress"} ~> jobs[j].status = "completed"

-----------------------------------------------------------------------------
(* What the repository says of runs and the handlers contradict.           *)

(* ci-workflows.md: If a job fails, dependent jobs are cancelled and the   *)
(* run completes as failed.                                                *)
FailedRunsComplete ==
    \A j \in Jobs : jobs[j].conclusion = "failure" ~> runs[j[1]].status = "completed"
=============================================================================
