----------------------------- MODULE CIRunsProofs -----------------------------
(***************************************************************************)
(* Proofs about CIRuns for every workflow, set of runners, set of          *)
(* goroutines and bound: type correctness, that no job runs before the     *)
(* jobs it needs have succeeded, and that no two runners hold one job.     *)
(* When no statement fails and the control plane does not restart: that a  *)
(* run which ended by itself gives the concurrency group back, and that    *)
(* the last completion of a job completes its run.                         *)
(***************************************************************************)
EXTENDS CIRuns, TLAPS

(* Where a goroutine has a job, a run, or is about to create jobs. *)
JobPCs  == {"claim", "start", "beat", "readRun", "markRun", "complete"}
RunPCs  == {"list", "cascade", "verdict", "conclude", "release", "cancelRun",
            "listLive", "cancelJobs", "cancelOld", "releaseOld", "acquire", "create"}
MakePCs == {"acquire", "create"}

Placed(x) == /\ x.pc \in JobPCs  => x.job \in Jobs
             /\ x.pc \in RunPCs  => x.run \in Runs
             /\ x.pc \in MakePCs => x.number \in 1..Len(JobOrder)

ThreadInv == \A t \in All : Placed(thread[t])

RunnerInv ==
    \A w \in Runners : IF runner[w].phase \in Working THEN runner[w].job \in Jobs
                                                      ELSE runner[w].job = NoJob

TypeInv == TypeOK /\ ThreadInv /\ RunnerInv

LEMMA Constants ==
    /\ NoRun \notin Runs
    /\ NoJob \notin Jobs
    /\ Reaper \in All /\ Threads \subseteq All /\ NoThread \notin All
    /\ Len(JobOrder) \in Nat /\ 1 \in 1..Len(JobOrder)
    /\ \A i \in 1..Len(JobOrder) : JobOrder[i] \in Names
    /\ \A j \in Jobs : j[1] \in Runs /\ j[2] \in Names /\ j = <<j[1], j[2]>>
    /\ \A r \in Runs, n \in Names : <<r, n>> \in Jobs
    /\ \A j \in Jobs : NeedsOf(j) \subseteq Jobs
    /\ \A r \in Runs : JobsOf(r) \subseteq Jobs
<1>1. Len(JobOrder) \in Nat /\ DOMAIN JobOrder = 1..Len(JobOrder)
  BY CIRunsAssumption
<1>2. \A i \in 1..Len(JobOrder) : JobOrder[i] \in Names
  BY <1>1 DEF Names
<1>3. \A j \in Jobs : NeedsOf(j) \subseteq Jobs
  BY CIRunsAssumption DEF NeedsOf, Jobs
<1>4. /\ \A j \in Jobs : j[1] \in Runs /\ j[2] \in Names /\ j = <<j[1], j[2]>>
      /\ \A r \in Runs, n \in Names : <<r, n>> \in Jobs
      /\ \A r \in Runs : JobsOf(r) \subseteq Jobs
  BY DEF Jobs, JobsOf
<1> QED BY <1>1, <1>2, <1>3, <1>4, CIRunsAssumption DEF Runs, NoRun, Jobs, All

(* The records a goroutine and a runner start from are well-typed. *)
LEMMA Records ==
    /\ Idle \in Request /\ Idle.pc = "idle" /\ Idle.todo = {} /\ Idle.job = NoJob
    /\ Resting \in Worker /\ Resting.phase = "idle" /\ Resting.job = NoJob
    /\ Resting.thread = NoThread
    /\ NewJob \in JobRow /\ NewJob.status = "queued" /\ NewJob.conclusion = "none"
    /\ NoRow \in RunRow
BY DEF Idle, Request, Resting, Worker, NewJob, JobRow, NoRow, RunRow, PCs, Conclusions

LEMMA InitType == Init => TypeInv
<1> SUFFICES ASSUME Init PROVE TypeInv
  OBVIOUS
<1> USE Records, Constants DEF Init
<1>1. runs \in [Runs -> RunRow] /\ jobs \in [Jobs -> JobRow]
  BY DEF NewJob, NoRow, RunRow, JobRow, Conclusions
<1>2. thread \in [All -> Request] /\ runner \in [Runners -> Worker]
  OBVIOUS
<1>3. losses \in 0..MaxLosses /\ silences \in 0..MaxSilences
      /\ crashes \in 0..MaxCrashes /\ cancels \in 0..MaxCancels
  BY CIRunsAssumption
<1>4. ThreadInv
  BY DEF ThreadInv, Placed, JobPCs, RunPCs, MakePCs
<1>5. RunnerInv
  BY DEF RunnerInv, Working
<1> QED BY <1>1, <1>2, <1>3, <1>4, <1>5 DEF TypeInv, TypeOK

(* What a runner makes of an answer is well-typed. *)
LEMMA ResumeType ==
    ASSUME TypeInv, NEW w \in Runners, NEW good \in BOOLEAN, NEW j \in Jobs \cup {NoJob}
    PROVE  /\ Resume(w, good, j) \in Worker
           /\ Resume(w, good, j).thread = NoThread
           /\ Resume(w, good, j).job \in {NoJob, runner[w].job, j}
           /\ IF Resume(w, good, j).phase \in Working
                THEN Resume(w, good, j).job \in Jobs ELSE Resume(w, good, j).job = NoJob
<1> USE Records, Constants
<1>1. runner[w] \in Worker
      /\ (IF runner[w].phase \in Working THEN runner[w].job \in Jobs ELSE runner[w].job = NoJob)
  BY DEF TypeInv, TypeOK, RunnerInv
<1> DEFINE C1 == runner[w].phase = "claiming" /\ good /\ j # NoJob
           C2 == runner[w].phase = "starting" /\ good
           C3 == runner[w].phase \in {"starting", "completing"} /\ ~good
<1>2. CASE C1
  <2>1. Resume(w, good, j) = [phase |-> "claimed", job |-> j, thread |-> NoThread]
    BY <1>2 DEF Resume
  <2> QED BY <2>1, <1>2 DEF Worker, Working
<1>3. CASE C2
  <2>1. Resume(w, good, j) = [runner[w] EXCEPT !.phase = "running", !.thread = NoThread]
    BY <1>3 DEF Resume
  <2> QED BY <2>1, <1>1, <1>3 DEF Worker, Working
<1>4. CASE C3
  <2>1. Resume(w, good, j) = [runner[w] EXCEPT !.phase = "failed", !.thread = NoThread]
    BY <1>4 DEF Resume
  <2> QED BY <2>1, <1>1, <1>4 DEF Worker, Working
<1>5. CASE ~C1 /\ ~C2 /\ ~C3
  <2>1. Resume(w, good, j) = Resting
    BY <1>5 DEF Resume
  <2> QED BY <2>1, <1>1 DEF Worker, Working
<1> QED BY <1>2, <1>3, <1>4, <1>5

(* An answer leaves the runners well-typed. *)
LEMMA AnswerType ==
    ASSUME TypeInv, NEW t \in All, NEW good \in BOOLEAN, NEW j \in Jobs \cup {NoJob},
           Answer(t, good, j)
    PROVE  /\ thread' \in [All -> Request] /\ runner' \in [Runners -> Worker]
           /\ ThreadInv' /\ RunnerInv'
<1> USE Records, Constants
<1>1. thread \in [All -> Request] /\ runner \in [Runners -> Worker]
  BY DEF TypeInv, TypeOK
<1>2. thread' \in [All -> Request] /\ thread'[t] = Idle
      /\ \A u \in All \ {t} : thread'[u] = thread[u]
  BY <1>1 DEF Answer
<1>3. ThreadInv'
  BY <1>2 DEF TypeInv, ThreadInv, Placed, JobPCs, RunPCs, MakePCs
<1>4. \A w \in Runners :
         /\ Resume(w, good, j) \in Worker
         /\ IF Resume(w, good, j).phase \in Working
              THEN Resume(w, good, j).job \in Jobs ELSE Resume(w, good, j).job = NoJob
  BY ResumeType
<1>5. runner' = [w \in Runners |->
                   IF runner[w].thread = t THEN Resume(w, good, j) ELSE runner[w]]
  BY DEF Answer
<1>6. runner' \in [Runners -> Worker] /\ RunnerInv'
  BY <1>1, <1>4, <1>5 DEF TypeInv, RunnerInv
<1> QED BY <1>2, <1>3, <1>6

(* A goroutine's own progress keeps the goroutines well-typed. *)
LEMMA ThreadType ==
    ASSUME TypeInv, NEW t \in All, NEW x \in Request, Placed(x),
           thread' = [thread EXCEPT ![t] = x]
    PROVE  thread' \in [All -> Request] /\ ThreadInv'
BY DEF TypeInv, TypeOK, ThreadInv, Placed

LEMMA GotoType ==
    ASSUME TypeInv, NEW t \in All, NEW p \in PCs, Goto(t, p),
           Placed([thread[t] EXCEPT !.pc = p])
    PROVE  thread' \in [All -> Request] /\ ThreadInv'
<1>1. thread[t] \in Request
  BY DEF TypeInv, TypeOK
<1>2. [thread[t] EXCEPT !.pc = p] \in Request
  BY <1>1 DEF Request
<1>3. thread' = [thread EXCEPT ![t] = [thread[t] EXCEPT !.pc = p]]
  BY DEF Goto
<1> QED BY <1>2, <1>3, ThreadType

(* The writes of the tables keep the rows well-typed. *)
LEMMA WriteType ==
    ASSUME TypeInv, NEW ok \in BOOLEAN, NEW c \in Conclusions, NEW j \in Jobs, NEW r \in Runs
    PROVE  /\ CompleteJob(j, c, ok) => jobs' \in [Jobs -> JobRow] /\ won' \subseteq Jobs
           /\ HeartbeatJob(j, ok) => jobs' \in [Jobs -> JobRow]
           /\ CompleteWorkflowRun(r, c, ok) => runs' \in [Runs -> RunRow]
           /\ ReleaseConcurrencyLock(r, ok) => lock' \in Runs \cup {NoRun}
           /\ Outcome(ok) => losses' \in 0..MaxLosses
<1> USE DEF TypeInv, TypeOK
<1>1. CompleteJob(j, c, ok) => jobs' \in [Jobs -> JobRow] /\ won' \subseteq Jobs
  <2>1. jobs[j] \in JobRow
    OBVIOUS
  <2>2. [jobs[j] EXCEPT !.status = "completed", !.conclusion = c] \in JobRow
    BY <2>1 DEF JobRow
  <2> QED BY <2>2 DEF CompleteJob
<1>2. HeartbeatJob(j, ok) => jobs' \in [Jobs -> JobRow]
  BY DEF HeartbeatJob, JobRow
<1>3. CompleteWorkflowRun(r, c, ok) => runs' \in [Runs -> RunRow]
  <2>1. runs[r] \in RunRow
    OBVIOUS
  <2>2. [runs[r] EXCEPT !.status = "completed", !.conclusion = c] \in RunRow
    BY <2>1 DEF RunRow
  <2> QED BY <2>2 DEF CompleteWorkflowRun
<1>4. ReleaseConcurrencyLock(r, ok) => lock' \in Runs \cup {NoRun}
  BY DEF ReleaseConcurrencyLock
<1>5. Outcome(ok) => losses' \in 0..MaxLosses
  BY CIRunsAssumption DEF Outcome
<1> QED BY <1>1, <1>2, <1>3, <1>4, <1>5

(* Rows after an UPDATE of some columns. *)
LEMMA RowType ==
    /\ \A x \in JobRow :
          /\ [x EXCEPT !.status = "pending"] \in JobRow
          /\ [x EXCEPT !.status = "in_progress", !.base = "fresh"] \in JobRow
          /\ [x EXCEPT !.beat = "fresh"] \in JobRow
          /\ [x EXCEPT !.beat = "old"] \in JobRow
          /\ [x EXCEPT !.base = "old"] \in JobRow
    /\ \A x \in RunRow : [x EXCEPT !.status = "in_progress"] \in RunRow
<1>1. ASSUME NEW x \in JobRow
      PROVE  /\ [x EXCEPT !.status = "pending"] \in JobRow
             /\ [x EXCEPT !.status = "in_progress", !.base = "fresh"] \in JobRow
             /\ [x EXCEPT !.beat = "fresh"] \in JobRow
             /\ [x EXCEPT !.beat = "old"] \in JobRow
             /\ [x EXCEPT !.base = "old"] \in JobRow
  BY DEF JobRow
<1>2. ASSUME NEW x \in RunRow PROVE [x EXCEPT !.status = "in_progress"] \in RunRow
  BY DEF RunRow
<1> QED BY <1>1, <1>2

(* Requests in the making. *)
LEMMA RequestType ==
    \A p \in PCs, r \in Runs \cup {NoRun} :
      /\ [Idle EXCEPT !.pc = p] \in Request
      /\ [Idle EXCEPT !.pc = p, !.run = r] \in Request
      /\ \A j \in Jobs : [Idle EXCEPT !.pc = p, !.job = j] \in Request
      /\ \A j \in Jobs, c \in Conclusions :
            [Idle EXCEPT !.pc = p, !.job = j, !.word = c] \in Request
      /\ \A N \in SUBSET Runs : [Idle EXCEPT !.pc = p, !.run = r, !.next = N] \in Request
      /\ \A S \in SUBSET Jobs : [Idle EXCEPT !.pc = p, !.todo = S] \in Request
      /\ \A g \in BOOLEAN : [Idle EXCEPT !.pc = p, !.run = r, !.grouped = g] \in Request
<1> SUFFICES ASSUME NEW p \in PCs, NEW r \in Runs \cup {NoRun}
             PROVE  /\ [Idle EXCEPT !.pc = p] \in Request
                    /\ [Idle EXCEPT !.pc = p, !.run = r] \in Request
                    /\ \A j \in Jobs : [Idle EXCEPT !.pc = p, !.job = j] \in Request
                    /\ \A j \in Jobs, c \in Conclusions :
                          [Idle EXCEPT !.pc = p, !.job = j, !.word = c] \in Request
                    /\ \A N \in SUBSET Runs :
                          [Idle EXCEPT !.pc = p, !.run = r, !.next = N] \in Request
                    /\ \A S \in SUBSET Jobs : [Idle EXCEPT !.pc = p, !.todo = S] \in Request
                    /\ \A g \in BOOLEAN :
                          [Idle EXCEPT !.pc = p, !.run = r, !.grouped = g] \in Request
  OBVIOUS
<1> USE Records DEF Request
<1>1. [Idle EXCEPT !.pc = p] \in Request /\ [Idle EXCEPT !.pc = p, !.run = r] \in Request
  OBVIOUS
<1>2. \A j \in Jobs : [Idle EXCEPT !.pc = p, !.job = j] \in Request
  OBVIOUS
<1>3. \A j \in Jobs, c \in Conclusions :
          [Idle EXCEPT !.pc = p, !.job = j, !.word = c] \in Request
  OBVIOUS
<1>4. \A N \in SUBSET Runs : [Idle EXCEPT !.pc = p, !.run = r, !.next = N] \in Request
  OBVIOUS
<1>5. \A S \in SUBSET Jobs : [Idle EXCEPT !.pc = p, !.todo = S] \in Request
  OBVIOUS
<1>6. \A g \in BOOLEAN : [Idle EXCEPT !.pc = p, !.run = r, !.grouped = g] \in Request
  OBVIOUS
<1> QED BY <1>1, <1>2, <1>3, <1>4, <1>5, <1>6

(* The parts of the type invariant: the goroutines and runners, the        *)
(* tables, and what the bounds count.                                      *)
ProcsOK    == /\ thread \in [All -> Request] /\ runner \in [Runners -> Worker]
              /\ ThreadInv /\ RunnerInv
TablesOK   == /\ runs \in [Runs -> RunRow] /\ jobs \in [Jobs -> JobRow]
              /\ lock \in Runs \cup {NoRun} /\ won \subseteq Jobs
CountersOK == /\ losses \in 0..MaxLosses /\ silences \in 0..MaxSilences
              /\ crashes \in 0..MaxCrashes /\ cancels \in 0..MaxCancels

LEMMA Parts == /\ TypeInv <=> ProcsOK /\ TablesOK /\ CountersOK
               /\ TypeInv' <=> ProcsOK' /\ TablesOK' /\ CountersOK'
BY DEF TypeInv, TypeOK, ProcsOK, TablesOK, CountersOK

LEMMA ProcsAnswer ==
    ASSUME TypeInv, NEW t \in All, NEW good \in BOOLEAN, NEW j \in Jobs \cup {NoJob},
           Answer(t, good, j)
    PROVE  ProcsOK'
BY AnswerType DEF ProcsOK

LEMMA ProcsThread ==
    ASSUME TypeInv, NEW t \in All, NEW x \in Request, Placed(x),
           thread' = [thread EXCEPT ![t] = x], UNCHANGED runner
    PROVE  ProcsOK'
<1>1. thread' \in [All -> Request] /\ ThreadInv'
  BY ThreadType
<1> QED BY <1>1 DEF ProcsOK, TypeInv, TypeOK, RunnerInv

LEMMA ProcsGoto ==
    ASSUME TypeInv, NEW t \in All, NEW p \in PCs, Goto(t, p),
           Placed([thread[t] EXCEPT !.pc = p]), UNCHANGED runner
    PROVE  ProcsOK'
<1>1. thread' \in [All -> Request] /\ ThreadInv'
  BY GotoType
<1> QED BY <1>1 DEF ProcsOK, TypeInv, TypeOK, RunnerInv

LEMMA ProcsEndCheck ==
    ASSUME TypeInv, NEW t \in All, EndCheck(t)
    PROVE  ProcsOK'
<1>1. CASE Answer(t, TRUE, NoJob)
  BY <1>1, ProcsAnswer
<1>2. CASE /\ \E r \in thread[t].next :
                thread' = [thread EXCEPT ![t] = [Idle EXCEPT !.pc = "list", !.run = r,
                                                 !.next = thread[t].next \ {r}]]
           /\ UNCHANGED runner
  <2>1. PICK r \in thread[t].next :
            thread' = [thread EXCEPT ![t] = [Idle EXCEPT !.pc = "list", !.run = r,
                                             !.next = thread[t].next \ {r}]]
    BY <1>2
  <2> DEFINE x == [Idle EXCEPT !.pc = "list", !.run = r, !.next = thread[t].next \ {r}]
  <2>2. thread[t].next \subseteq Runs
    BY DEF TypeInv, TypeOK, Request
  <2>3. x \in Request
    <3>1. "list" \in PCs /\ "none" \in Conclusions
      BY DEF PCs, Conclusions
    <3>2. thread[t].next \ {r} \in SUBSET Runs
      BY <2>2
    <3> QED BY <2>2, <3>1, <3>2, RequestType
  <2>4. Placed(x)
    BY <2>2, Records DEF Placed, JobPCs, RunPCs, MakePCs, Idle
  <2> QED BY <1>2, <2>1, <2>3, <2>4, ProcsThread
<1> QED BY <1>1, <1>2 DEF EndCheck

LEMMA ProcsSend ==
    ASSUME TypeInv, NEW w \in Runners, NEW t \in Threads, NEW p, NEW q, NEW x \in Request,
           Send(w, t, p, q, x), Placed(x),
           \/ p = "idle" /\ q = "claiming"
           \/ p \in Working /\ q \in Working
    PROVE  ProcsOK'
<1>1. thread' \in [All -> Request] /\ ThreadInv'
  BY ThreadType, Constants DEF Send
<1>2. runner[w] \in Worker /\ runner[w].phase = p
  BY DEF Send, TypeInv, TypeOK
<1> DEFINE y == [runner[w] EXCEPT !.phase = q, !.thread = t]
<1>3. y \in Worker /\ y.phase = q /\ y.job = runner[w].job
  BY <1>2 DEF Worker
<1>4. runner' = [runner EXCEPT ![w] = y]
  BY DEF Send
<1>5. runner' \in [Runners -> Worker]
  BY <1>3, <1>4 DEF TypeInv, TypeOK
<1>6. IF y.phase \in Working THEN y.job \in Jobs ELSE y.job = NoJob
  BY <1>2, <1>3 DEF TypeInv, RunnerInv, Working
<1>7. RunnerInv'
  <2> HIDE DEF y
  <2> QED BY <1>4, <1>6 DEF TypeInv, TypeOK, RunnerInv
<1> QED BY <1>1, <1>5, <1>7 DEF ProcsOK

(* Claiming and starting a job preserve the type invariant. *)
LEMMA ClaimStartType ==
    ASSUME TypeInv, NEW t \in Threads,
           \/ SelectJob(t) \/ ClaimJob(t) \/ StartJob(t) \/ FirstHeartbeat(t)
           \/ ReadRun(t) \/ MarkRun(t)
    PROVE  TypeInv'
<1> USE Constants, Parts
<1>0. /\ t \in All /\ thread[t] \in Request /\ Placed(thread[t])
      /\ ProcsOK /\ TablesOK /\ CountersOK
  BY DEF ProcsOK, ThreadInv
<1>1. CASE SelectJob(t)
  <2>1. TablesOK' /\ CountersOK'
    <3>1. PICK ok \in BOOLEAN : Outcome(ok)
      BY <1>1 DEF SelectJob
    <3>2. losses' \in 0..MaxLosses
      BY <1>0, <3>1, CIRunsAssumption DEF Outcome, CountersOK
    <3> QED BY <1>0, <1>1, <3>2 DEF SelectJob, TablesOK, CountersOK
  <2>2. CASE \E j \in {k \in Jobs : Claimable(k)} :
                /\ thread' = [thread EXCEPT ![t] = [@ EXCEPT !.pc = "claim", !.job = j]]
                /\ UNCHANGED runner
    <3>1. PICK j \in Jobs :
            thread' = [thread EXCEPT ![t] = [thread[t] EXCEPT !.pc = "claim", !.job = j]]
      BY <2>2
    <3> DEFINE x == [thread[t] EXCEPT !.pc = "claim", !.job = j]
    <3>2. x \in Request /\ x.pc = "claim" /\ x.job = j
      BY <1>0 DEF Request, PCs
    <3>3. Placed(x)
      BY <3>2 DEF Placed, JobPCs, RunPCs, MakePCs
    <3>4. ProcsOK'
      BY <1>0, <2>2, <3>1, <3>2, <3>3, ProcsThread
    <3> QED BY <2>1, <3>4
  <2>3. CASE \E ok \in BOOLEAN : Answer(t, ok, NoJob)
    BY <1>0, <2>1, <2>3, ProcsAnswer
  <2> QED BY <1>1, <2>2, <2>3 DEF SelectJob
<1>2. CASE ClaimJob(t)
  <2>1. thread[t].job \in Jobs
    BY <1>0, <1>2 DEF ClaimJob, At, Placed, JobPCs
  <2>2. jobs' \in [Jobs -> JobRow]
    <3>1. [jobs[thread[t].job] EXCEPT !.status = "pending"] \in JobRow
      BY <1>0, <2>1, RowType DEF TablesOK
    <3> QED BY <1>0, <1>2, <2>1, <3>1 DEF ClaimJob, TablesOK
  <2>3. TablesOK' /\ CountersOK'
    BY <1>0, <1>2, <2>2, CIRunsAssumption DEF ClaimJob, Outcome, TablesOK, CountersOK
  <2>4. \E ok \in BOOLEAN, j \in Jobs \cup {NoJob} : Answer(t, ok, j)
    BY <1>2, <2>1 DEF ClaimJob
  <2>5. ProcsOK'
    BY <1>0, <2>4, ProcsAnswer
  <2> QED BY <2>3, <2>5
<1>3. CASE StartJob(t)
  <2>1. thread[t].job \in Jobs /\ thread[t].pc = "start"
    BY <1>0, <1>3 DEF StartJob, At, Placed, JobPCs
  <2>2. [jobs[thread[t].job] EXCEPT !.status = "in_progress", !.base = "fresh"] \in JobRow
    BY <1>0, <2>1, RowType DEF TablesOK
  <2>3. jobs' \in [Jobs -> JobRow]
    BY <1>0, <1>3, <2>1, <2>2 DEF StartJob, TablesOK
  <2>4. TablesOK' /\ CountersOK'
    BY <1>0, <1>3, <2>3, CIRunsAssumption DEF StartJob, Outcome, TablesOK, CountersOK
  <2>5. CASE Goto(t, "beat") /\ UNCHANGED runner
    <3>1. Placed([thread[t] EXCEPT !.pc = "beat"]) /\ "beat" \in PCs
      BY <1>0, <2>1 DEF Placed, Request, JobPCs, RunPCs, MakePCs, PCs
    <3> QED BY <1>0, <2>4, <2>5, <3>1, ProcsGoto
  <2>6. CASE Answer(t, FALSE, NoJob)
    BY <1>0, <2>4, <2>6, ProcsAnswer
  <2> QED BY <1>3, <2>5, <2>6 DEF StartJob
<1>4. CASE FirstHeartbeat(t)
  <2>1. thread[t].job \in Jobs /\ thread[t].pc = "beat"
    BY <1>0, <1>4 DEF FirstHeartbeat, At, Placed, JobPCs
  <2>2. TablesOK' /\ CountersOK'
    <3>2. jobs' \in [Jobs -> JobRow]
      BY <1>0, <1>4, <2>1 DEF FirstHeartbeat, HeartbeatJob, TablesOK, JobRow
    <3>3. losses' \in 0..MaxLosses
      BY <1>0, <1>4, CIRunsAssumption DEF FirstHeartbeat, Outcome, CountersOK
    <3> QED BY <1>0, <1>4, <3>2, <3>3 DEF FirstHeartbeat, TablesOK, CountersOK
  <2>3. Placed([thread[t] EXCEPT !.pc = "readRun"]) /\ "readRun" \in PCs
    BY <1>0, <2>1 DEF Placed, Request, JobPCs, RunPCs, MakePCs, PCs
  <2>4. ProcsOK'
    BY <1>0, <1>4, <2>3, ProcsGoto DEF FirstHeartbeat
  <2> QED BY <2>2, <2>4
<1>5. CASE ReadRun(t)
  <2>1. thread[t].job \in Jobs /\ thread[t].pc = "readRun"
    BY <1>0, <1>5 DEF ReadRun, At, Placed, JobPCs
  <2>2. TablesOK' /\ CountersOK'
    BY <1>0, <1>5, CIRunsAssumption DEF ReadRun, Outcome, TablesOK, CountersOK
  <2>3. CASE Goto(t, "markRun") /\ UNCHANGED runner
    <3>1. Placed([thread[t] EXCEPT !.pc = "markRun"]) /\ "markRun" \in PCs
      BY <1>0, <2>1 DEF Placed, Request, JobPCs, RunPCs, MakePCs, PCs
    <3> QED BY <1>0, <2>2, <2>3, <3>1, ProcsGoto
  <2>4. CASE Answer(t, TRUE, NoJob)
    BY <1>0, <2>2, <2>4, ProcsAnswer
  <2> QED BY <1>5, <2>3, <2>4 DEF ReadRun
<1>6. CASE MarkRun(t)
  <2>1. thread[t].job[1] \in Runs
    BY <1>0, <1>6 DEF MarkRun, At, Placed, JobPCs
  <2>2. runs' \in [Runs -> RunRow]
    <3>1. [runs[thread[t].job[1]] EXCEPT !.status = "in_progress"] \in RunRow
      BY <1>0, <2>1, RowType DEF TablesOK
    <3> QED BY <1>0, <1>6, <2>1, <3>1 DEF MarkRun, TablesOK
  <2>3. TablesOK' /\ CountersOK'
    BY <1>0, <1>6, <2>2, CIRunsAssumption DEF MarkRun, Outcome, TablesOK, CountersOK
  <2>4. ProcsOK'
    BY <1>0, <1>6, ProcsAnswer DEF MarkRun
  <2> QED BY <2>3, <2>4
<1> QED BY <1>1, <1>2, <1>3, <1>4, <1>5, <1>6

(* A failed or executed statement stays within its bound. *)
LEMMA CountersOutcome ==
    ASSUME CountersOK, NEW ok \in BOOLEAN, Outcome(ok), UNCHANGED <<silences, crashes, cancels>>
    PROVE  CountersOK'
BY CIRunsAssumption DEF Outcome, CountersOK

LEMMA TablesCompleteJob ==
    ASSUME TypeInv, NEW j \in Jobs, NEW c \in Conclusions, NEW ok \in BOOLEAN,
           CompleteJob(j, c, ok), UNCHANGED <<runs, lock>>
    PROVE  TablesOK'
<1>1. \A r \in Runs : jobs' \in [Jobs -> JobRow] /\ won' \subseteq Jobs
  BY WriteType
<1>2. j[1] \in Runs
  BY Constants
<1> QED BY <1>1, <1>2, Parts DEF TablesOK

LEMMA TablesCompleteRun ==
    ASSUME TypeInv, NEW r \in Runs, NEW c \in Conclusions, NEW ok \in BOOLEAN,
           CompleteWorkflowRun(r, c, ok), UNCHANGED <<jobs, lock, won>>
    PROVE  TablesOK'
<1>1. runs[r] \in RunRow /\ runs \in [Runs -> RunRow]
  BY DEF TypeInv, TypeOK
<1>2. [runs[r] EXCEPT !.status = "completed", !.conclusion = c] \in RunRow
  BY <1>1 DEF RunRow
<1>3. runs' \in [Runs -> RunRow]
  BY <1>1, <1>2 DEF CompleteWorkflowRun
<1> QED BY <1>3, Parts DEF TablesOK

LEMMA TablesRelease ==
    ASSUME TypeInv, NEW r \in Runs, NEW ok \in BOOLEAN,
           ReleaseConcurrencyLock(r, ok), UNCHANGED <<runs, jobs, won>>
    PROVE  TablesOK'
BY Parts DEF TablesOK, ReleaseConcurrencyLock

(* What an invocation of checkAndCompleteWorkflowRun works on. *)
LEMMA CheckTypes ==
    ASSUME TypeInv, NEW r \in Runs
    PROVE  /\ Blocked(r) \in SUBSET Jobs
           /\ Verdict(r) \in Conclusions
<1>1. Blocked(r) \in SUBSET Jobs
  BY Constants DEF Blocked
<1>2. Verdict(r) \in Conclusions
  BY DEF Verdict, Conclusions
<1> QED BY <1>1, <1>2

(* Striking off a write keeps a goroutine well-typed. *)
LEMMA StrikeType ==
    ASSUME TypeInv, NEW t \in All, NEW j, NEW here \in {"cascade", "cancelJobs"},
           NEW after \in {"verdict", "cancelJobs"},
           thread[t].pc \in {"cascade", "cancelJobs"},
           Strike(t, j, here, after), UNCHANGED runner
    PROVE  ProcsOK'
<1>1. thread[t] \in Request /\ Placed(thread[t])
  BY DEF TypeInv, TypeOK, ThreadInv
<1>2. thread[t].run \in Runs
  BY <1>1 DEF Placed, RunPCs
<1> DEFINE x == [thread[t] EXCEPT !.todo = thread[t].todo \ {j},
                                  !.pc = IF thread[t].todo = {j} THEN after ELSE here]
<1>3. x \in Request /\ x.pc \in {after, here} /\ x.run = thread[t].run
  BY <1>1 DEF Request, PCs
<1>4. Placed(x)
  <2> HIDE DEF x
  <2> QED BY <1>2, <1>3 DEF Placed, JobPCs, RunPCs, MakePCs
<1>5. thread' = [thread EXCEPT ![t] = x]
  BY DEF Strike
<1> HIDE DEF x
<1> QED BY <1>3, <1>4, <1>5, ProcsThread

(* The steps of checkAndCompleteWorkflowRun preserve the type invariant.   *)
LEMMA CheckType ==
    ASSUME TypeInv, NEW t \in All, CheckStep(t)
    PROVE  TypeInv'
<1> USE Constants, Parts
<1>0. /\ thread[t] \in Request /\ Placed(thread[t])
      /\ ProcsOK /\ TablesOK /\ CountersOK
  BY DEF ProcsOK, ThreadInv
<1>a. thread[t].run \in Runs
  BY <1>0 DEF CheckStep, ListJobs, CancelBlocked, ReadVerdict, Conclude, Release, At,
              Placed, RunPCs
<1>1. CASE ListJobs(t)
  <2>1. PICK ok \in BOOLEAN :
          /\ Outcome(ok)
          /\ IF ok
               THEN /\ thread' = [thread EXCEPT ![t] =
                          [@ EXCEPT !.todo = Blocked(thread[t].run),
                                    !.pc = IF Blocked(thread[t].run) = {} THEN "verdict"
                                           ELSE "cascade"]]
                    /\ UNCHANGED runner
               ELSE EndCheck(t)
    BY <1>1 DEF ListJobs
  <2>2. CountersOK' /\ TablesOK'
    BY <1>0, <1>1, <2>1, CountersOutcome DEF ListJobs, TablesOK
  <2>3. CASE ok
    <3> DEFINE p == IF Blocked(thread[t].run) = {} THEN "verdict" ELSE "cascade"
               x == [thread[t] EXCEPT !.todo = Blocked(thread[t].run), !.pc = p]
    <3>1. x \in Request /\ x.pc \in {"verdict", "cascade"} /\ x.run = thread[t].run
      BY <1>0, <1>a, CheckTypes DEF Request, PCs
    <3>2. thread' = [thread EXCEPT ![t] = x] /\ UNCHANGED runner
      BY <2>1, <2>3
    <3> HIDE DEF x
    <3>3. Placed(x)
      BY <1>a, <3>1 DEF Placed, JobPCs, RunPCs, MakePCs
    <3> QED BY <2>2, <3>1, <3>2, <3>3, ProcsThread
  <2>4. CASE ~ok
    BY <2>1, <2>2, <2>4, ProcsEndCheck
  <2> QED BY <2>3, <2>4
<1>2. CASE CancelBlocked(t)
  <2>1. PICK j \in thread[t].todo, ok \in BOOLEAN :
            /\ Outcome(ok) /\ CompleteJob(j, "cancelled", ok)
            /\ Strike(t, j, "cascade", "verdict")
    BY <1>2 DEF CancelBlocked
  <2>2. j \in Jobs /\ "cancelled" \in Conclusions
    BY <1>0 DEF Request, Conclusions
  <2>3. TablesOK' /\ CountersOK'
    BY <1>0, <1>2, <2>1, <2>2, TablesCompleteJob, CountersOutcome DEF CancelBlocked
  <2>4. ProcsOK'
    BY <1>2, <2>1, StrikeType DEF CancelBlocked, At
  <2> QED BY <2>3, <2>4
<1>3. CASE ReadVerdict(t)
  <2>1. PICK ok \in BOOLEAN :
          /\ Outcome(ok)
          /\ \/ /\ thread' = [thread EXCEPT ![t] =
                       [@ EXCEPT !.pc = "conclude", !.word = Verdict(thread[t].run)]]
                /\ UNCHANGED runner
             \/ EndCheck(t)
    BY <1>3 DEF ReadVerdict
  <2>2. CountersOK' /\ TablesOK'
    BY <1>0, <1>3, <2>1, CountersOutcome DEF ReadVerdict, TablesOK
  <2>3. CASE /\ thread' = [thread EXCEPT ![t] =
                    [@ EXCEPT !.pc = "conclude", !.word = Verdict(thread[t].run)]]
             /\ UNCHANGED runner
    <3> DEFINE x == [thread[t] EXCEPT !.pc = "conclude", !.word = Verdict(thread[t].run)]
    <3>1. x \in Request /\ x.pc = "conclude" /\ x.run = thread[t].run
      BY <1>0, <1>a, CheckTypes DEF Request, PCs
    <3>2. thread' = [thread EXCEPT ![t] = x]
      BY <2>3
    <3> HIDE DEF x
    <3>3. Placed(x)
      BY <1>a, <3>1 DEF Placed, JobPCs, RunPCs, MakePCs
    <3> QED BY <2>2, <2>3, <3>1, <3>2, <3>3, ProcsThread
  <2>4. CASE EndCheck(t)
    BY <2>2, <2>4, ProcsEndCheck
  <2> QED BY <2>1, <2>3, <2>4
<1>4. CASE Conclude(t)
  <2>1. PICK ok \in BOOLEAN :
            Outcome(ok) /\ CompleteWorkflowRun(thread[t].run, thread[t].word, ok)
    BY <1>4 DEF Conclude
  <2>2. thread[t].word \in Conclusions
    BY <1>0 DEF Request
  <2>3. TablesOK' /\ CountersOK'
    BY <1>0, <1>a, <1>4, <2>1, <2>2, TablesCompleteRun, CountersOutcome DEF Conclude
  <2>4. Placed([thread[t] EXCEPT !.pc = "release"]) /\ "release" \in PCs
    BY <1>0, <1>a DEF Placed, Request, JobPCs, RunPCs, MakePCs, PCs
  <2>5. ProcsOK'
    BY <1>4, <2>4, ProcsGoto DEF Conclude
  <2> QED BY <2>3, <2>5
<1>5. CASE Release(t)
  <2>1. PICK ok \in BOOLEAN : Outcome(ok) /\ ReleaseConcurrencyLock(thread[t].run, ok)
    BY <1>5 DEF Release
  <2>2. TablesOK' /\ CountersOK'
    BY <1>0, <1>a, <1>5, <2>1, TablesRelease, CountersOutcome DEF Release
  <2>3. ProcsOK'
    BY <1>5, ProcsEndCheck DEF Release
  <2> QED BY <2>2, <2>3
<1> QED BY <1>1, <1>2, <1>3, <1>4, <1>5 DEF CheckStep

(* CompleteJob and CancelWorkflowRun preserve the type invariant. *)
LEMMA FinishCancelType ==
    ASSUME TypeInv, NEW t \in Threads,
           \/ FinishJob(t) \/ BeginCancel(t) \/ CancelRun(t) \/ ListLive(t) \/ CancelJob(t)
    PROVE  TypeInv'
<1> USE Constants, Parts
<1>0. /\ t \in All /\ thread[t] \in Request /\ Placed(thread[t]) /\ Placed(Idle)
      /\ ProcsOK /\ TablesOK /\ CountersOK
  BY Records DEF ProcsOK, ThreadInv, Placed, JobPCs, RunPCs, MakePCs
<1>1. CASE FinishJob(t)
  <2>1. thread[t].job \in Jobs /\ thread[t].job[1] \in Runs /\ thread[t].word \in Conclusions
    BY <1>0, <1>1 DEF FinishJob, At, Placed, JobPCs, Request
  <2> DEFINE x == [Idle EXCEPT !.pc = "list", !.run = thread[t].job[1]]
  <2>2. PICK ok \in BOOLEAN :
          /\ Outcome(ok) /\ CompleteJob(thread[t].job, thread[t].word, ok)
          /\ \/ thread' = [thread EXCEPT ![t] = x] /\ UNCHANGED runner
             \/ Answer(t, TRUE, NoJob)
    BY <1>1 DEF FinishJob
  <2>3. TablesOK' /\ CountersOK'
    BY <1>0, <1>1, <2>1, <2>2, TablesCompleteJob, CountersOutcome DEF FinishJob
  <2>4. "list" \in PCs
    BY DEF PCs
  <2>5. x \in Request /\ x.pc = "list" /\ x.run = thread[t].job[1]
    <3>1. x \in Request
      BY <2>1, <2>4, RequestType
    <3> QED BY <3>1 DEF Idle
  <2> HIDE DEF x
  <2>6. Placed(x)
    BY <2>1, <2>5 DEF Placed, JobPCs, RunPCs, MakePCs
  <2>7. ProcsOK'
    BY <1>0, <2>2, <2>5, <2>6, ProcsThread, ProcsAnswer
  <2> QED BY <2>3, <2>7
<1>2. CASE BeginCancel(t)
  <2>1. PICK r \in Runs :
          thread' = [thread EXCEPT ![t] = [Idle EXCEPT !.pc = "cancelRun", !.run = r]]
    BY <1>2 DEF BeginCancel, Created
  <2> DEFINE x == [Idle EXCEPT !.pc = "cancelRun", !.run = r]
  <2>2. TablesOK' /\ CountersOK'
    <3>1. /\ cancels < MaxCancels /\ cancels' = cancels + 1
          /\ UNCHANGED <<runs, jobs, lock, won, losses, silences, crashes>>
      BY <1>2 DEF BeginCancel
    <3> QED BY <1>0, <3>1, CIRunsAssumption DEF TablesOK, CountersOK
  <2>3. "cancelRun" \in PCs
    BY DEF PCs
  <2>4. x \in Request /\ x.pc = "cancelRun" /\ x.run = r
    <3>1. x \in Request
      BY <2>3, RequestType
    <3> QED BY <3>1 DEF Idle
  <2>5. thread' = [thread EXCEPT ![t] = x] /\ UNCHANGED runner
    BY <1>2, <2>1 DEF BeginCancel
  <2> HIDE DEF x
  <2>6. Placed(x)
    BY <2>4 DEF Placed, JobPCs, RunPCs, MakePCs
  <2> QED BY <1>0, <2>2, <2>4, <2>5, <2>6, ProcsThread
<1>3. CASE CancelRun(t)
  <2>1. thread[t].run \in Runs
    BY <1>0, <1>3 DEF CancelRun, At, Placed, RunPCs
  <2> DEFINE x == [thread[t] EXCEPT !.pc = "listLive"]
  <2>2. PICK ok \in BOOLEAN :
          /\ Outcome(ok) /\ CompleteWorkflowRun(thread[t].run, "cancelled", ok)
          /\ thread' = [thread EXCEPT ![t] = IF ok THEN x ELSE Idle]
    BY <1>3 DEF CancelRun
  <2>3. "cancelled" \in Conclusions
    BY DEF Conclusions
  <2>4. TablesOK' /\ CountersOK'
    BY <1>0, <1>3, <2>1, <2>2, <2>3, TablesCompleteRun, CountersOutcome DEF CancelRun
  <2>5. x \in Request /\ x.pc = "listLive" /\ x.run = thread[t].run
    BY <1>0 DEF Request, PCs
  <2> HIDE DEF x
  <2>6. Placed(x)
    BY <2>1, <2>5 DEF Placed, JobPCs, RunPCs, MakePCs
  <2>7. ProcsOK'
    BY <1>0, <1>3, <2>2, <2>5, <2>6, ProcsThread, Records DEF CancelRun
  <2> QED BY <2>4, <2>7
<1>4. CASE ListLive(t)
  <2>1. thread[t].run \in Runs
    BY <1>0, <1>4 DEF ListLive, At, Placed, RunPCs
  <2> DEFINE live == {j \in JobsOf(thread[t].run) :
                        Exists(j) /\ jobs[j].status # "completed"}
             x == [thread[t] EXCEPT !.pc = "cancelJobs", !.todo = live]
  <2>2. PICK ok \in BOOLEAN :
          /\ Outcome(ok)
          /\ thread' = [thread EXCEPT ![t] = IF ok /\ live # {} THEN x ELSE Idle]
    BY <1>4 DEF ListLive
  <2>3. TablesOK' /\ CountersOK'
    BY <1>0, <1>4, <2>2, CountersOutcome DEF ListLive, TablesOK
  <2>4. live \in SUBSET Jobs
    BY <2>1
  <2>5. x \in Request /\ x.pc = "cancelJobs" /\ x.run = thread[t].run
    <3> HIDE DEF live
    <3> QED BY <1>0, <2>4 DEF Request, PCs
  <2> HIDE DEF x, live
  <2>6. Placed(x)
    BY <2>1, <2>5 DEF Placed, JobPCs, RunPCs, MakePCs
  <2>7. ProcsOK'
    BY <1>0, <1>4, <2>2, <2>5, <2>6, ProcsThread, Records DEF ListLive
  <2> QED BY <2>3, <2>7
<1>5. CASE CancelJob(t)
  <2>1. PICK j \in thread[t].todo, ok \in BOOLEAN :
          /\ Outcome(ok) /\ CompleteJob(j, "cancelled", ok)
          /\ \/ thread' = [thread EXCEPT ![t] = Idle]
             \/ Strike(t, j, "cancelJobs", "cancelJobs")
    BY <1>5 DEF CancelJob
  <2>2. j \in Jobs /\ "cancelled" \in Conclusions
    BY <1>0 DEF Request, Conclusions
  <2>3. TablesOK' /\ CountersOK'
    BY <1>0, <1>5, <2>1, <2>2, TablesCompleteJob, CountersOutcome DEF CancelJob
  <2>4. ProcsOK'
    BY <1>0, <1>5, <2>1, StrikeType, ProcsThread, Records DEF CancelJob, At
  <2> QED BY <2>3, <2>4
<1> QED BY <1>1, <1>2, <1>3, <1>4, <1>5

(* TriggerCI and the other creators of runs preserve the type invariant. *)
LEMMA CreateType ==
    ASSUME TypeInv, NEW t \in Threads,
           \/ BeginTrigger(t) \/ BeginUngrouped(t) \/ CancelOld(t) \/ ReleaseOld(t)
           \/ PickNumber(t) \/ InsertRun(t) \/ AcquireLock(t) \/ CreateJob(t)
    PROVE  TypeInv'
<1> USE Constants, Parts
<1>0. /\ t \in All /\ thread[t] \in Request /\ Placed(thread[t]) /\ Placed(Idle)
      /\ ProcsOK /\ TablesOK /\ CountersOK
  BY Records DEF ProcsOK, ThreadInv, Placed, JobPCs, RunPCs, MakePCs
<1>1. CASE BeginTrigger(t)
  <2> DEFINE X(p) == [Idle EXCEPT !.pc = p, !.run = lock, !.grouped = (Concurrency # "none")]
  <2>1. PICK ok \in BOOLEAN :
          /\ Outcome(ok)
          /\ thread' = [thread EXCEPT ![t] =
                 X(IF ok /\ lock # NoRun THEN "cancelOld" ELSE "number")]
    BY <1>1 DEF BeginTrigger
  <2>2. TablesOK' /\ CountersOK'
    BY <1>0, <1>1, <2>1, CountersOutcome DEF BeginTrigger, TablesOK
  <2> DEFINE p == IF ok /\ lock # NoRun THEN "cancelOld" ELSE "number"
  <2>3. p \in {"cancelOld", "number"} /\ (p = "cancelOld" => lock \in Runs)
    BY <1>0 DEF TablesOK
  <2>4. thread' = [thread EXCEPT ![t] = X(p)] /\ UNCHANGED runner
    BY <1>1, <2>1 DEF BeginTrigger
  <2> HIDE DEF p
  <2>5. X(p) \in Request /\ X(p).pc = p /\ X(p).run = lock
    <3>1. p \in PCs /\ lock \in Runs \cup {NoRun} /\ (Concurrency # "none") \in BOOLEAN
      BY <1>0, <2>3 DEF PCs, CreatePCs, TablesOK
    <3>2. X(p) \in Request
      BY <3>1, RequestType
    <3> QED BY <3>2 DEF Idle
  <2> DEFINE x == X(p)
  <2> HIDE DEF X
  <2>6. Placed(X(p))
    BY <2>3, <2>5 DEF Placed, JobPCs, RunPCs, MakePCs
  <2> QED BY <1>0, <2>2, <2>4, <2>5, <2>6, ProcsThread
<1>2. CASE BeginUngrouped(t)
  <2> DEFINE x == [Idle EXCEPT !.pc = "number"]
  <2>1. TablesOK' /\ CountersOK'
    BY <1>0, <1>2 DEF BeginUngrouped, TablesOK, CountersOK
  <2>2. "number" \in PCs
    BY DEF PCs, CreatePCs
  <2>3. x \in Request /\ x.pc = "number"
    <3>1. x \in Request
      BY <2>2, RequestType
    <3> QED BY <3>1 DEF Idle
  <2>4. thread' = [thread EXCEPT ![t] = x] /\ UNCHANGED runner
    BY <1>2 DEF BeginUngrouped
  <2> HIDE DEF x
  <2>5. Placed(x)
    BY <2>3 DEF Placed, JobPCs, RunPCs, MakePCs
  <2> QED BY <1>0, <2>1, <2>3, <2>4, <2>5, ProcsThread
<1>3. CASE CancelOld(t)
  <2>1. thread[t].run \in Runs
    BY <1>0, <1>3 DEF CancelOld, At, Placed, RunPCs
  <2>2. PICK ok \in BOOLEAN :
          Outcome(ok) /\ CompleteWorkflowRun(thread[t].run, "cancelled", ok)
    BY <1>3 DEF CancelOld
  <2>3. "cancelled" \in Conclusions
    BY DEF Conclusions
  <2>4. TablesOK' /\ CountersOK'
    BY <1>0, <1>3, <2>1, <2>2, <2>3, TablesCompleteRun, CountersOutcome DEF CancelOld
  <2>5. Placed([thread[t] EXCEPT !.pc = "releaseOld"]) /\ "releaseOld" \in PCs
    BY <1>0, <2>1 DEF Placed, Request, JobPCs, RunPCs, MakePCs, PCs, CreatePCs
  <2>6. ProcsOK'
    BY <1>0, <1>3, <2>5, ProcsGoto DEF CancelOld
  <2> QED BY <2>4, <2>6
<1>4. CASE ReleaseOld(t)
  <2>1. thread[t].run \in Runs
    BY <1>0, <1>4 DEF ReleaseOld, At, Placed, RunPCs
  <2>2. PICK ok \in BOOLEAN : Outcome(ok) /\ ReleaseConcurrencyLock(thread[t].run, ok)
    BY <1>4 DEF ReleaseOld
  <2>3. TablesOK' /\ CountersOK'
    BY <1>0, <1>4, <2>1, <2>2, TablesRelease, CountersOutcome DEF ReleaseOld
  <2>4. Placed([thread[t] EXCEPT !.pc = "number"]) /\ "number" \in PCs
    BY <1>0 DEF Placed, Request, JobPCs, RunPCs, MakePCs, PCs, CreatePCs
  <2>5. ProcsOK'
    BY <1>0, <1>4, <2>4, ProcsGoto DEF ReleaseOld
  <2> QED BY <2>3, <2>5
<1>5. CASE PickNumber(t)
  <2>1. PICK ok \in BOOLEAN :
          /\ Outcome(ok)
          /\ \/ \E n \in 1..(MaxRuns + 1) :
                  thread' = [thread EXCEPT ![t] = [@ EXCEPT !.pc = "insert", !.number = n]]
             \/ thread' = [thread EXCEPT ![t] = Idle]
    BY <1>5 DEF PickNumber
  <2>2. TablesOK' /\ CountersOK'
    BY <1>0, <1>5, <2>1, CountersOutcome DEF PickNumber, TablesOK
  <2>3. CASE thread' = [thread EXCEPT ![t] = Idle]
    BY <1>0, <1>5, <2>2, <2>3, ProcsThread, Records DEF PickNumber
  <2>4. ASSUME NEW n \in 1..(MaxRuns + 1),
               thread' = [thread EXCEPT ![t] = [@ EXCEPT !.pc = "insert", !.number = n]]
        PROVE  ProcsOK'
    <3> DEFINE x == [thread[t] EXCEPT !.pc = "insert", !.number = n]
    <3>0. n \in Nat
      <4>1. MaxRuns \in Nat
        BY CIRunsAssumption
      <4> QED BY <4>1
    <3>1. x \in Request /\ x.pc = "insert"
      BY <1>0, <3>0 DEF Request, PCs, CreatePCs
    <3>2. thread' = [thread EXCEPT ![t] = x] /\ UNCHANGED runner
      BY <1>5, <2>4 DEF PickNumber
    <3> HIDE DEF x
    <3>3. Placed(x)
      BY <3>1 DEF Placed, JobPCs, RunPCs, MakePCs
    <3> QED BY <1>0, <3>1, <3>2, <3>3, ProcsThread
  <2> QED BY <2>1, <2>2, <2>3, <2>4
<1>6. CASE InsertRun(t)
  <2> DEFINE p == IF thread[t].grouped THEN "acquire" ELSE "create"
             row == [NoRow EXCEPT !.status = "queued", !.number = thread[t].number]
             X(r) == [thread[t] EXCEPT !.run = r, !.number = 1, !.pc = p]
  <2>1. PICK r \in NewRun, ok \in BOOLEAN :
          /\ Outcome(ok)
          /\ \/ /\ runs' = [runs EXCEPT ![r] = row]
                /\ thread' = [thread EXCEPT ![t] = X(r)]
             \/ thread' = [thread EXCEPT ![t] = Idle] /\ UNCHANGED runs
    BY <1>6 DEF InsertRun
  <2>2. r \in Runs
    BY DEF NewRun
  <2>3. row \in RunRow
    BY <1>0 DEF NoRow, RunRow, Request, Conclusions
  <2>4. runs' \in [Runs -> RunRow]
    <3> HIDE DEF row
    <3> QED BY <1>0, <2>1, <2>3 DEF TablesOK
  <2>5. TablesOK' /\ CountersOK'
    BY <1>0, <1>6, <2>1, <2>4, CountersOutcome DEF InsertRun, TablesOK
  <2>6. X(r) \in Request /\ X(r).pc \in MakePCs /\ X(r).run = r /\ X(r).number = 1
    BY <1>0, <2>2 DEF Request, PCs, MakePCs
  <2> HIDE DEF X
  <2>7. Placed(X(r))
    BY <2>2, <2>6 DEF Placed, JobPCs, RunPCs, MakePCs
  <2>8. ProcsOK'
    BY <1>0, <1>6, <2>1, <2>6, <2>7, ProcsThread, Records DEF InsertRun
  <2> QED BY <2>5, <2>8
<1>7. CASE AcquireLock(t)
  <2>1. thread[t].run \in Runs /\ thread[t].number \in 1..Len(JobOrder)
    BY <1>0, <1>7 DEF AcquireLock, At, Placed, RunPCs, MakePCs
  <2>2. PICK ok \in BOOLEAN :
          Outcome(ok) /\ lock' = IF ok /\ lock = NoRun THEN thread[t].run ELSE lock
    BY <1>7 DEF AcquireLock
  <2>3. TablesOK' /\ CountersOK'
    BY <1>0, <1>7, <2>1, <2>2, CountersOutcome DEF AcquireLock, TablesOK
  <2>4. Placed([thread[t] EXCEPT !.pc = "create"]) /\ "create" \in PCs
    BY <1>0, <2>1 DEF Placed, Request, JobPCs, RunPCs, MakePCs, PCs, CreatePCs
  <2>5. ProcsOK'
    BY <1>0, <1>7, <2>4, ProcsGoto DEF AcquireLock
  <2> QED BY <2>3, <2>5
<1>8. CASE CreateJob(t)
  <2>1. thread[t].run \in Runs /\ thread[t].number \in 1..Len(JobOrder) /\ thread[t].pc = "create"
    BY <1>0, <1>8 DEF CreateJob, At, Placed, RunPCs, MakePCs
  <2> DEFINE j == <<thread[t].run, JobOrder[thread[t].number]>>
             x == [thread[t] EXCEPT !.number = thread[t].number + 1]
  <2>2. PICK ok \in BOOLEAN :
          /\ Outcome(ok)
          /\ jobs' = IF ok THEN [jobs EXCEPT ![j] = NewJob] ELSE jobs
          /\ thread' = [thread EXCEPT ![t] =
                          IF ok /\ thread[t].number < Len(JobOrder) THEN x ELSE Idle]
    BY <1>8 DEF CreateJob
  <2>3. j \in Jobs
    BY <2>1
  <2>4. jobs' \in [Jobs -> JobRow]
    <3> HIDE DEF j
    <3> QED BY <1>0, <2>2, <2>3, Records DEF TablesOK
  <2>5. TablesOK' /\ CountersOK'
    BY <1>0, <1>8, <2>2, <2>4, CountersOutcome DEF CreateJob, TablesOK
  <2>6. x \in Request /\ x.pc = "create" /\ x.run = thread[t].run
        /\ x.number = thread[t].number + 1
    BY <1>0, <2>1 DEF Request
  <2> HIDE DEF x
  <2>7. thread[t].number < Len(JobOrder) => Placed(x)
    BY <2>1, <2>6 DEF Placed, JobPCs, RunPCs, MakePCs
  <2>8. ProcsOK'
    BY <1>0, <1>8, <2>2, <2>6, <2>7, ProcsThread, Records DEF CreateJob
  <2> QED BY <2>5, <2>8
<1> QED BY <1>1, <1>2, <1>3, <1>4, <1>5, <1>6, <1>7, <1>8

(* Runners, the reaper, the clock and a crash preserve the type invariant. *)
LEMMA RunnerType ==
    ASSUME TypeInv, NEW w \in Runners, NEW t \in Threads, RunnerStep(w, t)
    PROVE  TypeInv'
<1> USE Constants, Parts
<1>0. /\ ProcsOK /\ TablesOK /\ CountersOK
      /\ runner[w].phase \in Working => runner[w].job \in Jobs
  BY DEF ProcsOK, RunnerInv
<1>a. {"select", "start", "complete"} \subseteq PCs /\ {"success", "failure"} \subseteq Conclusions
  BY DEF PCs, Conclusions
<1>b. ASSUME NEW p, NEW q, NEW x, Send(w, t, p, q, x)
      PROVE  TablesOK' /\ CountersOK'
  BY <1>0, <1>b DEF Send, TablesOK, CountersOK
<1>1. CASE Poll(w, t)
  <2> DEFINE x == [Idle EXCEPT !.pc = "select"]
  <2>1. x \in Request
    BY <1>a, RequestType
  <2>2. Placed(x)
    BY DEF Idle, Placed, JobPCs, RunPCs, MakePCs
  <2>3. Send(w, t, "idle", "claiming", x)
    BY <1>1 DEF Poll
  <2> HIDE DEF x
  <2> QED BY <1>b, <2>1, <2>2, <2>3, ProcsSend
<1>2. CASE Start(w, t)
  <2> DEFINE x == [Idle EXCEPT !.pc = "start", !.job = runner[w].job]
  <2>1. Send(w, t, "claimed", "starting", x)
    BY <1>2 DEF Start
  <2>2. runner[w].job \in Jobs
    BY <1>0, <2>1 DEF Send, Working
  <2>3. x \in Request
    BY <1>a, <2>2, RequestType
  <2>4. Placed(x)
    BY <2>2 DEF Idle, Placed, JobPCs, RunPCs, MakePCs
  <2>5. "claimed" \in Working /\ "starting" \in Working
    BY DEF Working
  <2> HIDE DEF x
  <2> QED BY <1>b, <2>1, <2>3, <2>4, <2>5, ProcsSend
<1>3. ASSUME NEW c \in {"success", "failure"}, NEW p \in Working, NEW q \in Working,
             Send(w, t, p, q, [Idle EXCEPT !.pc = "complete", !.job = runner[w].job,
                                           !.word = c])
      PROVE  TypeInv'
  <2> DEFINE x == [Idle EXCEPT !.pc = "complete", !.job = runner[w].job, !.word = c]
  <2>1. Send(w, t, p, q, x)
    BY <1>3
  <2>2. runner[w].job \in Jobs
    BY <1>0, <2>1 DEF Send
  <2>3. x \in Request
    BY <1>a, <2>2, RequestType
  <2>4. Placed(x)
    BY <2>2 DEF Idle, Placed, JobPCs, RunPCs, MakePCs
  <2> HIDE DEF x
  <2> QED BY <1>b, <2>1, <2>3, <2>4, ProcsSend
<1>4. CASE Finish(w, t)
  BY <1>3, <1>4 DEF Finish, Working
<1>5. CASE Report(w, t)
  BY <1>3, <1>5 DEF Report, Working
<1> QED BY <1>1, <1>2, <1>4, <1>5 DEF RunnerStep

(* One runner changes and the goroutines do not. *)
LEMMA ProcsRunner ==
    ASSUME TypeInv, NEW w \in Runners, NEW y \in Worker,
           IF y.phase \in Working THEN y.job \in Jobs ELSE y.job = NoJob,
           runner' = [runner EXCEPT ![w] = y], UNCHANGED thread
    PROVE  ProcsOK'
BY DEF TypeInv, TypeOK, ProcsOK, RunnerInv, ThreadInv, Placed

LEMMA RunnerAloneType ==
    ASSUME TypeInv, NEW w \in Runners,
           ExecuteError(w) \/ Heartbeat(w) \/ TimeOut(w) \/ RestartRunner(w)
    PROVE  TypeInv'
<1> USE Constants, Parts, Records
<1>0. /\ ProcsOK /\ TablesOK /\ CountersOK /\ runner[w] \in Worker
      /\ runner[w].phase \in Working => runner[w].job \in Jobs
  BY DEF ProcsOK, RunnerInv
<1>1. CASE ExecuteError(w)
  <2> DEFINE y == [runner[w] EXCEPT !.phase = "failed"]
  <2>1. y \in Worker /\ y.phase = "failed" /\ y.job = runner[w].job
    BY <1>0 DEF Worker, Working
  <2>2. runner[w].job \in Jobs
    BY <1>0, <1>1 DEF ExecuteError, Working
  <2>3. runner' = [runner EXCEPT ![w] = y] /\ UNCHANGED thread
    BY <1>1 DEF ExecuteError
  <2> HIDE DEF y
  <2>4. ProcsOK'
    BY <2>1, <2>2, <2>3, ProcsRunner DEF Working
  <2>5. TablesOK' /\ CountersOK'
    BY <1>0, <1>1 DEF ExecuteError, TablesOK, CountersOK
  <2> QED BY <2>4, <2>5
<1>2. CASE Heartbeat(w)
  <2>1. runner[w].job \in Jobs
    BY <1>0, <1>2 DEF Heartbeat, Working
  <2>2. jobs' \in [Jobs -> JobRow]
    <3>1. [jobs[runner[w].job] EXCEPT !.beat = "fresh"] \in JobRow
      BY <1>0, <2>1, RowType DEF TablesOK
    <3> QED BY <1>0, <1>2, <2>1, <3>1 DEF Heartbeat, HeartbeatJob, TablesOK
  <2>3. TablesOK' /\ CountersOK'
    BY <1>0, <1>2, <2>2 DEF Heartbeat, TablesOK, CountersOK
  <2>4. ProcsOK'
    BY <1>0, <1>2 DEF Heartbeat, ProcsOK, ThreadInv, RunnerInv
  <2> QED BY <2>3, <2>4
<1>3. CASE TimeOut(w)
  <2>1. ProcsOK'
    BY <1>3, ResumeType, ProcsRunner DEF TimeOut
  <2>2. TablesOK' /\ CountersOK'
    BY <1>0, <1>3, CIRunsAssumption DEF TimeOut, TablesOK, CountersOK
  <2> QED BY <2>1, <2>2
<1>4. CASE RestartRunner(w)
  <2>1. ProcsOK'
    BY <1>4, ProcsRunner DEF RestartRunner, Working
  <2>2. TablesOK' /\ CountersOK'
    BY <1>0, <1>4, CIRunsAssumption DEF RestartRunner, TablesOK, CountersOK
  <2> QED BY <2>1, <2>2
<1> QED BY <1>1, <1>2, <1>3, <1>4

LEMMA SystemType ==
    ASSUME TypeInv, SelectStale \/ FailStale \/ CrashServer \/ \E j \in Jobs : Age(j)
    PROVE  TypeInv'
<1> USE Constants, Parts
<1>0. /\ ProcsOK /\ TablesOK /\ CountersOK
      /\ thread[Reaper] \in Request
  BY DEF ProcsOK
<1>a. {"list", "reap"} \subseteq PCs /\ "failure" \in Conclusions
  BY DEF PCs, Conclusions
<1>1. CASE SelectStale
  <2> DEFINE x == [Idle EXCEPT !.pc = "reap", !.todo = {j \in Jobs : Stale(j)}]
  <2>1. x \in Request
    <3>1. {j \in Jobs : Stale(j)} \in SUBSET Jobs
      OBVIOUS
    <3> QED BY <1>a, <3>1, RequestType
  <2>2. Placed(x)
    BY DEF Idle, Placed, JobPCs, RunPCs, MakePCs
  <2>3. thread' = [thread EXCEPT ![Reaper] = x] /\ UNCHANGED runner
    BY <1>1 DEF SelectStale
  <2>4. TablesOK' /\ CountersOK'
    BY <1>0, <1>1 DEF SelectStale, TablesOK, CountersOK
  <2> HIDE DEF x
  <2> QED BY <2>1, <2>2, <2>3, <2>4, ProcsThread
<1>2. CASE FailStale
  <2> DEFINE A(j) == thread[Reaper].next \cup {j[1]}
             X(j) == [thread[Reaper] EXCEPT !.todo = thread[Reaper].todo \ {j}, !.next = A(j)]
             Y(j, r) == [Idle EXCEPT !.pc = "list", !.run = r, !.next = A(j) \ {r}]
  <2>1. PICK j \in thread[Reaper].todo, ok \in BOOLEAN :
          /\ Outcome(ok) /\ CompleteJob(j, "failure", ok)
          /\ \/ thread' = [thread EXCEPT ![Reaper] = X(j)]
             \/ \E r \in A(j) : thread' = [thread EXCEPT ![Reaper] = Y(j, r)]
    BY <1>2 DEF FailStale
  <2>2. thread[Reaper].pc = "reap" /\ UNCHANGED runner
    BY <1>2 DEF FailStale, At
  <2>3. j \in Jobs /\ j[1] \in Runs
    BY <1>0 DEF Request
  <2>4. TablesOK' /\ CountersOK'
    <3> HIDE DEF A, X, Y
    <3>1. UNCHANGED <<runs, lock>> /\ UNCHANGED <<silences, crashes, cancels>>
      BY <1>2 DEF FailStale
    <3>a. Outcome(ok) /\ CompleteJob(j, "failure", ok)
      BY <2>1
    <3>2. TablesOK'
      BY <1>a, <2>3, <3>1, <3>a, TablesCompleteJob
    <3>3. CountersOK'
      BY <1>0, <3>1, <3>a, CountersOutcome
    <3> QED BY <3>2, <3>3
  <2>5. A(j) \in SUBSET Runs
    BY <1>0, <2>3 DEF Request
  <2>6. X(j) \in Request /\ X(j).pc = "reap"
    <3> HIDE DEF A
    <3> QED BY <1>0, <2>2, <2>5 DEF Request
  <2>7. Placed(X(j))
    <3> HIDE DEF X
    <3> QED BY <2>6 DEF Placed, JobPCs, RunPCs, MakePCs
  <2>8. \A r \in A(j) : Y(j, r) \in Request /\ Placed(Y(j, r))
    <3> HIDE DEF A
    <3> SUFFICES ASSUME NEW r \in A(j) PROVE Y(j, r) \in Request /\ Placed(Y(j, r))
      OBVIOUS
    <3>1. r \in Runs /\ A(j) \ {r} \in SUBSET Runs
      BY <2>5
    <3>2. Y(j, r) \in Request
      BY <1>a, <3>1, RequestType
    <3>3. Placed(Y(j, r))
      BY <3>1 DEF Idle, Placed, JobPCs, RunPCs, MakePCs
    <3> QED BY <3>2, <3>3
  <2> HIDE DEF X, Y, A
  <2>9. ProcsOK'
    BY <2>1, <2>2, <2>6, <2>7, <2>8, ProcsThread
  <2> QED BY <2>4, <2>9
<1>3. CASE CrashServer
  <2>1. \A w \in Runners :
          /\ runner'[w] \in Worker
          /\ IF runner'[w].phase \in Working THEN runner'[w].job \in Jobs
                                              ELSE runner'[w].job = NoJob
    <3> SUFFICES ASSUME NEW w \in Runners
                 PROVE  /\ runner'[w] \in Worker
                        /\ IF runner'[w].phase \in Working THEN runner'[w].job \in Jobs
                                                            ELSE runner'[w].job = NoJob
      OBVIOUS
    <3>1. runner'[w] = runner[w] \/ runner'[w] = Resume(w, FALSE, NoJob)
      BY <1>3 DEF CrashServer
    <3>2. CASE runner'[w] = runner[w]
      BY <1>0, <3>2 DEF ProcsOK, RunnerInv
    <3>3. CASE runner'[w] = Resume(w, FALSE, NoJob)
      <4>1. \A good \in BOOLEAN, j \in Jobs \cup {NoJob} :
              /\ Resume(w, good, j) \in Worker
              /\ IF Resume(w, good, j).phase \in Working
                   THEN Resume(w, good, j).job \in Jobs
                   ELSE Resume(w, good, j).job = NoJob
        BY ResumeType
      <4>2. /\ Resume(w, FALSE, NoJob) \in Worker
            /\ IF Resume(w, FALSE, NoJob).phase \in Working
                 THEN Resume(w, FALSE, NoJob).job \in Jobs
                 ELSE Resume(w, FALSE, NoJob).job = NoJob
        BY <4>1
      <4> QED BY <3>3, <4>2
    <3> QED BY <3>1, <3>2, <3>3
  <2>2. runner' \in [Runners -> Worker] /\ RunnerInv'
    BY <1>3, <2>1 DEF CrashServer, RunnerInv
  <2>3. thread' \in [All -> Request] /\ ThreadInv'
    BY <1>3, Records DEF CrashServer, ThreadInv, Placed, JobPCs, RunPCs, MakePCs
  <2>4. TablesOK' /\ CountersOK'
    BY <1>0, <1>3, CIRunsAssumption DEF CrashServer, TablesOK, CountersOK
  <2> QED BY <2>2, <2>3, <2>4 DEF ProcsOK
<1>4. ASSUME NEW j \in Jobs, Age(j) PROVE TypeInv'
  <2>1. jobs' \in [Jobs -> JobRow]
    <3>1. jobs[j] \in JobRow /\ jobs \in [Jobs -> JobRow]
      BY <1>0 DEF TablesOK
    <3>2. \/ jobs' = [jobs EXCEPT ![j] = [jobs[j] EXCEPT !.beat = "old"]]
          \/ jobs' = [jobs EXCEPT ![j] = [jobs[j] EXCEPT !.base = "old"]]
      BY <1>4 DEF Age
    <3> QED BY <3>1, <3>2, RowType
  <2>2. silences' \in 0..MaxSilences
    BY <1>0, <1>4, CIRunsAssumption DEF Age, CountersOK
  <2>3. TablesOK' /\ CountersOK'
    BY <1>0, <1>4, <2>1, <2>2 DEF Age, TablesOK, CountersOK
  <2>4. ProcsOK'
    BY <1>0, <1>4 DEF Age, ProcsOK, ThreadInv, RunnerInv
  <2> QED BY <2>3, <2>4
<1> QED BY <1>1, <1>2, <1>3, <1>4

LEMMA TypeStep == TypeInv /\ [Next]_vars => TypeInv'
<1> SUFFICES ASSUME TypeInv, [Next]_vars PROVE TypeInv'
  OBVIOUS
<1>1. CASE UNCHANGED vars
  BY <1>1 DEF vars, TypeInv, TypeOK, ThreadInv, RunnerInv
<1>2. ASSUME NEW t \in Threads, HandlerStep(t) \/ UserStep(t) PROVE TypeInv'
  BY <1>2, ClaimStartType, FinishCancelType, CreateType, CheckType, Constants
     DEF HandlerStep, UserStep
<1>3. CASE ReaperStep
  BY <1>3, SystemType, CheckType, Constants DEF ReaperStep
<1> QED BY <1>1, <1>2, <1>3, RunnerType, RunnerAloneType, SystemType DEF Next

(* For every workflow and every number of runners, goroutines, failures,   *)
(* crashes and cancellations, the tables and the handlers' local state     *)
(* stay well-typed.                                                        *)
THEOREM TypeCorrect == Spec => []TypeOK
<1>1. TypeInv => TypeOK
  BY DEF TypeInv
<1> QED BY InitType, TypeStep, <1>1, PTL DEF Spec

-----------------------------------------------------------------------------
(* No job runs before the jobs it needs have succeeded.  The invariant     *)
(* says that of the rows, of the goroutines that are about to make a job   *)
(* pending or in progress, and of the runners, who will ask for it; "won"  *)
(* only grows, so what was true when ClaimJob's SELECT read the rows still *)
(* is when a late StartJob writes one.                                     *)

ConcInv == \A j \in Jobs : jobs[j].conclusion = "success" => j \in won
AskInv  == \A t \in All : thread[t].pc \in {"claim", "start"} =>
                            NeedsOf(thread[t].job) \subseteq won
HoldInv == \A w \in Runners : runner[w].job # NoJob => NeedsOf(runner[w].job) \subseteq won

NeedsInv == ConcInv /\ NeedsBeforeRun /\ AskInv /\ HoldInv

(* What a step writes: rows, requests and runners that agree with "won" as *)
(* it was before the step.                                                 *)
RowsKept == /\ won \subseteq won'
            /\ \A j \in Jobs :
                 /\ jobs'[j].conclusion = "success" => j \in won'
                 /\ jobs'[j].status \in {"pending", "in_progress"} => NeedsOf(j) \subseteq won
AskKept  == \A t \in All : thread'[t].pc \in {"claim", "start"} =>
                              NeedsOf(thread'[t].job) \subseteq won
HoldKept == \A w \in Runners : runner'[w].job # NoJob =>
                              NeedsOf(runner'[w].job) \subseteq won

LEMMA KeptSuffices == RowsKept /\ AskKept /\ HoldKept => NeedsInv'
BY DEF RowsKept, AskKept, HoldKept, NeedsInv, ConcInv, NeedsBeforeRun, AskInv, HoldInv

LEMMA RowsSame ==
    ASSUME NeedsInv, UNCHANGED <<jobs, won>> PROVE RowsKept
BY DEF NeedsInv, RowsKept, ConcInv, NeedsBeforeRun

LEMMA RowsComplete ==
    ASSUME TypeInv, NeedsInv, NEW j \in Jobs, NEW c, NEW ok \in BOOLEAN,
           CompleteJob(j, c, ok)
    PROVE  RowsKept
<1>1. jobs \in [Jobs -> JobRow]
  BY DEF TypeInv, TypeOK
<1>2. CASE ok
  <2> DEFINE x == [jobs[j] EXCEPT !.status = "completed", !.conclusion = c]
  <2>1. x.status = "completed" /\ x.conclusion = c
    BY <1>1 DEF JobRow
  <2>2. jobs' = [jobs EXCEPT ![j] = x]
    BY <1>2 DEF CompleteJob
  <2>3. won \subseteq won' /\ (c = "success" => j \in won')
    BY <1>2 DEF CompleteJob
  <2> HIDE DEF x
  <2>4. \A k \in Jobs : jobs'[k] = IF k = j THEN x ELSE jobs[k]
    BY <1>1, <2>2
  <2> QED BY <2>1, <2>3, <2>4 DEF NeedsInv, RowsKept, ConcInv, NeedsBeforeRun
<1>3. CASE ~ok
  BY <1>3, RowsSame DEF CompleteJob
<1> QED BY <1>2, <1>3

(* A write that changes neither a conclusion nor, unless the needs have    *)
(* succeeded, the status.                                                  *)
LEMMA RowsWrite ==
    ASSUME TypeInv, NeedsInv, NEW j \in Jobs, NEW x, UNCHANGED won,
           jobs' = [jobs EXCEPT ![j] = x],
           x.conclusion \in {"none", jobs[j].conclusion},
           x.status \in {"queued", jobs[j].status} \/ NeedsOf(j) \subseteq won
    PROVE  RowsKept
<1>1. \A k \in Jobs : jobs'[k] = IF k = j THEN x ELSE jobs[k]
  BY DEF TypeInv, TypeOK
<1> QED BY <1>1 DEF NeedsInv, RowsKept, ConcInv, NeedsBeforeRun

LEMMA RowsHeartbeat ==
    ASSUME TypeInv, NeedsInv, NEW j \in Jobs, NEW ok \in BOOLEAN,
           HeartbeatJob(j, ok), UNCHANGED won
    PROVE  RowsKept
<1>1. CASE jobs' = jobs
  BY <1>1, RowsSame
<1>2. CASE jobs' = [jobs EXCEPT ![j].beat = "fresh"]
  <2> DEFINE x == [jobs[j] EXCEPT !.beat = "fresh"]
  <2>1. jobs' = [jobs EXCEPT ![j] = x]
    BY <1>2
  <2>2. x.status = jobs[j].status /\ x.conclusion = jobs[j].conclusion
    BY DEF TypeInv, TypeOK, JobRow
  <2> HIDE DEF x
  <2> QED BY <2>1, <2>2, RowsWrite
<1> QED BY <1>1, <1>2 DEF HeartbeatJob

LEMMA ProcsSame ==
    ASSUME NeedsInv, UNCHANGED <<thread, runner>> PROVE AskKept /\ HoldKept
BY DEF NeedsInv, AskKept, HoldKept, AskInv, HoldInv

LEMMA KeptAnswer ==
    ASSUME TypeInv, NeedsInv, NEW t \in All, NEW good \in BOOLEAN,
           NEW j \in Jobs \cup {NoJob}, Answer(t, good, j),
           j = NoJob \/ NeedsOf(j) \subseteq won
    PROVE  AskKept /\ HoldKept
<1>1. \A u \in All : thread'[u] = IF u = t THEN Idle ELSE thread[u]
  BY DEF Answer, TypeInv, TypeOK
<1>2. AskKept
  BY <1>1, Records DEF NeedsInv, AskInv, AskKept
<1>3. \A w \in Runners :
         /\ Resume(w, good, j).job \in {NoJob, runner[w].job, j}
  BY ResumeType
<1>4. \A w \in Runners :
         runner'[w] = IF runner[w].thread = t THEN Resume(w, good, j) ELSE runner[w]
  BY DEF Answer
<1>5. HoldKept
  BY <1>3, <1>4 DEF NeedsInv, HoldInv, HoldKept
<1> QED BY <1>2, <1>5

LEMMA KeptThread ==
    ASSUME TypeInv, NeedsInv, NEW t \in All, NEW x,
           thread' = [thread EXCEPT ![t] = x], UNCHANGED runner,
           x.pc \in {"claim", "start"} => NeedsOf(x.job) \subseteq won
    PROVE  AskKept /\ HoldKept
<1>1. \A u \in All : thread'[u] = IF u = t THEN x ELSE thread[u]
  BY DEF TypeInv, TypeOK
<1> QED BY <1>1 DEF NeedsInv, AskInv, HoldInv, AskKept, HoldKept

LEMMA KeptGoto ==
    ASSUME TypeInv, NeedsInv, NEW t \in All, NEW p \in PCs \ {"claim", "start"},
           Goto(t, p), UNCHANGED runner
    PROVE  AskKept /\ HoldKept
<1> DEFINE x == [thread[t] EXCEPT !.pc = p]
<1>1. x.pc = p
  BY DEF TypeInv, TypeOK, Request
<1>2. thread' = [thread EXCEPT ![t] = x]
  BY DEF Goto
<1> HIDE DEF x
<1> QED BY <1>1, <1>2, KeptThread

LEMMA KeptEndCheck ==
    ASSUME TypeInv, NeedsInv, NEW t \in All, EndCheck(t)
    PROVE  AskKept /\ HoldKept
<1>1. CASE Answer(t, TRUE, NoJob)
  BY <1>1, KeptAnswer
<1>2. CASE /\ \E r \in thread[t].next :
                thread' = [thread EXCEPT ![t] = [Idle EXCEPT !.pc = "list", !.run = r,
                                                 !.next = thread[t].next \ {r}]]
           /\ UNCHANGED runner
  <2>1. PICK r \in thread[t].next :
            thread' = [thread EXCEPT ![t] = [Idle EXCEPT !.pc = "list", !.run = r,
                                             !.next = thread[t].next \ {r}]]
    BY <1>2
  <2> DEFINE x == [Idle EXCEPT !.pc = "list", !.run = r, !.next = thread[t].next \ {r}]
  <2>2. x.pc = "list"
    BY DEF Idle
  <2>3. thread' = [thread EXCEPT ![t] = x]
    BY <2>1
  <2> HIDE DEF x
  <2> QED BY <1>2, <2>2, <2>3, KeptThread
<1> QED BY <1>1, <1>2 DEF EndCheck

(* Claiming and starting a job.  SelectJob reads the needs as completed    *)
(* with success, the answer hands them on to the runner, and StartJob      *)
(* writes on the word of its caller.                                       *)
LEMMA ClaimStartNeeds ==
    ASSUME TypeInv, NeedsInv, NEW t \in Threads,
           \/ SelectJob(t) \/ ClaimJob(t) \/ StartJob(t) \/ FirstHeartbeat(t)
           \/ ReadRun(t) \/ MarkRun(t)
    PROVE  NeedsInv'
<1> USE Constants, KeptSuffices
<1>0. /\ t \in All /\ thread[t] \in Request /\ Placed(thread[t])
      /\ jobs \in [Jobs -> JobRow]
  BY DEF TypeInv, TypeOK, ThreadInv
<1>1. CASE SelectJob(t)
  <2>1. RowsKept
    BY <1>1, RowsSame DEF SelectJob
  <2>2. CASE \E j \in {k \in Jobs : Claimable(k)} :
                /\ thread' = [thread EXCEPT ![t] = [@ EXCEPT !.pc = "claim", !.job = j]]
                /\ UNCHANGED runner
    <3>1. PICK j \in Jobs :
            /\ Claimable(j)
            /\ thread' = [thread EXCEPT ![t] = [thread[t] EXCEPT !.pc = "claim", !.job = j]]
      BY <2>2
    <3>2. NeedsOf(j) \subseteq won
      BY <3>1 DEF Claimable, NeedsInv, ConcInv
    <3> DEFINE x == [thread[t] EXCEPT !.pc = "claim", !.job = j]
    <3>3. x.job = j /\ thread' = [thread EXCEPT ![t] = x]
      BY <1>0, <3>1 DEF Request
    <3> HIDE DEF x
    <3>4. AskKept /\ HoldKept
      BY <1>0, <2>2, <3>2, <3>3, KeptThread
    <3> QED BY <2>1, <3>4
  <2>3. CASE \E ok \in BOOLEAN : Answer(t, ok, NoJob)
    BY <1>0, <2>1, <2>3, KeptAnswer
  <2> QED BY <1>1, <2>2, <2>3 DEF SelectJob
<1>2. CASE ClaimJob(t)
  <2> DEFINE j == thread[t].job
  <2>1. j \in Jobs /\ NeedsOf(j) \subseteq won
    BY <1>0, <1>2 DEF ClaimJob, At, Placed, JobPCs, NeedsInv, AskInv
  <2>2. CASE jobs' = [jobs EXCEPT ![j].status = "pending"] /\ Answer(t, TRUE, j)
    <3> DEFINE x == [jobs[j] EXCEPT !.status = "pending"]
    <3>1. x.conclusion = jobs[j].conclusion /\ jobs' = [jobs EXCEPT ![j] = x]
      BY <1>0, <2>1, <2>2 DEF JobRow
    <3>2. UNCHANGED won
      BY <1>2 DEF ClaimJob
    <3> HIDE DEF x
    <3>3. RowsKept
      BY <2>1, <3>1, <3>2, RowsWrite
    <3>4. AskKept /\ HoldKept
      BY <1>0, <2>1, <2>2, KeptAnswer
    <3> QED BY <3>3, <3>4
  <2>3. CASE UNCHANGED jobs /\ \E ok \in BOOLEAN : Answer(t, ok, NoJob)
    <3>1. RowsKept
      BY <1>2, <2>3, RowsSame DEF ClaimJob
    <3> QED BY <1>0, <2>3, <3>1, KeptAnswer
  <2> QED BY <1>2, <2>2, <2>3 DEF ClaimJob
<1>3. CASE StartJob(t)
  <2> DEFINE j == thread[t].job
  <2>1. j \in Jobs /\ NeedsOf(j) \subseteq won /\ UNCHANGED won
    BY <1>0, <1>3 DEF StartJob, At, Placed, JobPCs, NeedsInv, AskInv
  <2>2. CASE /\ jobs' = [jobs EXCEPT ![j] =
                              [@ EXCEPT !.status = "in_progress", !.base = "fresh"]]
             /\ Goto(t, "beat") /\ UNCHANGED runner
    <3> DEFINE x == [jobs[j] EXCEPT !.status = "in_progress", !.base = "fresh"]
    <3>1. x.conclusion = jobs[j].conclusion /\ jobs' = [jobs EXCEPT ![j] = x]
      BY <1>0, <2>1, <2>2 DEF JobRow
    <3> HIDE DEF x
    <3>2. RowsKept
      BY <2>1, <3>1, RowsWrite
    <3>3. "beat" \in PCs \ {"claim", "start"}
      BY DEF PCs
    <3>4. AskKept /\ HoldKept
      BY <1>0, <2>2, <3>3, KeptGoto
    <3> QED BY <3>2, <3>4
  <2>3. CASE UNCHANGED jobs /\ Answer(t, FALSE, NoJob)
    <3>1. RowsKept
      BY <2>1, <2>3, RowsSame
    <3> QED BY <1>0, <2>3, <3>1, KeptAnswer
  <2> QED BY <1>3, <2>2, <2>3 DEF StartJob
<1>4. CASE FirstHeartbeat(t)
  <2>1. RowsKept
    BY <1>0, <1>4, RowsHeartbeat DEF FirstHeartbeat, At, Placed, JobPCs
  <2>2. "readRun" \in PCs \ {"claim", "start"}
    BY DEF PCs
  <2> QED BY <1>0, <1>4, <2>1, <2>2, KeptGoto DEF FirstHeartbeat
<1>5. CASE ReadRun(t)
  <2>1. RowsKept
    BY <1>5, RowsSame DEF ReadRun
  <2>2. "markRun" \in PCs \ {"claim", "start"}
    BY DEF PCs
  <2> QED BY <1>0, <1>5, <2>1, <2>2, KeptGoto, KeptAnswer DEF ReadRun
<1>6. CASE MarkRun(t)
  <2>1. RowsKept
    BY <1>6, RowsSame DEF MarkRun
  <2> QED BY <1>0, <1>6, <2>1, KeptAnswer DEF MarkRun
<1> QED BY <1>1, <1>2, <1>3, <1>4, <1>5, <1>6

(* A goroutine that rewrites its request and leaves it outside ClaimJob    *)
(* and StartJob.                                                           *)
LEMMA KeptElsewhere ==
    ASSUME TypeInv, NeedsInv, NEW t \in All, NEW x, UNCHANGED runner,
           thread' = [thread EXCEPT ![t] = x], x.pc \notin {"claim", "start"}
    PROVE  AskKept /\ HoldKept
BY KeptThread

LEMMA KeptStrike ==
    ASSUME TypeInv, NeedsInv, NEW t \in All, NEW j, UNCHANGED runner,
           NEW here \in {"cascade", "cancelJobs"}, NEW after \in {"verdict", "cancelJobs"},
           Strike(t, j, here, after)
    PROVE  AskKept /\ HoldKept
<1> DEFINE x == [thread[t] EXCEPT !.todo = thread[t].todo \ {j},
                                  !.pc = IF thread[t].todo = {j} THEN after ELSE here]
<1>1. x.pc \in {after, here}
  BY DEF TypeInv, TypeOK, Request
<1>2. thread' = [thread EXCEPT ![t] = x]
  BY DEF Strike
<1> HIDE DEF x
<1> QED BY <1>1, <1>2, KeptElsewhere

(* checkAndCompleteWorkflowRun only completes jobs. *)
LEMMA CheckNeeds ==
    ASSUME TypeInv, NeedsInv, NEW t \in All, CheckStep(t)
    PROVE  NeedsInv'
<1> USE KeptSuffices
<1>0. thread[t] \in Request
  BY DEF TypeInv, TypeOK
<1>1. CASE ListJobs(t)
  <2>1. RowsKept
    BY <1>1, RowsSame DEF ListJobs
  <2> DEFINE p == IF Blocked(thread[t].run) = {} THEN "verdict" ELSE "cascade"
             x == [thread[t] EXCEPT !.todo = Blocked(thread[t].run), !.pc = p]
  <2>2. EndCheck(t) \/ (thread' = [thread EXCEPT ![t] = x] /\ UNCHANGED runner)
    BY <1>1 DEF ListJobs
  <2>3. x.pc \in {"verdict", "cascade"}
    BY <1>0 DEF Request
  <2> HIDE DEF x
  <2> QED BY <2>1, <2>2, <2>3, KeptEndCheck, KeptElsewhere
<1>2. CASE CancelBlocked(t)
  <2>1. PICK j \in thread[t].todo, ok \in BOOLEAN :
            CompleteJob(j, "cancelled", ok) /\ Strike(t, j, "cascade", "verdict")
    BY <1>2 DEF CancelBlocked
  <2>2. j \in Jobs
    BY <1>0 DEF Request
  <2>3. RowsKept
    BY <2>1, <2>2, RowsComplete
  <2>4. AskKept /\ HoldKept
    BY <1>2, <2>1, KeptStrike DEF CancelBlocked
  <2> QED BY <2>3, <2>4
<1>3. CASE ReadVerdict(t)
  <2>1. RowsKept
    BY <1>3, RowsSame DEF ReadVerdict
  <2> DEFINE x == [thread[t] EXCEPT !.pc = "conclude", !.word = Verdict(thread[t].run)]
  <2>2. EndCheck(t) \/ (thread' = [thread EXCEPT ![t] = x] /\ UNCHANGED runner)
    BY <1>3 DEF ReadVerdict
  <2>3. x.pc = "conclude"
    BY <1>0 DEF Request
  <2> HIDE DEF x
  <2> QED BY <2>1, <2>2, <2>3, KeptEndCheck, KeptElsewhere
<1>4. CASE Conclude(t)
  <2>1. RowsKept
    BY <1>4, RowsSame DEF Conclude
  <2>2. "release" \in PCs \ {"claim", "start"}
    BY DEF PCs
  <2> QED BY <1>4, <2>1, <2>2, KeptGoto DEF Conclude
<1>5. CASE Release(t)
  <2>1. RowsKept
    BY <1>5, RowsSame DEF Release
  <2> QED BY <1>5, <2>1, KeptEndCheck DEF Release
<1> QED BY <1>1, <1>2, <1>3, <1>4, <1>5 DEF CheckStep

(* Completions and cancellations. *)
LEMMA FinishCancelNeeds ==
    ASSUME TypeInv, NeedsInv, NEW t \in Threads,
           FinishJob(t) \/ CancelRun(t) \/ ListLive(t) \/ CancelJob(t) \/ BeginCancel(t)
    PROVE  NeedsInv'
<1> USE KeptSuffices
<1>0. t \in All /\ thread[t] \in Request /\ Placed(thread[t])
  BY Constants DEF TypeInv, TypeOK, ThreadInv
<1>1. CASE FinishJob(t)
  <2>1. thread[t].job \in Jobs
    BY <1>0, <1>1 DEF FinishJob, At, Placed, JobPCs
  <2>2. RowsKept
    BY <1>1, <2>1, RowsComplete DEF FinishJob
  <2> DEFINE x == [Idle EXCEPT !.pc = "list", !.run = thread[t].job[1]]
  <2>3. \/ thread' = [thread EXCEPT ![t] = x] /\ UNCHANGED runner
        \/ Answer(t, TRUE, NoJob)
    BY <1>1 DEF FinishJob
  <2>4. x.pc = "list"
    BY DEF Idle
  <2> HIDE DEF x
  <2> QED BY <1>0, <2>2, <2>3, <2>4, KeptElsewhere, KeptAnswer
<1>2. CASE CancelRun(t)
  <2>1. RowsKept
    BY <1>2, RowsSame DEF CancelRun
  <2> DEFINE x == [thread[t] EXCEPT !.pc = "listLive"]
  <2>2. UNCHANGED runner /\ \E y \in {x, Idle} : thread' = [thread EXCEPT ![t] = y]
    BY <1>2 DEF CancelRun
  <2>3. x.pc = "listLive"
    BY <1>0 DEF Request
  <2> HIDE DEF x
  <2> QED BY <1>0, <2>1, <2>2, <2>3, Records, KeptElsewhere
<1>3. CASE ListLive(t)
  <2>1. RowsKept
    BY <1>3, RowsSame DEF ListLive
  <2> DEFINE live == {j \in JobsOf(thread[t].run) :
                         Exists(j) /\ jobs[j].status # "completed"}
             x == [thread[t] EXCEPT !.pc = "cancelJobs", !.todo = live]
  <2>2. UNCHANGED runner /\ \E y \in {x, Idle} : thread' = [thread EXCEPT ![t] = y]
    BY <1>3 DEF ListLive
  <2>3. x.pc = "cancelJobs"
    BY <1>0 DEF Request
  <2> HIDE DEF x
  <2> QED BY <1>0, <2>1, <2>2, <2>3, Records, KeptElsewhere
<1>4. CASE CancelJob(t)
  <2>1. PICK j \in thread[t].todo, ok \in BOOLEAN :
            /\ CompleteJob(j, "cancelled", ok)
            /\ \/ thread' = [thread EXCEPT ![t] = Idle]
               \/ Strike(t, j, "cancelJobs", "cancelJobs")
    BY <1>4 DEF CancelJob
  <2>2. j \in Jobs
    BY <1>0 DEF Request
  <2>3. RowsKept
    BY <2>1, <2>2, RowsComplete
  <2>4. UNCHANGED runner
    BY <1>4 DEF CancelJob
  <2>5. AskKept /\ HoldKept
    BY <1>0, <2>1, <2>4, Records, KeptElsewhere, KeptStrike
  <2> QED BY <2>3, <2>5
<1>5. CASE BeginCancel(t)
  <2>1. RowsKept
    BY <1>5, RowsSame DEF BeginCancel
  <2>2. PICK r \in Created :
            thread' = [thread EXCEPT ![t] = [Idle EXCEPT !.pc = "cancelRun", !.run = r]]
    BY <1>5 DEF BeginCancel
  <2> DEFINE x == [Idle EXCEPT !.pc = "cancelRun", !.run = r]
  <2>3. x.pc = "cancelRun" /\ thread' = [thread EXCEPT ![t] = x]
    BY <2>2 DEF Idle
  <2> HIDE DEF x
  <2> QED BY <1>0, <1>5, <2>1, <2>3, KeptElsewhere DEF BeginCancel
<1> QED BY <1>1, <1>2, <1>3, <1>4, <1>5

(* Creating a run writes new rows only, which are queued. *)
LEMMA CreateNeeds ==
    ASSUME TypeInv, NeedsInv, NEW t \in Threads,
           \/ BeginTrigger(t) \/ BeginUngrouped(t) \/ CancelOld(t) \/ ReleaseOld(t)
           \/ PickNumber(t) \/ InsertRun(t) \/ AcquireLock(t) \/ CreateJob(t)
    PROVE  NeedsInv'
<1> USE KeptSuffices
<1>0. t \in All /\ thread[t] \in Request /\ Placed(thread[t])
  BY Constants DEF TypeInv, TypeOK, ThreadInv
<1>1. CASE BeginTrigger(t)
  <2>1. RowsKept
    BY <1>1, RowsSame DEF BeginTrigger
  <2>2. PICK p \in {"cancelOld", "number"} :
            thread' = [thread EXCEPT ![t] = [Idle EXCEPT !.pc = p, !.run = lock,
                                               !.grouped = (Concurrency # "none")]]
    BY <1>1 DEF BeginTrigger
  <2> DEFINE x == [Idle EXCEPT !.pc = p, !.run = lock, !.grouped = (Concurrency # "none")]
  <2>3. x.pc = p /\ thread' = [thread EXCEPT ![t] = x]
    BY <2>2 DEF Idle
  <2> HIDE DEF x
  <2> QED BY <1>0, <1>1, <2>1, <2>3, KeptElsewhere DEF BeginTrigger
<1>2. CASE BeginUngrouped(t)
  <2>1. RowsKept
    BY <1>2, RowsSame DEF BeginUngrouped
  <2> DEFINE x == [Idle EXCEPT !.pc = "number"]
  <2>2. x.pc = "number" /\ thread' = [thread EXCEPT ![t] = x]
    BY <1>2 DEF Idle, BeginUngrouped
  <2> HIDE DEF x
  <2> QED BY <1>0, <1>2, <2>1, <2>2, KeptElsewhere DEF BeginUngrouped
<1>3. CASE CancelOld(t) \/ ReleaseOld(t) \/ AcquireLock(t)
  <2>1. RowsKept
    BY <1>3, RowsSame DEF CancelOld, ReleaseOld, AcquireLock
  <2>2. {"releaseOld", "number", "create"} \subseteq PCs \ {"claim", "start"}
    BY DEF PCs, CreatePCs
  <2>3. UNCHANGED runner /\ \E p \in {"releaseOld", "number", "create"} : Goto(t, p)
    BY <1>3 DEF CancelOld, ReleaseOld, AcquireLock
  <2> QED BY <1>0, <2>1, <2>2, <2>3, KeptGoto
<1>4. CASE PickNumber(t)
  <2>1. RowsKept
    BY <1>4, RowsSame DEF PickNumber
  <2>2. CASE thread' = [thread EXCEPT ![t] = Idle]
    BY <1>0, <1>4, <2>1, <2>2, Records, KeptElsewhere DEF PickNumber
  <2>3. CASE \E n \in 1..(MaxRuns + 1) :
               thread' = [thread EXCEPT ![t] = [@ EXCEPT !.pc = "insert", !.number = n]]
    <3>1. PICK n \in 1..(MaxRuns + 1) :
            thread' = [thread EXCEPT ![t] = [thread[t] EXCEPT !.pc = "insert", !.number = n]]
      BY <2>3
    <3> DEFINE x == [thread[t] EXCEPT !.pc = "insert", !.number = n]
    <3>2. x.pc = "insert" /\ thread' = [thread EXCEPT ![t] = x]
      BY <1>0, <3>1 DEF Request
    <3> HIDE DEF x
    <3> QED BY <1>0, <1>4, <2>1, <3>2, KeptElsewhere DEF PickNumber
  <2> QED BY <1>4, <2>2, <2>3 DEF PickNumber
<1>5. CASE InsertRun(t)
  <2>1. RowsKept
    BY <1>5, RowsSame DEF InsertRun
  <2>2. CASE thread' = [thread EXCEPT ![t] = Idle]
    BY <1>0, <1>5, <2>1, <2>2, Records, KeptElsewhere DEF InsertRun
  <2>3. CASE \E r \in NewRun :
               thread' = [thread EXCEPT ![t] =
                   [@ EXCEPT !.run = r, !.number = 1,
                             !.pc = IF thread[t].grouped THEN "acquire" ELSE "create"]]
    <3> DEFINE p == IF thread[t].grouped THEN "acquire" ELSE "create"
    <3>1. PICK r \in NewRun :
            thread' = [thread EXCEPT ![t] =
                         [thread[t] EXCEPT !.run = r, !.number = 1, !.pc = p]]
      BY <2>3
    <3> DEFINE x == [thread[t] EXCEPT !.run = r, !.number = 1, !.pc = p]
    <3>2. x.pc \in {"acquire", "create"} /\ thread' = [thread EXCEPT ![t] = x]
      BY <1>0, <3>1 DEF Request
    <3> HIDE DEF x
    <3> QED BY <1>0, <1>5, <2>1, <3>2, KeptElsewhere DEF InsertRun
  <2> QED BY <1>5, <2>2, <2>3 DEF InsertRun
<1>6. CASE CreateJob(t)
  <2> DEFINE j == <<thread[t].run, JobOrder[thread[t].number]>>
             x == [thread[t] EXCEPT !.number = thread[t].number + 1]
  <2>1. j \in Jobs
    BY <1>0, <1>6, Constants DEF CreateJob, At, Placed, RunPCs, MakePCs
  <2>2. /\ UNCHANGED <<runner, won>>
        /\ jobs' \in {jobs, [jobs EXCEPT ![j] = NewJob]}
        /\ \E y \in {x, Idle} : thread' = [thread EXCEPT ![t] = y]
    BY <1>6 DEF CreateJob
  <2>3. x.pc = "create"
    BY <1>0, <1>6 DEF Request, CreateJob, At
  <2> HIDE DEF x, j
  <2>4. RowsKept
    BY <2>1, <2>2, Records, RowsSame, RowsWrite
  <2> QED BY <1>0, <2>2, <2>3, <2>4, Records, KeptElsewhere
<1> QED BY <1>1, <1>2, <1>3, <1>4, <1>5, <1>6

(* A runner's requests are about the job it holds. *)
LEMMA KeptSend ==
    ASSUME TypeInv, NeedsInv, NEW w \in Runners, NEW t \in Threads, NEW p, NEW q, NEW x,
           Send(w, t, p, q, x), x.pc \in {"claim", "start"} => NeedsOf(x.job) \subseteq won
    PROVE  NeedsInv'
<1>1. RowsKept
  BY RowsSame DEF Send
<1>2. \A u \in All : thread'[u] = IF u = t THEN x ELSE thread[u]
  BY Constants DEF Send, TypeInv, TypeOK
<1>3. AskKept
  BY <1>2 DEF AskKept, NeedsInv, AskInv
<1>4. \A v \in Runners : runner'[v].job = runner[v].job
  BY DEF Send, TypeInv, TypeOK, Worker
<1>5. HoldKept
  BY <1>4 DEF HoldKept, NeedsInv, HoldInv
<1> QED BY <1>1, <1>3, <1>5, KeptSuffices

LEMMA RunnerNeeds ==
    ASSUME TypeInv, NeedsInv, NEW w \in Runners, NEW t \in Threads, RunnerStep(w, t)
    PROVE  NeedsInv'
<1>1. CASE Poll(w, t)
  <2> DEFINE x == [Idle EXCEPT !.pc = "select"]
  <2>1. x.pc = "select" /\ Send(w, t, "idle", "claiming", x)
    BY <1>1 DEF Poll, Idle
  <2> HIDE DEF x
  <2> QED BY <2>1, KeptSend
<1>2. CASE Start(w, t)
  <2> DEFINE x == [Idle EXCEPT !.pc = "start", !.job = runner[w].job]
  <2>1. x.job = runner[w].job /\ Send(w, t, "claimed", "starting", x)
    BY <1>2 DEF Start, Idle
  <2>2. runner[w].job # NoJob
    BY <1>2, Constants DEF Start, Send, TypeInv, RunnerInv, Working
  <2> HIDE DEF x
  <2> QED BY <2>1, <2>2, KeptSend DEF NeedsInv, HoldInv
<1>3. CASE Finish(w, t) \/ Report(w, t)
  <2>1. PICK c, p, q : Send(w, t, p, q,
              [Idle EXCEPT !.pc = "complete", !.job = runner[w].job, !.word = c])
    BY <1>3 DEF Finish, Report
  <2> DEFINE x == [Idle EXCEPT !.pc = "complete", !.job = runner[w].job, !.word = c]
  <2>2. x.pc = "complete" /\ Send(w, t, p, q, x)
    BY <2>1 DEF Idle
  <2> HIDE DEF x
  <2> QED BY <2>2, KeptSend
<1> QED BY <1>1, <1>2, <1>3 DEF RunnerStep

LEMMA RunnerAloneNeeds ==
    ASSUME TypeInv, NeedsInv, NEW w \in Runners,
           ExecuteError(w) \/ Heartbeat(w) \/ TimeOut(w) \/ RestartRunner(w)
    PROVE  NeedsInv'
<1> USE KeptSuffices
<1>0. /\ runner[w] \in Worker /\ runner \in [Runners -> Worker]
      /\ IF runner[w].phase \in Working THEN runner[w].job \in Jobs ELSE runner[w].job = NoJob
  BY DEF TypeInv, TypeOK, RunnerInv
<1>1. CASE Heartbeat(w)
  <2>1. runner[w].job \in Jobs
    BY <1>0, <1>1 DEF Heartbeat, Working
  <2>2. RowsKept
    BY <1>1, <2>1, RowsHeartbeat DEF Heartbeat
  <2> QED BY <1>1, <2>2, ProcsSame DEF Heartbeat
<1>2. CASE ExecuteError(w) \/ TimeOut(w) \/ RestartRunner(w)
  <2>1. RowsKept
    BY <1>2, RowsSame DEF ExecuteError, TimeOut, RestartRunner
  <2>2. AskKept
    BY <1>2 DEF ExecuteError, TimeOut, RestartRunner, AskKept, NeedsInv, AskInv
  <2>3. \A good \in BOOLEAN, j \in Jobs \cup {NoJob} :
            Resume(w, good, j).job \in {NoJob, runner[w].job, j}
    BY ResumeType
  <2>4. Resume(w, FALSE, NoJob).job \in {NoJob, runner[w].job}
    BY <2>3
  <2>5. runner'[w].job \in {NoJob, runner[w].job}
    BY <1>0, <1>2, <2>4, Records DEF ExecuteError, TimeOut, RestartRunner, Worker
  <2>6. \A v \in Runners \ {w} : runner'[v] = runner[v]
    BY <1>0, <1>2 DEF ExecuteError, TimeOut, RestartRunner
  <2>7. HoldKept
    BY <2>5, <2>6 DEF HoldKept, NeedsInv, HoldInv
  <2> QED BY <2>1, <2>2, <2>7
<1> QED BY <1>1, <1>2

LEMMA SystemNeeds ==
    ASSUME TypeInv, NeedsInv,
           SelectStale \/ FailStale \/ CrashServer \/ \E j \in Jobs : Age(j)
    PROVE  NeedsInv'
<1> USE KeptSuffices
<1>0. Reaper \in All /\ thread[Reaper] \in Request /\ jobs \in [Jobs -> JobRow]
  BY Constants DEF TypeInv, TypeOK
<1>1. CASE SelectStale
  <2>1. RowsKept
    BY <1>1, RowsSame DEF SelectStale
  <2> DEFINE x == [Idle EXCEPT !.pc = "reap", !.todo = {j \in Jobs : Stale(j)}]
  <2>2. x.pc = "reap" /\ thread' = [thread EXCEPT ![Reaper] = x]
    BY <1>1 DEF SelectStale, Idle
  <2> HIDE DEF x
  <2> QED BY <1>0, <1>1, <2>1, <2>2, KeptElsewhere DEF SelectStale
<1>2. CASE FailStale
  <2>1. PICK j \in thread[Reaper].todo, ok \in BOOLEAN :
          /\ CompleteJob(j, "failure", ok)
          /\ LET affected == thread[Reaper].next \cup {j[1]} IN
             IF thread[Reaper].todo # {j}
               THEN thread' = [thread EXCEPT ![Reaper] =
                                 [@ EXCEPT !.todo = thread[Reaper].todo \ {j},
                                           !.next = affected]]
               ELSE \E r \in affected :
                      thread' = [thread EXCEPT ![Reaper] =
                         [Idle EXCEPT !.pc = "list", !.run = r, !.next = affected \ {r}]]
    BY <1>2 DEF FailStale
  <2>2. j \in Jobs
    BY <1>0 DEF Request
  <2>3. RowsKept
    BY <2>1, <2>2, RowsComplete
  <2>4. UNCHANGED runner /\ thread[Reaper].pc = "reap"
    BY <1>2 DEF FailStale, At
  <2> DEFINE affected == thread[Reaper].next \cup {j[1]}
  <2>5. CASE thread[Reaper].todo # {j}
    <3> DEFINE x == [thread[Reaper] EXCEPT !.todo = thread[Reaper].todo \ {j},
                                           !.next = affected]
    <3>1. x.pc = "reap" /\ thread' = [thread EXCEPT ![Reaper] = x]
      BY <1>0, <2>1, <2>4, <2>5 DEF Request
    <3> HIDE DEF x
    <3> QED BY <1>0, <2>3, <2>4, <3>1, KeptElsewhere
  <2>6. CASE thread[Reaper].todo = {j}
    <3>1. PICK r \in affected :
            thread' = [thread EXCEPT ![Reaper] =
                         [Idle EXCEPT !.pc = "list", !.run = r, !.next = affected \ {r}]]
      BY <2>1, <2>6
    <3> DEFINE x == [Idle EXCEPT !.pc = "list", !.run = r, !.next = affected \ {r}]
    <3>2. x.pc = "list" /\ thread' = [thread EXCEPT ![Reaper] = x]
      BY <3>1 DEF Idle
    <3> HIDE DEF x
    <3> QED BY <1>0, <2>3, <2>4, <3>2, KeptElsewhere
  <2> QED BY <2>5, <2>6
<1>3. CASE CrashServer
  <2>1. RowsKept
    BY <1>3, RowsSame DEF CrashServer
  <2>2. AskKept
    BY <1>3, Records DEF CrashServer, AskKept
  <2>3. ASSUME NEW w \in Runners PROVE runner'[w].job \in {NoJob, runner[w].job}
    <3>1. \A good \in BOOLEAN, j \in Jobs \cup {NoJob} :
              Resume(w, good, j).job \in {NoJob, runner[w].job, j}
      BY ResumeType
    <3>2. Resume(w, FALSE, NoJob).job \in {NoJob, runner[w].job}
      BY <3>1
    <3>3. runner'[w] = IF runner[w].thread = NoThread THEN runner[w]
                       ELSE Resume(w, FALSE, NoJob)
      BY <1>3 DEF CrashServer
    <3> QED BY <3>2, <3>3
  <2>4. HoldKept
    BY <2>3 DEF HoldKept, NeedsInv, HoldInv
  <2> QED BY <2>1, <2>2, <2>4
<1>4. ASSUME NEW j \in Jobs, Age(j) PROVE NeedsInv'
  <2>1. PICK x \in {[jobs[j] EXCEPT !.beat = "old"], [jobs[j] EXCEPT !.base = "old"]} :
            jobs' = [jobs EXCEPT ![j] = x]
    BY <1>4 DEF Age
  <2>2. x.status = jobs[j].status /\ x.conclusion = jobs[j].conclusion
    BY <1>0, <2>1 DEF JobRow
  <2>3. RowsKept
    BY <1>4, <2>1, <2>2, RowsWrite DEF Age
  <2> QED BY <1>4, <2>3, ProcsSame DEF Age
<1> QED BY <1>1, <1>2, <1>3, <1>4

LEMMA InitNeeds == Init => NeedsInv
<1> SUFFICES ASSUME Init PROVE NeedsInv
  OBVIOUS
<1>1. \A j \in Jobs : jobs[j].status = "absent" /\ jobs[j].conclusion = "none"
  BY DEF Init, NewJob
<1>2. ConcInv /\ NeedsBeforeRun
  BY <1>1 DEF ConcInv, NeedsBeforeRun
<1>3. AskInv /\ HoldInv
  BY Records DEF Init, AskInv, HoldInv
<1> QED BY <1>2, <1>3 DEF NeedsInv

LEMMA NeedsStep == TypeInv /\ NeedsInv /\ [Next]_vars => NeedsInv'
<1> SUFFICES ASSUME TypeInv, NeedsInv, [Next]_vars PROVE NeedsInv'
  OBVIOUS
<1>1. CASE UNCHANGED vars
  BY <1>1, RowsSame, ProcsSame, KeptSuffices DEF vars
<1>2. ASSUME NEW t \in Threads, HandlerStep(t) \/ UserStep(t) PROVE NeedsInv'
  BY <1>2, ClaimStartNeeds, FinishCancelNeeds, CreateNeeds, CheckNeeds, Constants
     DEF HandlerStep, UserStep
<1>3. CASE ReaperStep
  BY <1>3, SystemNeeds, CheckNeeds, Constants DEF ReaperStep
<1> QED BY <1>1, <1>2, <1>3, RunnerNeeds, RunnerAloneNeeds, SystemNeeds DEF Next

(* No job is pending or in progress before every job it needs has          *)
(* concluded with success, for every workflow, although ClaimJob tests the *)
(* needs in one statement and writes in another, answers are lost, and     *)
(* StartJob revives whatever row it is asked for.                          *)
THEOREM NeedsFirst == Spec => []NeedsBeforeRun
<1>1. Init => TypeInv /\ NeedsInv
  BY InitType, InitNeeds
<1>2. TypeInv /\ NeedsInv /\ [Next]_vars => (TypeInv /\ NeedsInv)'
  BY TypeStep, NeedsStep
<1>3. TypeInv /\ NeedsInv => NeedsBeforeRun
  BY DEF NeedsInv
<1> QED BY <1>1, <1>2, <1>3, PTL DEF Spec

-----------------------------------------------------------------------------
(* A job is given to one runner only.  A claim takes a queued row, and the *)
(* job of a runner is no longer queued; for it to stay that way no INSERT  *)
(* may hit its row, so the rows a goroutine is still to create are absent  *)
(* and nobody else creates rows of that run.  An answer reaches one runner *)
(* because a goroutine serves one runner at a time.                        *)

Taken(j) == jobs[j].status \notin {"absent", "queued"}

(* Where a goroutine serves a runner. *)
ServePCs == {"select", "claim", "start", "beat", "readRun", "markRun", "complete",
             "list", "cascade", "verdict", "conclude", "release"}

(* The rows a request relies on. *)
GoodReq(x) ==
    /\ x.pc \in {"start", "complete"} => Taken(x.job)
    /\ \A j \in x.todo : Exists(j)
    /\ x.pc \in MakePCs =>
         /\ runs[x.run].status # "absent"
         /\ \A k \in x.number..Len(JobOrder) : ~Exists(<<x.run, JobOrder[k]>>)

ReqInv  == \A t \in All : GoodReq(thread[t])
SoleInv == \A t, u \in All :
              /\ thread[t].pc \in MakePCs /\ thread[u].pc \in MakePCs
              /\ thread[t].run = thread[u].run
              => t = u
WaitInv == /\ \A w \in Runners : runner[w].thread # NoThread =>
                                    thread[runner[w].thread].pc \in ServePCs
           /\ \A w, v \in Runners :
                 runner[w].thread # NoThread /\ runner[w].thread = runner[v].thread => w = v
HeldInv == \A w \in Runners : runner[w].job # NoJob => Taken(runner[w].job)
RunInv  == \A j \in Jobs : Exists(j) => runs[j[1]].status # "absent"

ClaimInv == ReqInv /\ SoleInv /\ WaitInv /\ HeldInv /\ RunInv /\ ClaimedOnce

(* What most steps do to the tables: no row comes or goes, no job goes     *)
(* back to the queue, no run disappears.                                   *)
RowsStay == \A j \in Jobs :
    /\ jobs'[j].status = "absent" <=> jobs[j].status = "absent"
    /\ Taken(j) => jobs'[j].status \notin {"absent", "queued"}
RunsStay == \A r \in Runs : runs[r].status # "absent" => runs'[r].status # "absent"

(* GoodReq in the next state. *)
GoodNext(x) ==
    /\ x.pc \in {"start", "complete"} => jobs'[x.job].status \notin {"absent", "queued"}
    /\ \A j \in x.todo : jobs'[j].status # "absent"
    /\ x.pc \in MakePCs =>
         /\ runs'[x.run].status # "absent"
         /\ \A k \in x.number..Len(JobOrder) : jobs'[<<x.run, JobOrder[k]>>].status = "absent"

LEMMA RowsStayWrite ==
    ASSUME TypeInv, NEW j \in Jobs, NEW x, jobs' = [jobs EXCEPT ![j] = x],
           \/ x.status = jobs[j].status
           \/ Exists(j) /\ x.status \notin {"absent", "queued"}
    PROVE  RowsStay
<1>1. \A k \in Jobs : jobs'[k] = IF k = j THEN x ELSE jobs[k]
  BY DEF TypeInv, TypeOK
<1> QED BY <1>1 DEF RowsStay, Taken, Exists

LEMMA RowsStaySame == UNCHANGED jobs => RowsStay
BY DEF RowsStay, Taken

LEMMA RowsStayComplete ==
    ASSUME TypeInv, NEW j \in Jobs, Exists(j), NEW c, NEW ok \in BOOLEAN,
           CompleteJob(j, c, ok)
    PROVE  RowsStay
<1>1. CASE ok
  <2> DEFINE x == [jobs[j] EXCEPT !.status = "completed", !.conclusion = c]
  <2>1. x.status = "completed" /\ jobs' = [jobs EXCEPT ![j] = x]
    BY <1>1 DEF CompleteJob, TypeInv, TypeOK, JobRow
  <2> HIDE DEF x
  <2> QED BY <2>1, RowsStayWrite
<1>2. CASE ~ok
  BY <1>2, RowsStaySame DEF CompleteJob
<1> QED BY <1>1, <1>2

LEMMA RowsStayHeartbeat ==
    ASSUME TypeInv, NEW j \in Jobs, NEW ok \in BOOLEAN, HeartbeatJob(j, ok)
    PROVE  RowsStay
<1>1. CASE jobs' = jobs
  BY <1>1, RowsStaySame
<1>2. CASE jobs' = [jobs EXCEPT ![j].beat = "fresh"]
  <2> DEFINE x == [jobs[j] EXCEPT !.beat = "fresh"]
  <2>1. x.status = jobs[j].status /\ jobs' = [jobs EXCEPT ![j] = x]
    BY <1>2 DEF TypeInv, TypeOK, JobRow
  <2> HIDE DEF x
  <2> QED BY <2>1, RowsStayWrite
<1> QED BY <1>1, <1>2 DEF HeartbeatJob

LEMMA RunsStaySame == UNCHANGED runs => RunsStay
BY DEF RunsStay

LEMMA RunsStayComplete ==
    ASSUME TypeInv, NEW r \in Runs, NEW c, NEW ok \in BOOLEAN, CompleteWorkflowRun(r, c, ok)
    PROVE  RunsStay
<1>1. CASE ok
  <2> DEFINE x == [runs[r] EXCEPT !.status = "completed", !.conclusion = c]
  <2>1. x.status = "completed" /\ runs' = [runs EXCEPT ![r] = x]
    BY <1>1 DEF CompleteWorkflowRun, TypeInv, TypeOK, RunRow
  <2> HIDE DEF x
  <2> QED BY <2>1 DEF RunsStay, TypeInv, TypeOK
<1>2. CASE ~ok
  BY <1>2 DEF CompleteWorkflowRun, RunsStay
<1> QED BY <1>1, <1>2

(* Requests stay good as long as the tables stay. *)
LEMMA GoodStays ==
    ASSUME TypeInv, RowsStay, RunsStay, NEW x \in Request, Placed(x), GoodReq(x)
    PROVE  GoodNext(x)
<1>1. x.pc \in {"start", "complete"} => jobs'[x.job].status \notin {"absent", "queued"}
  BY DEF GoodReq, RowsStay, Placed, JobPCs
<1>2. \A j \in x.todo : jobs'[j].status # "absent"
  BY DEF GoodReq, RowsStay, Request, Exists
<1>3. ASSUME x.pc \in MakePCs
      PROVE  /\ runs'[x.run].status # "absent"
             /\ \A k \in x.number..Len(JobOrder) :
                   jobs'[<<x.run, JobOrder[k]>>].status = "absent"
  <2>1. x.run \in Runs /\ x.number \in 1..Len(JobOrder)
    BY <1>3 DEF Placed, MakePCs, RunPCs
  <2>2. \A k \in x.number..Len(JobOrder) : <<x.run, JobOrder[k]>> \in Jobs
    BY <2>1, Constants
  <2> QED BY <1>3, <2>1, <2>2 DEF GoodReq, RowsStay, RunsStay, Exists
<1> QED BY <1>1, <1>2, <1>3 DEF GoodNext

LEMMA ReqKept ==
    ASSUME \A t \in All : GoodNext(thread'[t]) PROVE ReqInv'
BY DEF GoodNext, ReqInv, GoodReq, Taken, Exists

(* The parts of the invariant that a step of one goroutine can disturb,    *)
(* when the runners are left alone.                                        *)
LEMMA ClaimThread ==
    ASSUME TypeInv, ClaimInv, RowsStay, RunsStay, UNCHANGED runner,
           NEW t \in All, NEW x, thread' = [thread EXCEPT ![t] = x], GoodNext(x),
           x.pc \in MakePCs => thread[t].pc \in MakePCs /\ x.run = thread[t].run,
           thread[t].pc \in ServePCs => x.pc \in ServePCs
    PROVE  ClaimInv'
<1>1. \A u \in All : thread'[u] = IF u = t THEN x ELSE thread[u]
  BY DEF TypeInv, TypeOK
<1>2. \A u \in All : GoodNext(thread[u])
  BY GoodStays DEF TypeInv, TypeOK, ThreadInv, ClaimInv, ReqInv
<1>3. ReqInv'
  BY <1>1, <1>2, ReqKept
<1>4. SoleInv'
  BY <1>1 DEF ClaimInv, SoleInv
<1>5. \A w \in Runners : runner[w].thread \in All \cup {NoThread}
  BY Constants DEF TypeInv, TypeOK, Worker
<1>6. WaitInv'
  BY <1>1, <1>5 DEF ClaimInv, WaitInv
<1>7. HeldInv'
  <2>1. \A w \in Runners : runner[w].job \in Jobs \cup {NoJob}
    BY DEF TypeInv, TypeOK, Worker
  <2> QED BY <2>1 DEF ClaimInv, HeldInv, RowsStay, Taken
<1>8. RunInv'
  BY Constants DEF ClaimInv, RunInv, RowsStay, RunsStay, Exists
<1>9. ClaimedOnce'
  BY DEF ClaimInv, ClaimedOnce
<1> QED BY <1>3, <1>4, <1>6, <1>7, <1>8, <1>9 DEF ClaimInv

(* ... when the goroutine has nothing to do with a job or a creation. *)
LEMMA ClaimElsewhere ==
    ASSUME TypeInv, ClaimInv, RowsStay, RunsStay, UNCHANGED runner,
           NEW t \in All, NEW x, thread' = [thread EXCEPT ![t] = x],
           x.pc \notin {"start", "complete"} \cup MakePCs,
           \A j \in x.todo : j \in Jobs /\ Exists(j),
           thread[t].pc \in ServePCs => x.pc \in ServePCs
    PROVE  ClaimInv'
<1>1. GoodNext(x)
  BY DEF GoodNext, RowsStay, Exists
<1> QED BY <1>1, ClaimThread

LEMMA ClaimGoto ==
    ASSUME TypeInv, ClaimInv, RowsStay, RunsStay, UNCHANGED runner,
           NEW t \in All, NEW p, Goto(t, p), p \notin {"start", "complete"} \cup MakePCs,
           thread[t].pc \in ServePCs => p \in ServePCs
    PROVE  ClaimInv'
<1>1. thread[t] \in Request
  BY DEF TypeInv, TypeOK
<1> DEFINE x == [thread[t] EXCEPT !.pc = p]
<1>2. x.pc = p /\ x.todo = thread[t].todo /\ thread' = [thread EXCEPT ![t] = x]
  BY <1>1 DEF Goto, Request
<1>3. \A j \in thread[t].todo : j \in Jobs /\ Exists(j)
  BY <1>1 DEF Request, ClaimInv, ReqInv, GoodReq
<1> HIDE DEF x
<1> QED BY <1>2, <1>3, ClaimElsewhere

(* A step that takes jobs and goroutines from runners and gives none.      *)
LEMMA ClaimRunners ==
    ASSUME TypeInv, ClaimInv, RowsStay, RunsStay, ReqInv', SoleInv',
           \A w \in Runners :
              /\ runner'[w].job \in {NoJob, runner[w].job}
              /\ \/ runner'[w].thread = NoThread
                 \/ /\ runner'[w].thread = runner[w].thread
                    /\ thread'[runner[w].thread].pc \in ServePCs
    PROVE  ClaimInv'
<1>1. WaitInv'
  BY DEF ClaimInv, WaitInv
<1>2. HeldInv'
  <2>1. \A w \in Runners : runner[w].job \in Jobs \cup {NoJob}
    BY DEF TypeInv, TypeOK, Worker
  <2> QED BY <2>1 DEF ClaimInv, HeldInv, RowsStay, Taken
<1>3. RunInv'
  BY Constants DEF ClaimInv, RunInv, RowsStay, RunsStay, Exists
<1>4. ClaimedOnce'
  BY DEF ClaimInv, ClaimedOnce
<1> QED BY <1>1, <1>2, <1>3, <1>4 DEF ClaimInv

(* A goroutine that ends, whatever happens to the runners. *)
LEMMA ClaimIdle ==
    ASSUME TypeInv, ClaimInv, RowsStay, RunsStay, NEW t \in All,
           thread' = [thread EXCEPT ![t] = Idle]
    PROVE  ReqInv' /\ SoleInv'
<1>1. \A u \in All : thread'[u] = IF u = t THEN Idle ELSE thread[u]
  BY DEF TypeInv, TypeOK
<1>2. \A u \in All : GoodNext(thread[u])
  BY GoodStays DEF TypeInv, TypeOK, ThreadInv, ClaimInv, ReqInv
<1>3. GoodNext(Idle)
  BY Records DEF GoodNext, MakePCs
<1>4. ReqInv'
  BY <1>1, <1>2, <1>3, ReqKept
<1>5. SoleInv'
  BY <1>1, Records DEF ClaimInv, SoleInv, MakePCs
<1> QED BY <1>4, <1>5

LEMMA ClaimAnswer ==
    ASSUME TypeInv, ClaimInv, RowsStay, RunsStay, NEW t \in All, NEW good \in BOOLEAN,
           Answer(t, good, NoJob)
    PROVE  ClaimInv'
<1>1. ReqInv' /\ SoleInv'
  BY ClaimIdle DEF Answer
<1>2. ASSUME NEW w \in Runners
      PROVE  /\ runner'[w].job \in {NoJob, runner[w].job}
             /\ \/ runner'[w].thread = NoThread
                \/ /\ runner'[w].thread = runner[w].thread
                   /\ thread'[runner[w].thread].pc \in ServePCs
  <2>1. \A j \in Jobs \cup {NoJob} :
           /\ Resume(w, good, j).thread = NoThread
           /\ Resume(w, good, j).job \in {NoJob, runner[w].job, j}
    BY ResumeType
  <2>2. runner'[w] = IF runner[w].thread = t THEN Resume(w, good, NoJob) ELSE runner[w]
    BY DEF Answer
  <2>3. CASE runner[w].thread = t
    BY <2>1, <2>2, <2>3
  <2>4. CASE runner[w].thread # t
    <3>1. runner[w].thread \in All \cup {NoThread}
      BY Constants DEF TypeInv, TypeOK, Worker
    <3>2. runner[w].thread # NoThread => thread'[runner[w].thread] = thread[runner[w].thread]
      BY <2>4, <3>1 DEF Answer, TypeInv, TypeOK
    <3> QED BY <2>2, <2>4, <3>2 DEF ClaimInv, WaitInv
  <2> QED BY <2>3, <2>4
<1> QED BY <1>1, <1>2, ClaimRunners

LEMMA ClaimEndCheck ==
    ASSUME TypeInv, ClaimInv, RowsStay, RunsStay, NEW t \in All, EndCheck(t)
    PROVE  ClaimInv'
<1>1. CASE Answer(t, TRUE, NoJob)
  BY <1>1, ClaimAnswer
<1>2. CASE /\ \E r \in thread[t].next :
                thread' = [thread EXCEPT ![t] = [Idle EXCEPT !.pc = "list", !.run = r,
                                                 !.next = thread[t].next \ {r}]]
           /\ UNCHANGED runner
  <2>1. PICK r \in thread[t].next :
            thread' = [thread EXCEPT ![t] = [Idle EXCEPT !.pc = "list", !.run = r,
                                             !.next = thread[t].next \ {r}]]
    BY <1>2
  <2> DEFINE x == [Idle EXCEPT !.pc = "list", !.run = r, !.next = thread[t].next \ {r}]
  <2>2. x.pc = "list" /\ x.todo = {} /\ thread' = [thread EXCEPT ![t] = x]
    BY <2>1 DEF Idle
  <2> HIDE DEF x
  <2> QED BY <1>2, <2>2, ClaimElsewhere DEF ServePCs, MakePCs
<1> QED BY <1>1, <1>2 DEF EndCheck

(* The UPDATE of ClaimJob takes a queued job, which no runner has, and the *)
(* answer gives it to the one runner that waits.                           *)
LEMMA ClaimSucceeds ==
    ASSUME TypeInv, ClaimInv, UNCHANGED runs, NEW t \in All, NEW j \in Jobs,
           jobs[j].status = "queued", jobs' = [jobs EXCEPT ![j].status = "pending"],
           Answer(t, TRUE, j)
    PROVE  ClaimInv'
<1> DEFINE x == [jobs[j] EXCEPT !.status = "pending"]
<1>1. x.status = "pending" /\ jobs' = [jobs EXCEPT ![j] = x]
  BY DEF TypeInv, TypeOK, JobRow
<1> HIDE DEF x
<1>2. RowsStay /\ RunsStay /\ jobs'[j].status = "pending"
  <2>1. RowsStay
    BY <1>1, RowsStayWrite DEF Exists
  <2>2. jobs'[j].status = "pending"
    BY <1>1 DEF TypeInv, TypeOK
  <2> QED BY <2>1, <2>2, RunsStaySame
<1>3. ReqInv' /\ SoleInv'
  BY <1>2, ClaimIdle DEF Answer
<1>4. \A w \in Runners :
         IF runner[w].thread = t
           THEN runner'[w].thread = NoThread /\ runner'[w].job \in {NoJob, runner[w].job, j}
           ELSE runner'[w] = runner[w]
  <2>1. \A w \in Runners, good \in BOOLEAN :
           /\ Resume(w, good, j).thread = NoThread
           /\ Resume(w, good, j).job \in {NoJob, runner[w].job, j}
    BY ResumeType
  <2>2. \A w \in Runners :
           /\ Resume(w, TRUE, j).thread = NoThread
           /\ Resume(w, TRUE, j).job \in {NoJob, runner[w].job, j}
    BY <2>1
  <2>3. \A w \in Runners :
           runner'[w] = IF runner[w].thread = t THEN Resume(w, TRUE, j) ELSE runner[w]
    BY DEF Answer
  <2> QED BY <2>2, <2>3
<1>5. WaitInv'
  <2>1. \A w \in Runners : runner[w].thread \in All \cup {NoThread}
    BY Constants DEF TypeInv, TypeOK, Worker
  <2>2. \A u \in All \ {t} : thread'[u] = thread[u]
    BY DEF Answer, TypeInv, TypeOK
  <2>3. \A w \in Runners : runner'[w].thread # NoThread =>
              runner'[w].thread = runner[w].thread /\ runner[w].thread # t
    BY <1>4
  <2> QED BY <2>1, <2>2, <2>3 DEF ClaimInv, WaitInv
<1>6. \A w \in Runners : runner[w].job \in Jobs \cup {NoJob} /\ runner[w].job # j
  BY Constants DEF ClaimInv, HeldInv, Taken, TypeInv, TypeOK, Worker
<1>7. HeldInv'
  <2>1. \A w \in Runners : runner'[w].job \in {NoJob, runner[w].job, j}
    BY <1>4
  <2> QED BY <1>2, <1>6, <2>1 DEF ClaimInv, HeldInv, RowsStay, Taken
<1>8. RunInv'
  BY <1>2, Constants DEF ClaimInv, RunInv, RowsStay, RunsStay, Exists
<1>9. ClaimedOnce'
  <2>1. ASSUME NEW w \in Runners, NEW v \in Runners, runner'[w].job # NoJob,
               runner'[w].job = runner'[v].job
        PROVE  w = v
    <3>1. NoThread # t
      BY Constants
    <3>2. CASE runner'[w].job = j
      <4>1. runner[w].thread = t /\ runner[v].thread = t
        BY <1>4, <1>6, <2>1, <3>2
      <4> QED BY <3>1, <4>1 DEF ClaimInv, WaitInv
    <3>3. CASE runner'[w].job # j
      <4>1. runner'[w].job = runner[w].job /\ runner'[v].job = runner[v].job
        BY <1>4, <2>1, <3>3
      <4> QED BY <2>1, <4>1 DEF ClaimInv, ClaimedOnce
    <3> QED BY <3>2, <3>3
  <2> QED BY <2>1 DEF ClaimedOnce
<1> QED BY <1>3, <1>5, <1>7, <1>8, <1>9 DEF ClaimInv

LEMMA ClaimStartClaims ==
    ASSUME TypeInv, ClaimInv, NEW t \in Threads,
           \/ SelectJob(t) \/ ClaimJob(t) \/ StartJob(t) \/ FirstHeartbeat(t)
           \/ ReadRun(t) \/ MarkRun(t)
    PROVE  ClaimInv'
<1>0. /\ t \in All /\ thread[t] \in Request /\ Placed(thread[t]) /\ GoodReq(thread[t])
      /\ jobs \in [Jobs -> JobRow]
  BY Constants DEF TypeInv, TypeOK, ThreadInv, ClaimInv, ReqInv
<1>1. CASE SelectJob(t)
  <2>1. RowsStay /\ RunsStay
    BY <1>1, RowsStaySame, RunsStaySame DEF SelectJob
  <2>2. CASE \E j \in {k \in Jobs : Claimable(k)} :
                /\ thread' = [thread EXCEPT ![t] = [@ EXCEPT !.pc = "claim", !.job = j]]
                /\ UNCHANGED runner
    <3>1. PICK j \in Jobs :
            thread' = [thread EXCEPT ![t] = [thread[t] EXCEPT !.pc = "claim", !.job = j]]
      BY <2>2
    <3> DEFINE x == [thread[t] EXCEPT !.pc = "claim", !.job = j]
    <3>2. x.pc = "claim" /\ x.todo = thread[t].todo /\ thread' = [thread EXCEPT ![t] = x]
      BY <1>0, <3>1 DEF Request
    <3>3. \A k \in thread[t].todo : k \in Jobs /\ Exists(k)
      BY <1>0 DEF Request, GoodReq
    <3> HIDE DEF x
    <3> QED BY <1>0, <2>1, <2>2, <3>2, <3>3, ClaimElsewhere DEF ServePCs, MakePCs
  <2>3. CASE \E ok \in BOOLEAN : Answer(t, ok, NoJob)
    BY <1>0, <2>1, <2>3, ClaimAnswer
  <2> QED BY <1>1, <2>2, <2>3 DEF SelectJob
<1>2. CASE ClaimJob(t)
  <2> DEFINE j == thread[t].job
  <2>1. j \in Jobs /\ UNCHANGED runs
    BY <1>0, <1>2 DEF ClaimJob, At, Placed, JobPCs
  <2>2. CASE /\ jobs[j].status = "queued"
             /\ jobs' = [jobs EXCEPT ![j].status = "pending"] /\ Answer(t, TRUE, j)
    BY <1>0, <2>1, <2>2, ClaimSucceeds
  <2>3. CASE UNCHANGED jobs /\ \E ok \in BOOLEAN : Answer(t, ok, NoJob)
    BY <1>0, <2>1, <2>3, RowsStaySame, RunsStaySame, ClaimAnswer
  <2> QED BY <1>2, <2>2, <2>3 DEF ClaimJob
<1>3. CASE StartJob(t)
  <2> DEFINE j == thread[t].job
  <2>1. j \in Jobs /\ Exists(j) /\ RunsStay
    BY <1>0, <1>3, RunsStaySame
       DEF StartJob, At, Placed, JobPCs, GoodReq, Taken, Exists
  <2>2. CASE /\ jobs' = [jobs EXCEPT ![j] =
                              [@ EXCEPT !.status = "in_progress", !.base = "fresh"]]
             /\ Goto(t, "beat") /\ UNCHANGED runner
    <3> DEFINE x == [jobs[j] EXCEPT !.status = "in_progress", !.base = "fresh"]
    <3>1. x.status = "in_progress" /\ jobs' = [jobs EXCEPT ![j] = x]
      BY <1>0, <2>1, <2>2 DEF JobRow
    <3> HIDE DEF x
    <3>2. RowsStay
      BY <2>1, <3>1, RowsStayWrite
    <3> QED BY <1>0, <2>1, <2>2, <3>2, ClaimGoto DEF ServePCs, MakePCs
  <2>3. CASE UNCHANGED jobs /\ Answer(t, FALSE, NoJob)
    BY <1>0, <2>1, <2>3, RowsStaySame, ClaimAnswer
  <2> QED BY <1>3, <2>2, <2>3 DEF StartJob
<1>4. CASE FirstHeartbeat(t)
  <2>1. RowsStay /\ RunsStay
    BY <1>0, <1>4, RowsStayHeartbeat, RunsStaySame DEF FirstHeartbeat, At, Placed, JobPCs
  <2> QED BY <1>0, <1>4, <2>1, ClaimGoto DEF FirstHeartbeat, ServePCs, MakePCs
<1>5. CASE ReadRun(t)
  <2>1. RowsStay /\ RunsStay
    BY <1>5, RowsStaySame, RunsStaySame DEF ReadRun
  <2>2. CASE Goto(t, "markRun") /\ UNCHANGED runner
    BY <1>0, <2>1, <2>2, ClaimGoto DEF ServePCs, MakePCs
  <2>3. CASE Answer(t, TRUE, NoJob)
    BY <1>0, <2>1, <2>3, ClaimAnswer
  <2> QED BY <1>5, <2>2, <2>3 DEF ReadRun
<1>6. CASE MarkRun(t)
  <2>1. RowsStay
    BY <1>6, RowsStaySame DEF MarkRun
  <2>2. RunsStay
    <3>1. thread[t].job[1] \in Runs
      BY <1>0, <1>6, Constants DEF MarkRun, At, Placed, JobPCs
    <3> QED BY <1>6, <3>1 DEF MarkRun, RunsStay, TypeInv, TypeOK, RunRow
  <2> QED BY <1>0, <1>6, <2>1, <2>2, ClaimAnswer DEF MarkRun
<1> QED BY <1>1, <1>2, <1>3, <1>4, <1>5, <1>6

LEMMA ClaimStrike ==
    ASSUME TypeInv, ClaimInv, RowsStay, RunsStay, UNCHANGED runner,
           NEW t \in All, NEW j, NEW here, NEW after, Strike(t, j, here, after),
           \/ here = "cascade" /\ after = "verdict"
           \/ here = "cancelJobs" /\ after = "cancelJobs" /\ thread[t].pc = "cancelJobs"
    PROVE  ClaimInv'
<1>1. thread[t] \in Request /\ GoodReq(thread[t])
  BY DEF TypeInv, TypeOK, ClaimInv, ReqInv
<1> DEFINE x == [thread[t] EXCEPT !.todo = thread[t].todo \ {j},
                                  !.pc = IF thread[t].todo = {j} THEN after ELSE here]
<1>2. x.pc \in {after, here} /\ x.todo \subseteq thread[t].todo
  BY <1>1 DEF Request
<1>3. thread' = [thread EXCEPT ![t] = x]
  BY DEF Strike
<1>4. \A k \in thread[t].todo : k \in Jobs /\ Exists(k)
  BY <1>1 DEF Request, GoodReq
<1> HIDE DEF x
<1> QED BY <1>2, <1>3, <1>4, ClaimElsewhere DEF ServePCs, MakePCs

LEMMA CheckClaims ==
    ASSUME TypeInv, ClaimInv, NEW t \in All, CheckStep(t)
    PROVE  ClaimInv'
<1>0. thread[t] \in Request /\ Placed(thread[t]) /\ GoodReq(thread[t])
  BY DEF TypeInv, TypeOK, ThreadInv, ClaimInv, ReqInv
<1>a. thread[t].run \in Runs
  BY <1>0 DEF CheckStep, ListJobs, CancelBlocked, ReadVerdict, Conclude, Release, At,
              Placed, RunPCs
<1>b. \A k \in thread[t].todo : k \in Jobs /\ Exists(k)
  BY <1>0 DEF Request, GoodReq
<1>1. CASE ListJobs(t)
  <2>1. RowsStay /\ RunsStay
    BY <1>1, RowsStaySame, RunsStaySame DEF ListJobs
  <2> DEFINE p == IF Blocked(thread[t].run) = {} THEN "verdict" ELSE "cascade"
             x == [thread[t] EXCEPT !.todo = Blocked(thread[t].run), !.pc = p]
  <2>2. EndCheck(t) \/ (thread' = [thread EXCEPT ![t] = x] /\ UNCHANGED runner)
    BY <1>1 DEF ListJobs
  <2>3. x.pc \in {"verdict", "cascade"} /\ x.todo = Blocked(thread[t].run)
    BY <1>0 DEF Request
  <2>4. \A k \in Blocked(thread[t].run) : k \in Jobs /\ Exists(k)
    BY <1>a, Constants DEF Blocked, Exists
  <2> HIDE DEF x
  <2> QED BY <2>1, <2>2, <2>3, <2>4, ClaimEndCheck, ClaimElsewhere DEF ServePCs, MakePCs
<1>2. CASE CancelBlocked(t)
  <2>1. PICK j \in thread[t].todo, ok \in BOOLEAN :
            CompleteJob(j, "cancelled", ok) /\ Strike(t, j, "cascade", "verdict")
    BY <1>2 DEF CancelBlocked
  <2>2. RowsStay /\ RunsStay
    BY <1>2, <1>b, <2>1, RowsStayComplete, RunsStaySame DEF CancelBlocked
  <2> QED BY <1>2, <2>1, <2>2, ClaimStrike DEF CancelBlocked
<1>3. CASE ReadVerdict(t)
  <2>1. RowsStay /\ RunsStay
    BY <1>3, RowsStaySame, RunsStaySame DEF ReadVerdict
  <2> DEFINE x == [thread[t] EXCEPT !.pc = "conclude", !.word = Verdict(thread[t].run)]
  <2>2. EndCheck(t) \/ (thread' = [thread EXCEPT ![t] = x] /\ UNCHANGED runner)
    BY <1>3 DEF ReadVerdict
  <2>3. x.pc = "conclude" /\ x.todo = thread[t].todo
    BY <1>0 DEF Request
  <2> HIDE DEF x
  <2> QED BY <1>b, <2>1, <2>2, <2>3, ClaimEndCheck, ClaimElsewhere DEF ServePCs, MakePCs
<1>4. CASE Conclude(t)
  <2>1. RowsStay /\ RunsStay
    BY <1>4, <1>a, RowsStaySame, RunsStayComplete DEF Conclude
  <2> QED BY <1>4, <2>1, ClaimGoto DEF Conclude, ServePCs, MakePCs
<1>5. CASE Release(t)
  <2>1. RowsStay /\ RunsStay
    BY <1>5, RowsStaySame, RunsStaySame DEF Release
  <2> QED BY <1>5, <2>1, ClaimEndCheck DEF Release
<1> QED BY <1>1, <1>2, <1>3, <1>4, <1>5 DEF CheckStep

LEMMA FinishCancelClaims ==
    ASSUME TypeInv, ClaimInv, NEW t \in Threads,
           FinishJob(t) \/ CancelRun(t) \/ ListLive(t) \/ CancelJob(t) \/ BeginCancel(t)
    PROVE  ClaimInv'
<1>0. t \in All /\ thread[t] \in Request /\ Placed(thread[t]) /\ GoodReq(thread[t])
  BY Constants DEF TypeInv, TypeOK, ThreadInv, ClaimInv, ReqInv
<1>b. \A k \in thread[t].todo : k \in Jobs /\ Exists(k)
  BY <1>0 DEF Request, GoodReq
<1>1. CASE FinishJob(t)
  <2>1. thread[t].job \in Jobs /\ Exists(thread[t].job) /\ thread[t].pc \in ServePCs
    BY <1>0, <1>1 DEF FinishJob, At, Placed, JobPCs, GoodReq, Taken, Exists, ServePCs
  <2>2. RowsStay /\ RunsStay
    BY <1>1, <2>1, RowsStayComplete, RunsStaySame DEF FinishJob
  <2> DEFINE x == [Idle EXCEPT !.pc = "list", !.run = thread[t].job[1]]
  <2>3. \/ thread' = [thread EXCEPT ![t] = x] /\ UNCHANGED runner
        \/ Answer(t, TRUE, NoJob)
    BY <1>1 DEF FinishJob
  <2>4. x.pc = "list" /\ x.todo = {}
    BY DEF Idle
  <2> HIDE DEF x
  <2>5. CASE Answer(t, TRUE, NoJob)
    BY <1>0, <2>2, <2>5, ClaimAnswer
  <2>6. CASE thread' = [thread EXCEPT ![t] = x] /\ UNCHANGED runner
    BY <1>0, <2>2, <2>4, <2>6, ClaimElsewhere DEF ServePCs, MakePCs
  <2> QED BY <2>3, <2>5, <2>6
<1>2. CASE CancelRun(t)
  <2>1. RowsStay /\ RunsStay /\ thread[t].pc = "cancelRun" /\ UNCHANGED runner
    BY <1>0, <1>2, RowsStaySame, RunsStayComplete DEF CancelRun, At, Placed, RunPCs
  <2> DEFINE x == [thread[t] EXCEPT !.pc = "listLive"]
  <2>2. \E y \in {x, Idle} : thread' = [thread EXCEPT ![t] = y]
    BY <1>2 DEF CancelRun
  <2>3. x.pc = "listLive" /\ x.todo = thread[t].todo
    BY <1>0 DEF Request
  <2> HIDE DEF x
  <2> QED BY <1>0, <1>b, <2>1, <2>2, <2>3, Records, ClaimElsewhere DEF ServePCs, MakePCs
<1>3. CASE ListLive(t)
  <2>1. RowsStay /\ RunsStay /\ thread[t].pc = "listLive" /\ UNCHANGED runner
    BY <1>3, RowsStaySame, RunsStaySame DEF ListLive, At
  <2> DEFINE live == {j \in JobsOf(thread[t].run) :
                         Exists(j) /\ jobs[j].status # "completed"}
             x == [thread[t] EXCEPT !.pc = "cancelJobs", !.todo = live]
  <2>2. \E y \in {x, Idle} : thread' = [thread EXCEPT ![t] = y]
    BY <1>3 DEF ListLive
  <2>3. x.pc = "cancelJobs" /\ x.todo = live
    BY <1>0 DEF Request
  <2>4. \A k \in live : k \in Jobs /\ Exists(k)
    BY <1>0, <2>1, Constants DEF Placed, RunPCs
  <2> HIDE DEF x, live
  <2> QED BY <1>0, <2>1, <2>2, <2>3, <2>4, Records, ClaimElsewhere DEF ServePCs, MakePCs
<1>4. CASE CancelJob(t)
  <2>1. PICK j \in thread[t].todo, ok \in BOOLEAN :
            /\ CompleteJob(j, "cancelled", ok)
            /\ \/ thread' = [thread EXCEPT ![t] = Idle]
               \/ Strike(t, j, "cancelJobs", "cancelJobs")
    BY <1>4 DEF CancelJob
  <2>2. RowsStay /\ RunsStay /\ thread[t].pc = "cancelJobs" /\ UNCHANGED runner
    BY <1>4, <1>b, <2>1, RowsStayComplete, RunsStaySame DEF CancelJob, At
  <2>3. CASE thread' = [thread EXCEPT ![t] = Idle]
    BY <1>0, <2>2, <2>3, Records, ClaimElsewhere DEF ServePCs, MakePCs
  <2>4. CASE Strike(t, j, "cancelJobs", "cancelJobs")
    BY <1>0, <2>2, <2>4, ClaimStrike
  <2> QED BY <2>1, <2>3, <2>4
<1>5. CASE BeginCancel(t)
  <2>1. RowsStay /\ RunsStay /\ thread[t].pc = "idle" /\ UNCHANGED runner
    BY <1>5, RowsStaySame, RunsStaySame DEF BeginCancel, At
  <2>2. PICK r \in Created :
            thread' = [thread EXCEPT ![t] = [Idle EXCEPT !.pc = "cancelRun", !.run = r]]
    BY <1>5 DEF BeginCancel
  <2> DEFINE x == [Idle EXCEPT !.pc = "cancelRun", !.run = r]
  <2>3. x.pc = "cancelRun" /\ x.todo = {} /\ thread' = [thread EXCEPT ![t] = x]
    BY <2>2 DEF Idle
  <2> HIDE DEF x
  <2> QED BY <1>0, <2>1, <2>3, ClaimElsewhere DEF ServePCs, MakePCs
<1> QED BY <1>1, <1>2, <1>3, <1>4, <1>5

(* INSERT INTO workflow_runs: the run is new, so none of its jobs exists   *)
(* and nobody else is creating them.                                       *)
LEMMA InsertRunClaims ==
    ASSUME TypeInv, ClaimInv, NEW t \in Threads, InsertRun(t)
    PROVE  ClaimInv'
<1>0. t \in All /\ thread[t] \in Request /\ GoodReq(thread[t]) /\ thread[t].pc = "insert"
  BY Constants DEF InsertRun, At, TypeInv, TypeOK, ClaimInv, ReqInv
<1>1. RowsStay /\ UNCHANGED runner
  BY RowsStaySame DEF InsertRun
<1>2. CASE thread' = [thread EXCEPT ![t] = Idle] /\ UNCHANGED runs
  BY <1>0, <1>1, <1>2, Records, RunsStaySame, ClaimElsewhere DEF ServePCs, MakePCs
<1>3. CASE \E r \in NewRun :
             /\ runs' = [runs EXCEPT ![r] =
                           [NoRow EXCEPT !.status = "queued", !.number = thread[t].number]]
             /\ thread' = [thread EXCEPT ![t] =
                   [@ EXCEPT !.run = r, !.number = 1,
                             !.pc = IF thread[t].grouped THEN "acquire" ELSE "create"]]
  <2> DEFINE p == IF thread[t].grouped THEN "acquire" ELSE "create"
             y == [NoRow EXCEPT !.status = "queued", !.number = thread[t].number]
  <2>1. PICK r \in NewRun :
          /\ runs' = [runs EXCEPT ![r] = y]
          /\ thread' = [thread EXCEPT ![t] =
                          [thread[t] EXCEPT !.run = r, !.number = 1, !.pc = p]]
    BY <1>3
  <2> DEFINE x == [thread[t] EXCEPT !.run = r, !.number = 1, !.pc = p]
  <2>2. r \in Runs /\ runs[r].status = "absent"
    BY DEF NewRun, Created
  <2>3. y.status = "queued"
    BY DEF NoRow
  <2> HIDE DEF y
  <2>4. RunsStay /\ runs'[r].status = "queued"
    BY <2>1, <2>2, <2>3 DEF RunsStay, TypeInv, TypeOK
  <2>5. /\ x.pc \in {"acquire", "create"} /\ x.run = r /\ x.number = 1
        /\ x.todo = thread[t].todo /\ thread' = [thread EXCEPT ![t] = x]
    BY <1>0, <2>1 DEF Request
  <2> HIDE DEF x
  <2>6. \A k \in 1..Len(JobOrder) : jobs[<<r, JobOrder[k]>>].status = "absent"
    <3> TAKE k \in 1..Len(JobOrder)
    <3> DEFINE j == <<r, JobOrder[k]>>
    <3>1. j \in Jobs /\ j[1] = r
      BY <2>2, Constants
    <3> HIDE DEF j
    <3>2. jobs[j].status = "absent"
      BY <2>2, <3>1 DEF ClaimInv, RunInv, Exists
    <3> QED BY <3>2 DEF j
  <2>7. GoodNext(x)
    <3>1. \A k \in thread[t].todo : k \in Jobs /\ Exists(k)
      BY <1>0 DEF Request, GoodReq
    <3>2. UNCHANGED jobs
      BY DEF InsertRun
    <3> QED BY <2>4, <2>5, <2>6, <3>1, <3>2 DEF GoodNext, Exists
  <2>8. \A u \in All : thread'[u] = IF u = t THEN x ELSE thread[u]
    BY <2>5 DEF TypeInv, TypeOK
  <2>9. \A u \in All : GoodNext(thread[u])
    BY <1>1, <2>4, GoodStays DEF TypeInv, TypeOK, ThreadInv, ClaimInv, ReqInv
  <2>10. ReqInv'
    BY <2>7, <2>8, <2>9, ReqKept
  <2>11. SoleInv'
    <3>1. \A u \in All \ {t} : thread[u].pc \in MakePCs => thread[u].run # r
      BY <2>2 DEF ClaimInv, ReqInv, GoodReq
    <3> QED BY <2>5, <2>8, <3>1 DEF ClaimInv, SoleInv
  <2>12. ASSUME NEW w \in Runners
         PROVE  /\ runner'[w].job \in {NoJob, runner[w].job}
                /\ \/ runner'[w].thread = NoThread
                   \/ /\ runner'[w].thread = runner[w].thread
                      /\ thread'[runner[w].thread].pc \in ServePCs
    <3>1. runner[w].thread \in All \cup {NoThread}
      BY Constants DEF TypeInv, TypeOK, Worker
    <3>2. runner[w].thread # t
      BY <1>0, Constants DEF ClaimInv, WaitInv, ServePCs
    <3> QED BY <1>1, <2>8, <3>1, <3>2 DEF ClaimInv, WaitInv
  <2> QED BY <1>1, <2>4, <2>10, <2>11, <2>12, ClaimRunners
<1> QED BY <1>2, <1>3 DEF InsertRun

(* INSERT INTO jobs hits an absent row that only this goroutine creates.   *)
LEMMA CreateJobClaims ==
    ASSUME TypeInv, ClaimInv, NEW t \in Threads, CreateJob(t)
    PROVE  ClaimInv'
<1>0. /\ t \in All /\ thread[t] \in Request /\ Placed(thread[t]) /\ GoodReq(thread[t])
      /\ thread[t].pc = "create"
  BY Constants DEF CreateJob, At, TypeInv, TypeOK, ThreadInv, ClaimInv, ReqInv
<1> DEFINE n == thread[t].number
           r == thread[t].run
           j == <<r, JobOrder[n]>>
           x == [thread[t] EXCEPT !.number = n + 1]
<1>1. r \in Runs /\ n \in 1..Len(JobOrder) /\ j \in Jobs /\ j[1] = r
  BY <1>0, Constants DEF Placed, MakePCs, RunPCs
<1>2. jobs[j].status = "absent" /\ runs[r].status # "absent"
  <2>1. n \in n..Len(JobOrder)
    BY <1>1, Constants
  <2> QED BY <1>0, <2>1 DEF GoodReq, MakePCs, Exists
<1>3. /\ UNCHANGED <<runner, runs>>
      /\ jobs' \in {jobs, [jobs EXCEPT ![j] = NewJob]}
      /\ \E y \in {x, Idle} :
            /\ thread' = [thread EXCEPT ![t] = y]
            /\ y = Idle \/ n < Len(JobOrder)
  BY DEF CreateJob
<1>4. /\ x.pc = "create" /\ x.run = r /\ x.number = n + 1 /\ x.todo = thread[t].todo
  BY <1>0 DEF Request
<1>5. \A k \in Jobs : k # j => jobs'[k] = jobs[k]
  BY <1>1, <1>3 DEF TypeInv, TypeOK
<1>6. ASSUME NEW k \in 1..Len(JobOrder), NEW q \in Runs, q # r \/ k # n
      PROVE  jobs'[<<q, JobOrder[k]>>] = jobs[<<q, JobOrder[k]>>]
  <2>1. <<q, JobOrder[k]>> \in Jobs /\ <<q, JobOrder[k]>> # j
    BY <1>1, <1>6, Constants, CIRunsAssumption
  <2> QED BY <1>5, <2>1
<1>7. \A k \in Jobs : Exists(k) => jobs'[k] = jobs[k]
  BY <1>2, <1>5 DEF Exists
<1> HIDE DEF x, j
<1>8. GoodNext(x) \/ n = Len(JobOrder)
  <2>1. \A k \in thread[t].todo : k \in Jobs /\ Exists(k)
    BY <1>0 DEF Request, GoodReq
  <2>2. \A k \in (n + 1)..Len(JobOrder) : k \in 1..Len(JobOrder) /\ k # n /\ k \in n..Len(JobOrder)
    BY <1>1, Constants
  <2>3. \A k \in (n + 1)..Len(JobOrder) : jobs'[<<r, JobOrder[k]>>].status = "absent"
    BY <1>0, <1>1, <1>6, <2>2 DEF GoodReq, MakePCs, Exists
  <2>4. \A k \in x.todo : jobs'[k].status # "absent"
    BY <1>4, <1>7, <2>1 DEF Exists
  <2> QED BY <1>2, <1>3, <1>4, <2>3, <2>4 DEF GoodNext
<1>9. ASSUME NEW u \in All, u # t PROVE GoodNext(thread[u])
  <2>1. thread[u] \in Request /\ Placed(thread[u]) /\ GoodReq(thread[u])
    BY DEF TypeInv, TypeOK, ThreadInv, ClaimInv, ReqInv
  <2>2. thread[u].pc \in {"start", "complete"} =>
            jobs'[thread[u].job].status \notin {"absent", "queued"}
    BY <1>7, <2>1 DEF GoodReq, Taken, Exists, Placed, JobPCs
  <2>3. \A k \in thread[u].todo : jobs'[k].status # "absent"
    BY <1>7, <2>1 DEF GoodReq, Exists, Request
  <2>4. ASSUME thread[u].pc \in MakePCs
        PROVE  /\ runs'[thread[u].run].status # "absent"
               /\ \A k \in thread[u].number..Len(JobOrder) :
                     jobs'[<<thread[u].run, JobOrder[k]>>].status = "absent"
    <3>1. thread[u].run # r /\ thread[u].run \in Runs
      BY <1>0, <1>9, <2>1, <2>4 DEF ClaimInv, SoleInv, MakePCs, Placed, RunPCs
    <3>2. \A k \in thread[u].number..Len(JobOrder) : k \in 1..Len(JobOrder)
      BY <2>1, <2>4, Constants DEF Placed
    <3> QED BY <1>3, <1>6, <2>1, <2>4, <3>1, <3>2 DEF GoodReq, Exists
  <2> QED BY <2>2, <2>3, <2>4 DEF GoodNext
<1>10. ReqInv' /\ SoleInv' /\ WaitInv'
  <2>1. PICK y \in {x, Idle} :
            /\ thread' = [thread EXCEPT ![t] = y]
            /\ y = Idle \/ n < Len(JobOrder)
    BY <1>3
  <2>2. \A u \in All : thread'[u] = IF u = t THEN y ELSE thread[u]
    BY <2>1 DEF TypeInv, TypeOK
  <2>3. GoodNext(Idle)
    BY Records DEF GoodNext, MakePCs
  <2>4. GoodNext(y)
    BY <1>1, <1>8, <2>1, <2>3, Constants
  <2>5. ReqInv'
    BY <1>9, <2>2, <2>4, ReqKept
  <2>6. SoleInv'
    BY <1>0, <1>4, <2>2, Records DEF ClaimInv, SoleInv, MakePCs
  <2>7. \A w \in Runners : runner[w].thread \in (All \cup {NoThread}) \ {t}
    BY <1>0, Constants DEF TypeInv, TypeOK, Worker, ClaimInv, WaitInv, ServePCs
  <2>8. WaitInv'
    BY <1>3, <2>2, <2>7 DEF ClaimInv, WaitInv
  <2> QED BY <2>5, <2>6, <2>8
<1>11. HeldInv' /\ ClaimedOnce'
  <2>1. \A w \in Runners : runner[w].job \in Jobs \cup {NoJob}
    BY DEF TypeInv, TypeOK, Worker
  <2>2. HeldInv'
    BY <1>3, <1>7, <2>1 DEF ClaimInv, HeldInv, Taken, Exists
  <2> QED BY <1>3, <2>2 DEF ClaimInv, ClaimedOnce
<1>12. RunInv'
  BY <1>1, <1>2, <1>3, <1>5 DEF ClaimInv, RunInv, Exists
<1> QED BY <1>10, <1>11, <1>12 DEF ClaimInv

LEMMA CreateClaims ==
    ASSUME TypeInv, ClaimInv, NEW t \in Threads,
           \/ BeginTrigger(t) \/ BeginUngrouped(t) \/ CancelOld(t) \/ ReleaseOld(t)
           \/ PickNumber(t) \/ AcquireLock(t)
    PROVE  ClaimInv'
<1>0. t \in All /\ thread[t] \in Request /\ Placed(thread[t]) /\ GoodReq(thread[t])
  BY Constants DEF TypeInv, TypeOK, ThreadInv, ClaimInv, ReqInv
<1>b. \A k \in thread[t].todo : k \in Jobs /\ Exists(k)
  BY <1>0 DEF Request, GoodReq
<1>1. CASE BeginTrigger(t) \/ BeginUngrouped(t)
  <2>1. RowsStay /\ RunsStay /\ thread[t].pc = "idle" /\ UNCHANGED runner
    BY <1>1, RowsStaySame, RunsStaySame DEF BeginTrigger, BeginUngrouped, At
  <2>2. PICK x : /\ thread' = [thread EXCEPT ![t] = x]
                 /\ x.pc \in {"cancelOld", "number"} /\ x.todo = {}
    <3>1. CASE BeginTrigger(t)
      <4>1. PICK ok \in BOOLEAN : thread' = [thread EXCEPT ![t] =
              [Idle EXCEPT !.pc = IF ok /\ lock # NoRun THEN "cancelOld" ELSE "number",
                           !.run = lock, !.grouped = (Concurrency # "none")]]
        BY <3>1 DEF BeginTrigger
      <4> DEFINE p == IF ok /\ lock # NoRun THEN "cancelOld" ELSE "number"
                 y == [Idle EXCEPT !.pc = p, !.run = lock,
                                   !.grouped = (Concurrency # "none")]
      <4>2. p \in {"cancelOld", "number"} /\ y.pc = p /\ y.todo = {}
        BY DEF Idle
      <4>3. thread' = [thread EXCEPT ![t] = y]
        BY <4>1
      <4> HIDE DEF y
      <4> QED BY <4>2, <4>3
    <3>2. CASE BeginUngrouped(t)
      <4> DEFINE y == [Idle EXCEPT !.pc = "number"]
      <4>1. y.pc = "number" /\ y.todo = {} /\ thread' = [thread EXCEPT ![t] = y]
        BY <3>2 DEF BeginUngrouped, Idle
      <4> HIDE DEF y
      <4> QED BY <4>1
    <3> QED BY <1>1, <3>1, <3>2
  <2> QED BY <1>0, <2>1, <2>2, ClaimElsewhere DEF ServePCs, MakePCs
<1>2. CASE CancelOld(t)
  <2>1. RowsStay /\ RunsStay
    BY <1>0, <1>2, RowsStaySame, RunsStayComplete DEF CancelOld, At, Placed, RunPCs
  <2> QED BY <1>0, <1>2, <2>1, ClaimGoto DEF CancelOld, At, ServePCs, MakePCs
<1>3. CASE ReleaseOld(t)
  <2>1. RowsStay /\ RunsStay
    BY <1>3, RowsStaySame, RunsStaySame DEF ReleaseOld
  <2> QED BY <1>0, <1>3, <2>1, ClaimGoto DEF ReleaseOld, At, ServePCs, MakePCs
<1>4. CASE PickNumber(t)
  <2>1. RowsStay /\ RunsStay /\ thread[t].pc = "number" /\ UNCHANGED runner
    BY <1>4, RowsStaySame, RunsStaySame DEF PickNumber, At
  <2>2. PICK n : thread' \in {[thread EXCEPT ![t] = Idle],
             [thread EXCEPT ![t] = [thread[t] EXCEPT !.pc = "insert", !.number = n]]}
    BY <1>4 DEF PickNumber
  <2> DEFINE x == [thread[t] EXCEPT !.pc = "insert", !.number = n]
  <2>3. x.pc = "insert" /\ x.todo = thread[t].todo
    BY <1>0 DEF Request
  <2>4. \E y \in {x, Idle} : thread' = [thread EXCEPT ![t] = y]
    BY <2>2
  <2> HIDE DEF x
  <2> QED BY <1>0, <1>b, <2>1, <2>3, <2>4, Records, ClaimElsewhere DEF ServePCs, MakePCs
<1>5. CASE AcquireLock(t)
  <2>1. RowsStay /\ RunsStay /\ thread[t].pc = "acquire" /\ UNCHANGED runner
    BY <1>5, RowsStaySame, RunsStaySame DEF AcquireLock, At
  <2> DEFINE x == [thread[t] EXCEPT !.pc = "create"]
  <2>2. /\ x.pc = "create" /\ x.run = thread[t].run /\ x.number = thread[t].number
        /\ x.todo = thread[t].todo /\ x.job = thread[t].job
        /\ thread' = [thread EXCEPT ![t] = x]
    BY <1>0, <1>5 DEF AcquireLock, Goto, Request
  <2>3. GoodNext(thread[t])
    BY <1>0, <2>1, GoodStays
  <2> HIDE DEF x
  <2>4. GoodNext(x)
    BY <2>1, <2>2, <2>3 DEF GoodNext, MakePCs
  <2> QED BY <1>0, <2>1, <2>2, <2>4, ClaimThread DEF ServePCs, MakePCs
<1> QED BY <1>1, <1>2, <1>3, <1>4, <1>5

(* A request goes to a goroutine that serves nobody, and is about the job  *)
(* the runner holds.                                                       *)
LEMMA ClaimSend ==
    ASSUME TypeInv, ClaimInv, NEW w \in Runners, NEW t \in Threads, NEW p, NEW q, NEW x,
           Send(w, t, p, q, x), x.pc \in {"select", "start", "complete"}, x.todo = {},
           x.pc # "select" => x.job \in Jobs /\ x.job = runner[w].job
    PROVE  ClaimInv'
<1>0. t \in All /\ thread[t].pc = "idle" /\ UNCHANGED <<runs, jobs>>
  BY Constants DEF Send, At
<1>1. RowsStay /\ RunsStay
  BY <1>0, RowsStaySame, RunsStaySame
<1>2. \A u \in All : thread'[u] = IF u = t THEN x ELSE thread[u]
  BY <1>0 DEF Send, TypeInv, TypeOK
<1>3. /\ \A v \in Runners : runner'[v].job = runner[v].job
      /\ \A v \in Runners : runner'[v].thread = IF v = w THEN t ELSE runner[v].thread
  BY DEF Send, TypeInv, TypeOK, Worker
<1>4. GoodNext(x)
  BY <1>0, Constants DEF GoodNext, MakePCs, ClaimInv, HeldInv, Taken
<1>5. \A u \in All : GoodNext(thread[u])
  BY <1>1, GoodStays DEF TypeInv, TypeOK, ThreadInv, ClaimInv, ReqInv
<1>6. ReqInv'
  BY <1>2, <1>4, <1>5, ReqKept
<1>7. SoleInv'
  BY <1>2 DEF ClaimInv, SoleInv, MakePCs
<1>8. \A v \in Runners : runner[v].thread \in (All \cup {NoThread}) \ {t}
  BY <1>0, Constants DEF TypeInv, TypeOK, Worker, ClaimInv, WaitInv, ServePCs
<1>9. WaitInv'
  <2>1. x.pc \in ServePCs
    BY DEF ServePCs
  <2> QED BY <1>0, <1>2, <1>3, <1>8, <2>1 DEF ClaimInv, WaitInv
<1>10. HeldInv' /\ RunInv' /\ ClaimedOnce'
  <2>1. HeldInv'
    BY <1>0, <1>3 DEF ClaimInv, HeldInv, Taken
  <2>2. RunInv'
    BY <1>0 DEF ClaimInv, RunInv, Exists
  <2>3. ClaimedOnce'
    BY <1>3 DEF ClaimInv, ClaimedOnce
  <2> QED BY <2>1, <2>2, <2>3
<1> QED BY <1>6, <1>7, <1>9, <1>10 DEF ClaimInv

LEMMA RunnerClaims ==
    ASSUME TypeInv, ClaimInv, NEW w \in Runners, NEW t \in Threads, RunnerStep(w, t)
    PROVE  ClaimInv'
<1>1. CASE Poll(w, t)
  <2> DEFINE x == [Idle EXCEPT !.pc = "select"]
  <2>1. x.pc = "select" /\ x.todo = {} /\ Send(w, t, "idle", "claiming", x)
    BY <1>1 DEF Poll, Idle
  <2> HIDE DEF x
  <2> QED BY <2>1, ClaimSend
<1>2. CASE Start(w, t)
  <2> DEFINE x == [Idle EXCEPT !.pc = "start", !.job = runner[w].job]
  <2>1. /\ x.pc = "start" /\ x.todo = {} /\ x.job = runner[w].job
        /\ Send(w, t, "claimed", "starting", x)
    BY <1>2 DEF Start, Idle
  <2>2. runner[w].job \in Jobs
    BY <2>1 DEF Send, TypeInv, RunnerInv, Working
  <2> HIDE DEF x
  <2> QED BY <2>1, <2>2, ClaimSend
<1>3. CASE Finish(w, t) \/ Report(w, t)
  <2>1. PICK c, p, q :
          /\ p \in Working
          /\ Send(w, t, p, q,
                  [Idle EXCEPT !.pc = "complete", !.job = runner[w].job, !.word = c])
    BY <1>3 DEF Finish, Report, Working
  <2> DEFINE x == [Idle EXCEPT !.pc = "complete", !.job = runner[w].job, !.word = c]
  <2>2. x.pc = "complete" /\ x.todo = {} /\ x.job = runner[w].job /\ Send(w, t, p, q, x)
    BY <2>1 DEF Idle
  <2>3. runner[w].job \in Jobs
    BY <2>1 DEF Send, TypeInv, RunnerInv
  <2> HIDE DEF x
  <2> QED BY <2>2, <2>3, ClaimSend
<1> QED BY <1>1, <1>2, <1>3 DEF RunnerStep

LEMMA RunnerAloneClaims ==
    ASSUME TypeInv, ClaimInv, NEW w \in Runners,
           ExecuteError(w) \/ Heartbeat(w) \/ TimeOut(w) \/ RestartRunner(w)
    PROVE  ClaimInv'
<1>0. /\ runner \in [Runners -> Worker] /\ runner[w] \in Worker
      /\ IF runner[w].phase \in Working THEN runner[w].job \in Jobs ELSE runner[w].job = NoJob
  BY DEF TypeInv, TypeOK, RunnerInv
<1>1. UNCHANGED <<thread, runs>>
  BY DEF ExecuteError, Heartbeat, TimeOut, RestartRunner
<1>2. RowsStay /\ RunsStay
  <2>1. CASE Heartbeat(w)
    <3>1. runner[w].job \in Jobs
      BY <1>0, <2>1 DEF Heartbeat, Working
    <3>2. HeartbeatJob(runner[w].job, TRUE)
      BY <2>1 DEF Heartbeat
    <3> QED BY <1>1, <3>1, <3>2, RowsStayHeartbeat, RunsStaySame
  <2>2. CASE UNCHANGED jobs
    BY <1>1, <2>2, RowsStaySame, RunsStaySame
  <2> QED BY <2>1, <2>2 DEF ExecuteError, TimeOut, RestartRunner
<1>3. ReqInv'
  <2>1. \A u \in All : GoodNext(thread[u])
    BY <1>2, GoodStays DEF TypeInv, TypeOK, ThreadInv, ClaimInv, ReqInv
  <2> QED BY <1>1, <2>1, ReqKept
<1>4. SoleInv'
  BY <1>1 DEF ClaimInv, SoleInv
<1>5. /\ runner'[w].job \in {NoJob, runner[w].job}
      /\ runner'[w].thread \in {NoThread, runner[w].thread}
  <2>1. CASE Heartbeat(w)
    BY <2>1 DEF Heartbeat
  <2>2. CASE ExecuteError(w) \/ TimeOut(w) \/ RestartRunner(w)
    <3>1. \A good \in BOOLEAN, j \in Jobs \cup {NoJob} :
              /\ Resume(w, good, j).thread = NoThread
              /\ Resume(w, good, j).job \in {NoJob, runner[w].job, j}
      BY ResumeType
    <3>2. /\ Resume(w, FALSE, NoJob).thread = NoThread
          /\ Resume(w, FALSE, NoJob).job \in {NoJob, runner[w].job}
      BY <3>1
    <3> QED BY <1>0, <2>2, <3>2, Records DEF ExecuteError, TimeOut, RestartRunner, Worker
  <2> QED BY <2>1, <2>2
<1>6. \A v \in Runners \ {w} : runner'[v] = runner[v]
  BY <1>0 DEF ExecuteError, Heartbeat, TimeOut, RestartRunner
<1>7. \A v \in Runners : \/ runner[v].thread = NoThread
                         \/ thread'[runner[v].thread].pc \in ServePCs
  BY <1>1 DEF ClaimInv, WaitInv
<1> QED BY <1>2, <1>3, <1>4, <1>5, <1>6, <1>7, ClaimRunners

LEMMA SystemClaims ==
    ASSUME TypeInv, ClaimInv,
           SelectStale \/ FailStale \/ CrashServer \/ \E j \in Jobs : Age(j)
    PROVE  ClaimInv'
<1>0. /\ Reaper \in All /\ thread[Reaper] \in Request /\ GoodReq(thread[Reaper])
      /\ jobs \in [Jobs -> JobRow]
  BY Constants DEF TypeInv, TypeOK, ClaimInv, ReqInv
<1>b. \A k \in thread[Reaper].todo : k \in Jobs /\ Exists(k)
  BY <1>0 DEF Request, GoodReq
<1>1. CASE SelectStale
  <2>1. RowsStay /\ RunsStay /\ UNCHANGED runner /\ thread[Reaper].pc = "idle"
    BY <1>1, RowsStaySame, RunsStaySame DEF SelectStale, At
  <2> DEFINE S == {j \in Jobs : Stale(j)}
             x == [Idle EXCEPT !.pc = "reap", !.todo = S]
  <2>2. x.pc = "reap" /\ x.todo = S /\ thread' = [thread EXCEPT ![Reaper] = x]
    BY <1>1 DEF SelectStale, Idle
  <2>3. \A k \in S : k \in Jobs /\ Exists(k)
    BY DEF Stale, Exists
  <2> HIDE DEF x, S
  <2> QED BY <1>0, <2>1, <2>2, <2>3, ClaimElsewhere DEF ServePCs, MakePCs
<1>2. CASE FailStale
  <2>1. PICK j \in thread[Reaper].todo, ok \in BOOLEAN :
          /\ CompleteJob(j, "failure", ok)
          /\ LET affected == thread[Reaper].next \cup {j[1]} IN
             IF thread[Reaper].todo # {j}
               THEN thread' = [thread EXCEPT ![Reaper] =
                                 [@ EXCEPT !.todo = thread[Reaper].todo \ {j},
                                           !.next = affected]]
               ELSE \E r \in affected :
                      thread' = [thread EXCEPT ![Reaper] =
                         [Idle EXCEPT !.pc = "list", !.run = r, !.next = affected \ {r}]]
    BY <1>2 DEF FailStale
  <2>2. RowsStay /\ RunsStay /\ UNCHANGED runner /\ thread[Reaper].pc = "reap"
    BY <1>2, <1>b, <2>1, RowsStayComplete, RunsStaySame DEF FailStale, At
  <2> DEFINE affected == thread[Reaper].next \cup {j[1]}
  <2>3. CASE thread[Reaper].todo # {j}
    <3> DEFINE x == [thread[Reaper] EXCEPT !.todo = thread[Reaper].todo \ {j},
                                           !.next = affected]
    <3>1. /\ x.pc = "reap" /\ x.todo \subseteq thread[Reaper].todo
          /\ thread' = [thread EXCEPT ![Reaper] = x]
      BY <1>0, <2>1, <2>2, <2>3 DEF Request
    <3> HIDE DEF x
    <3> QED BY <1>0, <1>b, <2>2, <3>1, ClaimElsewhere DEF ServePCs, MakePCs
  <2>4. CASE thread[Reaper].todo = {j}
    <3>1. PICK r \in affected :
            thread' = [thread EXCEPT ![Reaper] =
                         [Idle EXCEPT !.pc = "list", !.run = r, !.next = affected \ {r}]]
      BY <2>1, <2>4
    <3> DEFINE x == [Idle EXCEPT !.pc = "list", !.run = r, !.next = affected \ {r}]
    <3>2. x.pc = "list" /\ x.todo = {} /\ thread' = [thread EXCEPT ![Reaper] = x]
      BY <3>1 DEF Idle
    <3> HIDE DEF x
    <3> QED BY <1>0, <2>2, <3>2, ClaimElsewhere DEF ServePCs, MakePCs
  <2> QED BY <2>3, <2>4
<1>3. CASE CrashServer
  <2>1. RowsStay /\ RunsStay
    BY <1>3, RowsStaySame, RunsStaySame DEF CrashServer
  <2>2. \A u \in All : thread'[u] = Idle
    BY <1>3 DEF CrashServer
  <2>3. GoodNext(Idle)
    BY Records DEF GoodNext, MakePCs
  <2>4. ReqInv'
    BY <2>2, <2>3, ReqKept
  <2>5. SoleInv'
    BY <2>2, Records DEF SoleInv, MakePCs
  <2>6. ASSUME NEW w \in Runners
        PROVE  runner'[w].job \in {NoJob, runner[w].job} /\ runner'[w].thread = NoThread
    <3>1. \A good \in BOOLEAN, j \in Jobs \cup {NoJob} :
              /\ Resume(w, good, j).thread = NoThread
              /\ Resume(w, good, j).job \in {NoJob, runner[w].job, j}
      BY ResumeType
    <3>2. /\ Resume(w, FALSE, NoJob).thread = NoThread
          /\ Resume(w, FALSE, NoJob).job \in {NoJob, runner[w].job}
      BY <3>1
    <3>3. runner'[w] = IF runner[w].thread = NoThread THEN runner[w]
                       ELSE Resume(w, FALSE, NoJob)
      BY <1>3 DEF CrashServer
    <3> QED BY <3>2, <3>3
  <2> QED BY <2>1, <2>4, <2>5, <2>6, ClaimRunners
<1>4. ASSUME NEW j \in Jobs, Age(j) PROVE ClaimInv'
  <2>1. PICK x \in {[jobs[j] EXCEPT !.beat = "old"], [jobs[j] EXCEPT !.base = "old"]} :
            jobs' = [jobs EXCEPT ![j] = x]
    BY <1>4 DEF Age
  <2>2. x.status = jobs[j].status
    BY <1>0, <2>1 DEF JobRow
  <2>3. RowsStay /\ RunsStay /\ UNCHANGED <<thread, runner>>
    BY <1>4, <2>1, <2>2, RowsStayWrite, RunsStaySame DEF Age
  <2>4. \A u \in All : GoodNext(thread[u])
    BY <2>3, GoodStays DEF TypeInv, TypeOK, ThreadInv, ClaimInv, ReqInv
  <2>5. ReqInv' /\ SoleInv'
    BY <2>3, <2>4, ReqKept DEF ClaimInv, SoleInv
  <2>6. \A v \in Runners : \/ runner[v].thread = NoThread
                           \/ thread'[runner[v].thread].pc \in ServePCs
    BY <2>3 DEF ClaimInv, WaitInv
  <2> QED BY <2>3, <2>5, <2>6, ClaimRunners
<1> QED BY <1>1, <1>2, <1>3, <1>4

LEMMA InitClaims == Init => ClaimInv
<1> SUFFICES ASSUME Init PROVE ClaimInv
  OBVIOUS
<1>1. \A j \in Jobs : jobs[j].status = "absent"
  BY DEF Init, NewJob
<1>2. (\A t \in All : thread[t] = Idle) /\ (\A w \in Runners : runner[w] = Resting)
  BY DEF Init
<1>3. ReqInv /\ SoleInv
  BY <1>2, Records DEF ReqInv, GoodReq, SoleInv, MakePCs
<1>4. WaitInv /\ HeldInv /\ ClaimedOnce
  BY <1>2, Records DEF WaitInv, HeldInv, ClaimedOnce
<1>5. RunInv
  BY <1>1 DEF RunInv, Exists
<1> QED BY <1>3, <1>4, <1>5 DEF ClaimInv

LEMMA ClaimStep == TypeInv /\ ClaimInv /\ [Next]_vars => ClaimInv'
<1> SUFFICES ASSUME TypeInv, ClaimInv, [Next]_vars PROVE ClaimInv'
  OBVIOUS
<1>1. CASE UNCHANGED vars
  <2>1. ReqInv' /\ SoleInv' /\ WaitInv'
    BY <1>1 DEF vars, ClaimInv, ReqInv, GoodReq, Taken, Exists, SoleInv, WaitInv
  <2>2. HeldInv' /\ RunInv' /\ ClaimedOnce'
    BY <1>1 DEF vars, ClaimInv, HeldInv, Taken, RunInv, Exists, ClaimedOnce
  <2> QED BY <2>1, <2>2 DEF ClaimInv
<1>2. ASSUME NEW t \in Threads, HandlerStep(t) \/ UserStep(t) PROVE ClaimInv'
  BY <1>2, ClaimStartClaims, FinishCancelClaims, CreateClaims, InsertRunClaims,
     CreateJobClaims, CheckClaims, Constants
     DEF HandlerStep, UserStep
<1>3. CASE ReaperStep
  BY <1>3, SystemClaims, CheckClaims, Constants DEF ReaperStep
<1> QED BY <1>1, <1>2, <1>3, RunnerClaims, RunnerAloneClaims, SystemClaims DEF Next

(* No two runners ever hold the same job, for every number of runners and  *)
(* goroutines: two polls may select the same row, an answer may be lost    *)
(* after the row was taken, and the reaper or a cancellation may complete  *)
(* a row that a late StartJob revives, but ClaimJob's UPDATE takes only a  *)
(* queued row and no statement puts a row back into the queue.             *)
THEOREM ClaimsExclusive == Spec => []ClaimedOnce
<1>1. Init => TypeInv /\ ClaimInv
  BY InitType, InitClaims
<1>2. TypeInv /\ ClaimInv /\ [Next]_vars => (TypeInv /\ ClaimInv)'
  BY TypeStep, ClaimStep
<1>3. TypeInv /\ ClaimInv => ClaimedOnce
  BY DEF ClaimInv
<1> QED BY <1>1, <1>2, <1>3, PTL DEF Spec

-----------------------------------------------------------------------------
(* A run that ended by itself gives the concurrency group back, when no    *)
(* statement fails and the control plane does not stop.  The goroutine     *)
(* that concludes a run releases its lock next, so it must not happen that *)
(* a run is concluded before its creator has taken the lock: a run that is *)
(* checked has a job, and until the lock is asked for it has none.         *)

CheckPCs == {"list", "cascade", "verdict", "conclude", "release"}

Ended(rs, r)  == rs[r].conclusion \in {"success", "failure"}
HasJob(js, r) == \E j \in JobsOf(r) : js[j].status # "absent"

Checking(x, js) ==
    /\ x.pc \in CheckPCs => HasJob(js, x.run)
    /\ \A r \in x.next : HasJob(js, r)
Beginning(x, rs) == x.pc = "acquire" => x.number = 1 /\ ~Ended(rs, x.run)
Returning(rs, lk, th) ==
    \A r \in Runs : Ended(rs, r) /\ lk = r => \E t \in All : th[t].pc = "release" /\ th[t].run = r

LockInv ==
    /\ \A t \in All : Checking(thread[t], jobs) /\ Beginning(thread[t], runs)
    /\ Returning(runs, lock, thread)

JobsStay == \A j \in Jobs : Exists(j) => jobs'[j].status # "absent"
NoneEnds == \A r \in Runs : Ended(runs', r) => Ended(runs, r)

LEMMA NoFailure == ASSUME TypeInv, losses' = 0, NEW ok \in BOOLEAN, Outcome(ok) PROVE ok
BY DEF Outcome, TypeInv, TypeOK

LEMMA HasJobStays ==
    ASSUME JobsStay, NEW r, HasJob(jobs, r), JobsOf(r) \subseteq Jobs PROVE HasJob(jobs', r)
BY DEF JobsStay, HasJob, Exists

LEMMA CheckingStays ==
    ASSUME TypeInv, JobsStay, NEW t \in All, Checking(thread[t], jobs)
    PROVE  Checking(thread[t], jobs')
<1>1. thread[t] \in Request /\ Placed(thread[t])
  BY DEF TypeInv, TypeOK, ThreadInv
<1>2. thread[t].next \subseteq Runs
  BY <1>1 DEF Request
<1>3. thread[t].pc \in CheckPCs => thread[t].run \in Runs
  BY <1>1 DEF Placed, RunPCs, CheckPCs
<1> QED BY <1>2, <1>3, HasJobStays, Constants DEF Checking

LEMMA BeginningStays ==
    ASSUME TypeInv, NoneEnds, NEW t \in All, Beginning(thread[t], runs)
    PROVE  Beginning(thread[t], runs')
<1>1. thread[t].pc = "acquire" => thread[t].run \in Runs
  BY DEF TypeInv, ThreadInv, Placed, RunPCs
<1> QED BY <1>1 DEF Beginning, NoneEnds

(* A goroutine goes on; no run ends and nobody takes the lock.             *)
LEMMA LockThread ==
    ASSUME TypeInv, LockInv, JobsStay, NoneEnds, lock' \in {lock, NoRun},
           NEW t \in All, NEW x, thread' = [thread EXCEPT ![t] = x],
           Checking(x, jobs'), Beginning(x, runs'),
           thread[t].pc = "release" => lock' # thread[t].run
    PROVE  LockInv'
<1>1. \A u \in All : thread'[u] = IF u = t THEN x ELSE thread[u]
  BY DEF TypeInv, TypeOK
<1>2. ASSUME NEW u \in All
      PROVE  Checking(thread'[u], jobs') /\ Beginning(thread'[u], runs')
  <2>1. CASE u = t
    BY <1>1, <2>1
  <2>2. CASE u # t
    <3>1. Checking(thread[u], jobs) /\ Beginning(thread[u], runs)
      BY DEF LockInv
    <3>2. Checking(thread[u], jobs') /\ Beginning(thread[u], runs')
      BY <3>1, CheckingStays, BeginningStays
    <3> QED BY <1>1, <2>2, <3>2
  <2> QED BY <2>1, <2>2
<1>3. ASSUME NEW r \in Runs, Ended(runs', r), lock' = r
      PROVE  \E u \in All : thread'[u].pc = "release" /\ thread'[u].run = r
  <2>1. lock = r /\ Ended(runs, r)
    BY <1>3, Constants DEF NoneEnds
  <2>2. PICK u \in All : thread[u].pc = "release" /\ thread[u].run = r
    BY <2>1 DEF LockInv, Returning
  <2>3. u # t
    BY <1>3, <2>2
  <2> QED BY <1>1, <2>2, <2>3
<1> QED BY <1>2, <1>3 DEF LockInv, Returning

LEMMA LockPlain ==
    ASSUME TypeInv, LockInv, JobsStay, NoneEnds, lock' \in {lock, NoRun},
           NEW t \in All, NEW x, thread' = [thread EXCEPT ![t] = x],
           x.pc \notin CheckPCs \cup {"acquire"}, x.next \subseteq thread[t].next,
           thread[t].pc = "release" => lock' # thread[t].run
    PROVE  LockInv'
<1>1. Checking(thread[t], jobs')
  BY CheckingStays DEF LockInv
<1>2. Checking(x, jobs') /\ Beginning(x, runs')
  BY <1>1 DEF Checking, Beginning
<1> QED BY <1>2, LockThread

LEMMA LockIdle ==
    ASSUME TypeInv, LockInv, JobsStay, NoneEnds, lock' \in {lock, NoRun},
           NEW t \in All, thread' = [thread EXCEPT ![t] = Idle],
           thread[t].pc = "release" => lock' # thread[t].run
    PROVE  LockInv'
<1>1. Idle.pc \notin CheckPCs \cup {"acquire"} /\ Idle.next \subseteq thread[t].next
  BY DEF Idle, CheckPCs
<1> QED BY <1>1, LockPlain

LEMMA LockGoto ==
    ASSUME TypeInv, LockInv, JobsStay, NoneEnds, lock' \in {lock, NoRun},
           NEW t \in All, NEW p, Goto(t, p), p \notin CheckPCs \cup {"acquire"},
           thread[t].pc # "release"
    PROVE  LockInv'
<1> DEFINE x == [thread[t] EXCEPT !.pc = p]
<1>1. thread' = [thread EXCEPT ![t] = x]
  BY DEF Goto
<1>2. x.pc = p /\ x.next = thread[t].next
  BY DEF TypeInv, TypeOK, Request
<1> HIDE DEF x
<1> QED BY <1>1, <1>2, LockPlain

(* No goroutine goes on. *)
LEMMA LockRest ==
    ASSUME TypeInv, LockInv, JobsStay, NoneEnds, UNCHANGED <<thread, lock>>
    PROVE  LockInv'
<1>1. \A u \in All : Checking(thread'[u], jobs') /\ Beginning(thread'[u], runs')
  BY CheckingStays, BeginningStays DEF LockInv
<1>2. Returning(runs', lock', thread')
  BY DEF LockInv, Returning, NoneEnds
<1> QED BY <1>1, <1>2 DEF LockInv

LEMMA JobsStayRows == RowsStay => JobsStay
BY DEF RowsStay, JobsStay, Exists

LEMMA NoneEndsSame == UNCHANGED runs => NoneEnds
BY DEF NoneEnds, Ended

LEMMA NoneEndsCancel ==
    ASSUME TypeInv, NEW r \in Runs, NEW ok \in BOOLEAN, CompleteWorkflowRun(r, "cancelled", ok)
    PROVE  NoneEnds
<1>1. CASE ok
  <2> DEFINE y == [runs[r] EXCEPT !.status = "completed", !.conclusion = "cancelled"]
  <2>1. y.conclusion = "cancelled" /\ runs' = [runs EXCEPT ![r] = y]
    BY <1>1 DEF CompleteWorkflowRun, TypeInv, TypeOK, RunRow
  <2> HIDE DEF y
  <2> QED BY <2>1 DEF NoneEnds, Ended, TypeInv, TypeOK
<1>2. CASE ~ok
  BY <1>2, NoneEndsSame DEF CompleteWorkflowRun
<1> QED BY <1>1, <1>2

LEMMA LockEndCheck ==
    ASSUME TypeInv, LockInv, JobsStay, NoneEnds, lock' \in {lock, NoRun},
           NEW t \in All, EndCheck(t), thread[t].pc = "release" => lock' # thread[t].run
    PROVE  LockInv'
<1>1. CASE Answer(t, TRUE, NoJob)
  BY <1>1, LockIdle DEF Answer
<1>2. CASE \E r \in thread[t].next :
              thread' = [thread EXCEPT ![t] = [Idle EXCEPT !.pc = "list", !.run = r,
                                               !.next = thread[t].next \ {r}]]
  <2>1. PICK r \in thread[t].next :
              thread' = [thread EXCEPT ![t] = [Idle EXCEPT !.pc = "list", !.run = r,
                                               !.next = thread[t].next \ {r}]]
    BY <1>2
  <2> DEFINE x == [Idle EXCEPT !.pc = "list", !.run = r, !.next = thread[t].next \ {r}]
  <2>2. x.pc = "list" /\ x.run = r /\ x.next \subseteq thread[t].next
    BY DEF Idle
  <2>3. thread' = [thread EXCEPT ![t] = x]
    BY <2>1
  <2> HIDE DEF x
  <2>4. Checking(thread[t], jobs')
    BY CheckingStays DEF LockInv
  <2>5. Checking(x, jobs') /\ Beginning(x, runs')
    BY <2>2, <2>4 DEF Checking, Beginning
  <2> QED BY <2>3, <2>5, LockThread
<1> QED BY <1>1, <1>2 DEF EndCheck
(* A goroutine that answers. *)
LEMMA LockAnswer ==
    ASSUME TypeInv, LockInv, JobsStay, NoneEnds, UNCHANGED lock,
           NEW t \in All, NEW good, NEW j, Answer(t, good, j), thread[t].pc # "release"
    PROVE  LockInv'
BY LockIdle DEF Answer

(* The requests of a runner: claiming, starting and finishing a job. *)
LEMMA ServeLock ==
    ASSUME TypeInv, ClaimInv, LockInv, NEW t \in Threads,
           \/ SelectJob(t) \/ ClaimJob(t) \/ StartJob(t) \/ FirstHeartbeat(t)
           \/ ReadRun(t) \/ MarkRun(t)
    PROVE  LockInv'
<1>0. /\ t \in All /\ thread[t] \in Request /\ Placed(thread[t]) /\ GoodReq(thread[t])
      /\ jobs \in [Jobs -> JobRow] /\ UNCHANGED lock /\ thread[t].pc # "release"
  BY Constants DEF TypeInv, TypeOK, ThreadInv, ClaimInv, ReqInv, SelectJob, ClaimJob,
                   StartJob, FirstHeartbeat, ReadRun, MarkRun, At
<1>1. CASE SelectJob(t)
  <2>1. JobsStay /\ NoneEnds
    BY <1>1, RowsStaySame, JobsStayRows, NoneEndsSame DEF SelectJob
  <2>2. CASE \E j \in Jobs :
                thread' = [thread EXCEPT ![t] = [thread[t] EXCEPT !.pc = "claim", !.job = j]]
    <3>1. PICK j \in Jobs :
            thread' = [thread EXCEPT ![t] = [thread[t] EXCEPT !.pc = "claim", !.job = j]]
      BY <2>2
    <3> DEFINE x == [thread[t] EXCEPT !.pc = "claim", !.job = j]
    <3>2. x.pc = "claim" /\ x.next = thread[t].next /\ thread' = [thread EXCEPT ![t] = x]
      BY <1>0, <3>1 DEF Request
    <3> HIDE DEF x
    <3> QED BY <1>0, <2>1, <3>2, LockPlain DEF CheckPCs
  <2>3. CASE \E ok \in BOOLEAN : Answer(t, ok, NoJob)
    BY <1>0, <2>1, <2>3, LockAnswer
  <2> QED BY <1>1, <2>2, <2>3 DEF SelectJob
<1>2. CASE ClaimJob(t)
  <2> DEFINE j == thread[t].job
  <2>1. j \in Jobs /\ NoneEnds
    BY <1>0, <1>2, NoneEndsSame DEF ClaimJob, At, Placed, JobPCs
  <2>2. JobsStay
    <3>1. CASE jobs[j].status = "queued" /\ jobs' = [jobs EXCEPT ![j].status = "pending"]
      <4> DEFINE y == [jobs[j] EXCEPT !.status = "pending"]
      <4>1. y.status = "pending" /\ jobs' = [jobs EXCEPT ![j] = y]
        BY <1>0, <2>1, <3>1 DEF JobRow
      <4> HIDE DEF y
      <4> QED BY <2>1, <3>1, <4>1, RowsStayWrite, JobsStayRows DEF Exists
    <3>2. CASE UNCHANGED jobs
      BY <3>2, RowsStaySame, JobsStayRows
    <3> QED BY <1>2, <3>1, <3>2 DEF ClaimJob
  <2>3. \E good, k : Answer(t, good, k)
    BY <1>2 DEF ClaimJob
  <2> QED BY <1>0, <2>1, <2>2, <2>3, LockAnswer
<1>3. CASE StartJob(t)
  <2> DEFINE j == thread[t].job
  <2>1. j \in Jobs /\ Exists(j) /\ NoneEnds
    BY <1>0, <1>3, NoneEndsSame
       DEF StartJob, At, Placed, JobPCs, GoodReq, Taken, Exists
  <2>2. JobsStay
    <3> DEFINE y == [jobs[j] EXCEPT !.status = "in_progress", !.base = "fresh"]
    <3>1. y.status = "in_progress" /\ jobs' \in {jobs, [jobs EXCEPT ![j] = y]}
      BY <1>0, <1>3, <2>1 DEF StartJob, JobRow
    <3> HIDE DEF y
    <3> QED BY <2>1, <3>1, RowsStaySame, RowsStayWrite, JobsStayRows
  <2>3. Goto(t, "beat") \/ Answer(t, FALSE, NoJob)
    BY <1>3 DEF StartJob
  <2> QED BY <1>0, <2>1, <2>2, <2>3, LockAnswer, LockGoto DEF CheckPCs
<1>4. CASE FirstHeartbeat(t)
  <2>1. JobsStay /\ NoneEnds /\ Goto(t, "readRun")
    BY <1>0, <1>4, RowsStayHeartbeat, JobsStayRows, NoneEndsSame
       DEF FirstHeartbeat, At, Placed, JobPCs
  <2> QED BY <1>0, <2>1, LockGoto DEF CheckPCs
<1>5. CASE ReadRun(t)
  <2>1. JobsStay /\ NoneEnds
    BY <1>5, RowsStaySame, JobsStayRows, NoneEndsSame DEF ReadRun
  <2>2. Goto(t, "markRun") \/ Answer(t, TRUE, NoJob)
    BY <1>5 DEF ReadRun
  <2> QED BY <1>0, <2>1, <2>2, LockAnswer, LockGoto DEF CheckPCs
<1>6. CASE MarkRun(t)
  <2>1. JobsStay
    BY <1>6, RowsStaySame, JobsStayRows DEF MarkRun
  <2>2. NoneEnds
    <3> DEFINE r == thread[t].job[1]
               y == [runs[r] EXCEPT !.status = "in_progress"]
    <3>1. r \in Runs
      BY <1>0, <1>6, Constants DEF MarkRun, At, Placed, JobPCs
    <3>2. /\ y.conclusion = runs[r].conclusion
          /\ runs' \in {runs, [runs EXCEPT ![r] = y]}
      BY <1>6, <3>1 DEF MarkRun, TypeInv, TypeOK, RunRow
    <3> HIDE DEF y
    <3> QED BY <3>1, <3>2 DEF NoneEnds, Ended, TypeInv, TypeOK
  <2> QED BY <1>0, <1>6, <2>1, <2>2, LockAnswer DEF MarkRun
<1> QED BY <1>1, <1>2, <1>3, <1>4, <1>5, <1>6

LEMMA FinishLock ==
    ASSUME TypeInv, ClaimInv, LockInv, NEW t \in Threads, FinishJob(t)
    PROVE  LockInv'
<1>1. /\ t \in All /\ thread[t].job \in Jobs /\ Exists(thread[t].job)
      /\ UNCHANGED <<runs, lock>> /\ thread[t].pc = "complete"
  BY Constants DEF FinishJob, At, TypeInv, ThreadInv, Placed, JobPCs, ClaimInv, ReqInv,
                   GoodReq, Taken, Exists
<1>2. JobsStay /\ NoneEnds
  BY <1>1, RowsStayComplete, JobsStayRows, NoneEndsSame DEF FinishJob
<1> DEFINE x == [Idle EXCEPT !.pc = "list", !.run = thread[t].job[1]]
<1>3. thread' = [thread EXCEPT ![t] = x] \/ Answer(t, TRUE, NoJob)
  BY DEF FinishJob
<1>4. x.pc = "list" /\ x.next = {} /\ x.run = thread[t].job[1]
  BY DEF Idle
<1> HIDE DEF x
<1>5. HasJob(jobs', thread[t].job[1])
  <2>1. thread[t].job \in JobsOf(thread[t].job[1])
    BY <1>1, Constants DEF JobsOf
  <2> QED BY <1>1, <1>2, <2>1 DEF HasJob, JobsStay
<1>6. Checking(x, jobs') /\ Beginning(x, runs')
  BY <1>4, <1>5 DEF Checking, Beginning
<1> QED BY <1>1, <1>2, <1>3, <1>6, LockAnswer, LockThread
(* Until the lock is asked for the run has no job. *)
LEMMA NoJobYet ==
    ASSUME TypeInv, ClaimInv, LockInv, NEW u \in All, thread[u].pc = "acquire"
    PROVE  ~HasJob(jobs, thread[u].run)
<1>1. thread[u].number = 1 /\ thread[u].run \in Runs
  BY DEF LockInv, Beginning, TypeInv, ThreadInv, Placed, RunPCs
<1>2. \A k \in 1..Len(JobOrder) : ~Exists(<<thread[u].run, JobOrder[k]>>)
  BY <1>1 DEF ClaimInv, ReqInv, GoodReq, MakePCs
<1>3. ASSUME NEW j \in JobsOf(thread[u].run) PROVE ~Exists(j)
  <2>1. j[1] = thread[u].run /\ j[2] \in Names /\ j = <<j[1], j[2]>>
    BY <1>1, <1>3, Constants DEF JobsOf
  <2>2. PICK k \in 1..Len(JobOrder) : j[2] = JobOrder[k]
    BY <2>1, CIRunsAssumption DEF Names
  <2> QED BY <1>2, <2>1, <2>2
<1> QED BY <1>3 DEF HasJob, Exists

(* The run ends, and its goroutine is to release the lock.  No other       *)
(* goroutine is about to take the lock for the run, which has a job.       *)
LEMMA ConcludeLock ==
    ASSUME TypeInv, ClaimInv, LockInv, NEW t \in All, Conclude(t)
    PROVE  LockInv'
<1> DEFINE r == thread[t].run
           x == [thread[t] EXCEPT !.pc = "release"]
<1>1. /\ r \in Runs /\ HasJob(jobs, r) /\ thread[t].pc = "conclude"
      /\ \A q \in thread[t].next : HasJob(jobs, q)
      /\ UNCHANGED <<jobs, lock>>
  BY DEF Conclude, At, TypeInv, ThreadInv, Placed, RunPCs, LockInv, Checking, CheckPCs
<1>2. x.pc = "release" /\ x.run = r /\ x.next = thread[t].next
  BY DEF TypeInv, TypeOK, Request
<1> HIDE DEF x
<1>3. \A u \in All : thread'[u] = IF u = t THEN x ELSE thread[u]
  BY DEF Conclude, Goto, TypeInv, TypeOK, x
<1>4. \A q \in Runs \ {r} : runs'[q] = runs[q]
  <2>1. PICK y : runs' \in {runs, [runs EXCEPT ![r] = y]}
    BY DEF Conclude, CompleteWorkflowRun
  <2> QED BY <1>1, <2>1 DEF TypeInv, TypeOK
<1>5. ASSUME NEW u \in All
      PROVE  Checking(thread'[u], jobs') /\ Beginning(thread'[u], runs')
  <2>1. CASE u = t
    BY <1>1, <1>2, <1>3, <2>1 DEF Checking, Beginning, CheckPCs
  <2>2. CASE u # t
    <3>1. Checking(thread[u], jobs) /\ Beginning(thread[u], runs)
      BY DEF LockInv
    <3>2. ASSUME thread[u].pc = "acquire" PROVE ~Ended(runs', thread[u].run)
      <4>1. thread[u].run \in Runs \ {r}
        BY <1>1, <3>2, NoJobYet DEF TypeInv, ThreadInv, Placed, RunPCs
      <4> QED BY <1>4, <3>1, <3>2, <4>1 DEF Beginning, Ended
    <3> QED BY <1>1, <1>3, <2>2, <3>1, <3>2 DEF Beginning
  <2> QED BY <2>1, <2>2
<1>6. ASSUME NEW q \in Runs, Ended(runs', q), lock' = q
      PROVE  \E u \in All : thread'[u].pc = "release" /\ thread'[u].run = q
  <2>1. CASE q = r
    BY <1>2, <1>3, <2>1
  <2>2. CASE q # r
    <3>1. Ended(runs, q) /\ lock = q
      BY <1>1, <1>4, <1>6, <2>2 DEF Ended
    <3>2. PICK u \in All : thread[u].pc = "release" /\ thread[u].run = q
      BY <3>1 DEF LockInv, Returning
    <3>3. u # t
      BY <1>1, <3>2
    <3> QED BY <1>3, <3>2, <3>3
  <2> QED BY <2>1, <2>2
<1> QED BY <1>5, <1>6 DEF LockInv, Returning

LEMMA CheckLock ==
    ASSUME TypeInv, ClaimInv, LockInv, losses' = 0, NEW t \in All, CheckStep(t)
    PROVE  LockInv'
<1>0. thread[t] \in Request /\ Placed(thread[t]) /\ GoodReq(thread[t])
  BY DEF TypeInv, TypeOK, ThreadInv, ClaimInv, ReqInv
<1>b. \A k \in thread[t].todo : k \in Jobs /\ Exists(k)
  BY <1>0 DEF Request, GoodReq
<1>c. Checking(thread[t], jobs)
  BY DEF LockInv
<1>1. CASE ListJobs(t)
  <2>1. /\ JobsStay /\ NoneEnds /\ thread[t].pc = "list" /\ UNCHANGED <<lock, jobs>>
    BY <1>1, RowsStaySame, JobsStayRows, NoneEndsSame DEF ListJobs, At
  <2> DEFINE p == IF Blocked(thread[t].run) = {} THEN "verdict" ELSE "cascade"
             x == [thread[t] EXCEPT !.todo = Blocked(thread[t].run), !.pc = p]
  <2>2. EndCheck(t) \/ thread' = [thread EXCEPT ![t] = x]
    BY <1>1 DEF ListJobs
  <2>3. x.pc \in {"verdict", "cascade"} /\ x.run = thread[t].run /\ x.next = thread[t].next
    BY <1>0 DEF Request
  <2> HIDE DEF x
  <2>4. Checking(x, jobs') /\ Beginning(x, runs')
    BY <1>c, <2>1, <2>3 DEF Checking, Beginning, CheckPCs
  <2> QED BY <2>1, <2>2, <2>4, LockEndCheck, LockThread
<1>2. CASE CancelBlocked(t)
  <2>1. PICK j \in thread[t].todo, ok \in BOOLEAN :
            CompleteJob(j, "cancelled", ok) /\ Strike(t, j, "cascade", "verdict")
    BY <1>2 DEF CancelBlocked
  <2>2. JobsStay /\ NoneEnds /\ thread[t].pc = "cascade" /\ UNCHANGED lock
    BY <1>2, <1>b, <2>1, RowsStayComplete, JobsStayRows, NoneEndsSame DEF CancelBlocked, At
  <2> DEFINE p == IF thread[t].todo = {j} THEN "verdict" ELSE "cascade"
             x == [thread[t] EXCEPT !.todo = thread[t].todo \ {j}, !.pc = p]
  <2>3. thread' = [thread EXCEPT ![t] = x]
    BY <2>1 DEF Strike
  <2>4. x.pc \in {"verdict", "cascade"} /\ x.run = thread[t].run /\ x.next = thread[t].next
    BY <1>0 DEF Request
  <2> HIDE DEF x
  <2>5. Checking(thread[t], jobs')
    BY <1>c, <2>2, CheckingStays
  <2>6. Checking(x, jobs') /\ Beginning(x, runs')
    BY <2>2, <2>4, <2>5 DEF Checking, Beginning, CheckPCs
  <2> QED BY <2>2, <2>3, <2>6, LockThread
<1>3. CASE ReadVerdict(t)
  <2>1. /\ JobsStay /\ NoneEnds /\ thread[t].pc = "verdict" /\ UNCHANGED <<lock, jobs>>
    BY <1>3, RowsStaySame, JobsStayRows, NoneEndsSame DEF ReadVerdict, At
  <2> DEFINE x == [thread[t] EXCEPT !.pc = "conclude", !.word = Verdict(thread[t].run)]
  <2>2. EndCheck(t) \/ thread' = [thread EXCEPT ![t] = x]
    BY <1>3 DEF ReadVerdict
  <2>3. x.pc = "conclude" /\ x.run = thread[t].run /\ x.next = thread[t].next
    BY <1>0 DEF Request
  <2> HIDE DEF x
  <2>4. Checking(x, jobs') /\ Beginning(x, runs')
    BY <1>c, <2>1, <2>3 DEF Checking, Beginning, CheckPCs
  <2> QED BY <2>1, <2>2, <2>4, LockEndCheck, LockThread
<1>4. CASE Conclude(t)
  BY <1>4, ConcludeLock
<1>5. CASE Release(t)
  <2>1. JobsStay /\ NoneEnds
    BY <1>5, RowsStaySame, JobsStayRows, NoneEndsSame DEF Release
  <2>2. lock' = IF lock = thread[t].run THEN NoRun ELSE lock
    BY <1>5, NoFailure DEF Release, ReleaseConcurrencyLock
  <2>3. thread[t].run \in Runs
    BY <1>0, <1>5 DEF Release, At, Placed, RunPCs
  <2>4. lock' \in {lock, NoRun} /\ lock' # thread[t].run
    BY <2>2, <2>3, Constants
  <2> QED BY <1>5, <2>1, <2>4, LockEndCheck DEF Release
<1> QED BY <1>1, <1>2, <1>3, <1>4, <1>5 DEF CheckStep
(* A user's cancellation concludes a run as cancelled, not as ended. *)
LEMMA CancelLock ==
    ASSUME TypeInv, ClaimInv, LockInv, NEW t \in Threads,
           CancelRun(t) \/ ListLive(t) \/ CancelJob(t) \/ BeginCancel(t)
    PROVE  LockInv'
<1>0. /\ t \in All /\ thread[t] \in Request /\ Placed(thread[t]) /\ UNCHANGED lock
      /\ thread[t].pc \in {"cancelRun", "listLive", "cancelJobs", "idle"}
  BY Constants DEF TypeInv, TypeOK, ThreadInv, CancelRun, ListLive, CancelJob,
                   BeginCancel, At
<1>1. JobsStay
  <2>1. CASE CancelJob(t)
    <3>1. PICK j \in thread[t].todo, ok \in BOOLEAN : CompleteJob(j, "cancelled", ok)
      BY <2>1 DEF CancelJob
    <3>2. j \in Jobs /\ Exists(j)
      BY <1>0 DEF Request, ClaimInv, ReqInv, GoodReq
    <3> QED BY <3>1, <3>2, RowsStayComplete, JobsStayRows
  <2>2. CASE UNCHANGED jobs
    BY <2>2, RowsStaySame, JobsStayRows
  <2> QED BY <2>1, <2>2 DEF CancelRun, ListLive, BeginCancel
<1>2. NoneEnds
  <2>1. CASE CancelRun(t)
    BY <1>0, <2>1, NoneEndsCancel DEF CancelRun, At, Placed, RunPCs
  <2>2. CASE UNCHANGED runs
    BY <2>2, NoneEndsSame
  <2> QED BY <2>1, <2>2 DEF ListLive, CancelJob, BeginCancel
<1>3. CASE thread' = [thread EXCEPT ![t] = Idle]
  BY <1>0, <1>1, <1>2, <1>3, LockIdle
<1>4. CASE CancelRun(t)
  <2>1. \/ thread' = [thread EXCEPT ![t] = Idle]
        \/ Goto(t, "listLive")
    BY <1>4 DEF CancelRun, Goto
  <2> QED BY <1>0, <1>1, <1>2, <1>3, <2>1, LockGoto DEF CheckPCs
<1>5. CASE ListLive(t)
  <2> DEFINE live == {j \in JobsOf(thread[t].run) :
                         Exists(j) /\ jobs[j].status # "completed"}
             x == [thread[t] EXCEPT !.pc = "cancelJobs", !.todo = live]
  <2>1. \/ thread' = [thread EXCEPT ![t] = Idle]
        \/ thread' = [thread EXCEPT ![t] = x]
    BY <1>5 DEF ListLive
  <2>2. x.pc = "cancelJobs" /\ x.next = thread[t].next
    BY <1>0 DEF Request
  <2> HIDE DEF x
  <2> QED BY <1>0, <1>1, <1>2, <1>3, <2>1, <2>2, LockPlain DEF CheckPCs
<1>6. CASE CancelJob(t)
  <2>1. PICK j \in thread[t].todo : \/ thread' = [thread EXCEPT ![t] = Idle]
                                    \/ Strike(t, j, "cancelJobs", "cancelJobs")
    BY <1>6 DEF CancelJob
  <2> DEFINE s == thread[t].todo \ {j}
             p == IF thread[t].todo = {j} THEN "cancelJobs" ELSE "cancelJobs"
             x == [thread[t] EXCEPT !.todo = s, !.pc = p]
  <2>2. CASE Strike(t, j, "cancelJobs", "cancelJobs")
    <3>1. thread' = [thread EXCEPT ![t] = x]
      BY <2>2 DEF Strike
    <3>2. x.pc = "cancelJobs" /\ x.next = thread[t].next
      BY <1>0 DEF Request
    <3> HIDE DEF x
    <3> QED BY <1>0, <1>1, <1>2, <3>1, <3>2, LockPlain DEF CheckPCs
  <2> QED BY <1>3, <2>1, <2>2
<1>7. CASE BeginCancel(t)
  <2>1. PICK r \in Created :
            thread' = [thread EXCEPT ![t] = [Idle EXCEPT !.pc = "cancelRun", !.run = r]]
    BY <1>7 DEF BeginCancel
  <2> DEFINE x == [Idle EXCEPT !.pc = "cancelRun", !.run = r]
  <2>2. x.pc = "cancelRun" /\ x.next = {} /\ thread' = [thread EXCEPT ![t] = x]
    BY <2>1 DEF Idle
  <2> HIDE DEF x
  <2> QED BY <1>0, <1>1, <1>2, <2>2, LockPlain DEF CheckPCs
<1> QED BY <1>4, <1>5, <1>6, <1>7

LEMMA TriggerLock ==
    ASSUME TypeInv, ClaimInv, LockInv, NEW t \in Threads,
           \/ BeginTrigger(t) \/ BeginUngrouped(t) \/ CancelOld(t) \/ ReleaseOld(t)
           \/ PickNumber(t)
    PROVE  LockInv'
<1>0. /\ t \in All /\ thread[t] \in Request /\ Placed(thread[t]) /\ UNCHANGED jobs
      /\ thread[t].pc \in {"idle", "cancelOld", "releaseOld", "number"}
  BY Constants DEF TypeInv, TypeOK, ThreadInv, BeginTrigger, BeginUngrouped, CancelOld,
                   ReleaseOld, PickNumber, At
<1>1. JobsStay
  BY <1>0, RowsStaySame, JobsStayRows
<1>2. CASE BeginTrigger(t)
  <2>1. NoneEnds /\ UNCHANGED lock
    BY <1>2, NoneEndsSame DEF BeginTrigger
  <2>2. PICK ok \in BOOLEAN : thread' = [thread EXCEPT ![t] =
          [Idle EXCEPT !.pc = IF ok /\ lock # NoRun THEN "cancelOld" ELSE "number",
                       !.run = lock, !.grouped = (Concurrency # "none")]]
    BY <1>2 DEF BeginTrigger
  <2> DEFINE p == IF ok /\ lock # NoRun THEN "cancelOld" ELSE "number"
             y == [Idle EXCEPT !.pc = p, !.run = lock, !.grouped = (Concurrency # "none")]
  <2>3. p \in {"cancelOld", "number"} /\ y.pc = p /\ y.next = {}
    BY DEF Idle
  <2>4. thread' = [thread EXCEPT ![t] = y]
    BY <2>2
  <2> HIDE DEF y, p
  <2> QED BY <1>0, <1>1, <2>1, <2>3, <2>4, LockPlain DEF CheckPCs
<1>3. CASE BeginUngrouped(t)
  <2>1. NoneEnds /\ UNCHANGED lock
    BY <1>3, NoneEndsSame DEF BeginUngrouped
  <2> DEFINE y == [Idle EXCEPT !.pc = "number"]
  <2>2. y.pc = "number" /\ y.next = {} /\ thread' = [thread EXCEPT ![t] = y]
    BY <1>3 DEF BeginUngrouped, Idle
  <2> HIDE DEF y
  <2> QED BY <1>0, <1>1, <2>1, <2>2, LockPlain DEF CheckPCs
<1>4. CASE CancelOld(t)
  <2>1. NoneEnds /\ UNCHANGED lock /\ Goto(t, "releaseOld")
    BY <1>0, <1>4, NoneEndsCancel DEF CancelOld, At, Placed, RunPCs
  <2> QED BY <1>0, <1>1, <2>1, LockGoto DEF CheckPCs
<1>5. CASE ReleaseOld(t)
  <2>1. NoneEnds /\ lock' \in {lock, NoRun} /\ Goto(t, "number")
    BY <1>5, NoneEndsSame DEF ReleaseOld, ReleaseConcurrencyLock
  <2> QED BY <1>0, <1>1, <2>1, LockGoto DEF CheckPCs
<1>6. CASE PickNumber(t)
  <2>1. NoneEnds /\ UNCHANGED lock
    BY <1>6, NoneEndsSame DEF PickNumber
  <2>2. PICK n : thread' \in {[thread EXCEPT ![t] = Idle],
             [thread EXCEPT ![t] = [thread[t] EXCEPT !.pc = "insert", !.number = n]]}
    BY <1>6 DEF PickNumber
  <2> DEFINE x == [thread[t] EXCEPT !.pc = "insert", !.number = n]
  <2>3. x.pc = "insert" /\ x.next = thread[t].next
    BY <1>0 DEF Request
  <2>4. \/ thread' = [thread EXCEPT ![t] = Idle]
        \/ thread' = [thread EXCEPT ![t] = x]
    BY <2>2
  <2> HIDE DEF x
  <2> QED BY <1>0, <1>1, <2>1, <2>3, <2>4, LockPlain, LockIdle DEF CheckPCs
<1> QED BY <1>2, <1>3, <1>4, <1>5, <1>6
(* A new run has not ended and its goroutine is about to take the lock. *)
LEMMA InsertLock ==
    ASSUME TypeInv, LockInv, NEW t \in Threads, InsertRun(t)
    PROVE  LockInv'
<1>0. /\ t \in All /\ thread[t] \in Request /\ thread[t].pc = "insert"
      /\ UNCHANGED <<jobs, lock>>
  BY Constants DEF InsertRun, At, TypeInv, TypeOK
<1>1. JobsStay
  BY <1>0, RowsStaySame, JobsStayRows
<1>2. CASE thread' = [thread EXCEPT ![t] = Idle] /\ UNCHANGED runs
  BY <1>0, <1>1, <1>2, NoneEndsSame, LockIdle
<1>3. CASE \E r \in NewRun :
             /\ runs' = [runs EXCEPT ![r] =
                           [NoRow EXCEPT !.status = "queued", !.number = thread[t].number]]
             /\ thread' = [thread EXCEPT ![t] =
                   [@ EXCEPT !.run = r, !.number = 1,
                             !.pc = IF thread[t].grouped THEN "acquire" ELSE "create"]]
  <2> DEFINE p == IF thread[t].grouped THEN "acquire" ELSE "create"
             y == [NoRow EXCEPT !.status = "queued", !.number = thread[t].number]
  <2>1. PICK r \in NewRun :
          /\ runs' = [runs EXCEPT ![r] = y]
          /\ thread' = [thread EXCEPT ![t] =
                          [thread[t] EXCEPT !.run = r, !.number = 1, !.pc = p]]
    BY <1>3
  <2> DEFINE x == [thread[t] EXCEPT !.run = r, !.number = 1, !.pc = p]
  <2>2. r \in Runs
    BY DEF NewRun
  <2>3. y.conclusion = "none"
    BY DEF NoRow
  <2> HIDE DEF y
  <2>4. NoneEnds /\ ~Ended(runs', r)
    BY <2>1, <2>2, <2>3 DEF NoneEnds, Ended, TypeInv, TypeOK
  <2>5. /\ x.pc \in {"acquire", "create"} /\ x.run = r /\ x.number = 1
        /\ x.next = thread[t].next /\ thread' = [thread EXCEPT ![t] = x]
    BY <1>0, <2>1 DEF Request
  <2> HIDE DEF x
  <2>6. Checking(thread[t], jobs')
    BY <1>0, <1>1, CheckingStays DEF LockInv
  <2>7. Checking(x, jobs') /\ Beginning(x, runs')
    BY <2>4, <2>5, <2>6 DEF Checking, Beginning, CheckPCs
  <2> QED BY <1>0, <1>1, <2>4, <2>5, <2>7, LockThread
<1> QED BY <1>2, <1>3 DEF InsertRun

(* The lock goes to a run that has not ended. *)
LEMMA AcquireLockLock ==
    ASSUME TypeInv, LockInv, NEW t \in Threads, AcquireLock(t)
    PROVE  LockInv'
<1>0. /\ t \in All /\ thread[t] \in Request /\ thread[t].pc = "acquire"
      /\ ~Ended(runs, thread[t].run) /\ UNCHANGED <<runs, jobs>>
  BY Constants DEF AcquireLock, At, TypeInv, TypeOK, LockInv, Beginning
<1> DEFINE x == [thread[t] EXCEPT !.pc = "create"]
<1>1. x.pc = "create" /\ x.next = thread[t].next
  BY <1>0 DEF Request
<1>2. \A u \in All : thread'[u] = IF u = t THEN x ELSE thread[u]
  BY DEF AcquireLock, Goto, TypeInv, TypeOK
<1> HIDE DEF x
<1>3. ASSUME NEW u \in All
      PROVE  Checking(thread'[u], jobs') /\ Beginning(thread'[u], runs')
  <2>1. /\ Checking(thread[u], jobs) /\ Beginning(thread[u], runs)
        /\ Checking(thread[t], jobs)
    BY <1>0 DEF LockInv
  <2> QED BY <1>0, <1>1, <1>2, <2>1 DEF Checking, Beginning, CheckPCs
<1>4. ASSUME NEW r \in Runs, Ended(runs', r), lock' = r
      PROVE  \E u \in All : thread'[u].pc = "release" /\ thread'[u].run = r
  <2>1. lock = r
    BY <1>0, <1>4 DEF AcquireLock
  <2>2. PICK u \in All : thread[u].pc = "release" /\ thread[u].run = r
    BY <1>0, <1>4, <2>1 DEF LockInv, Returning
  <2> QED BY <1>0, <1>2, <2>2
<1> QED BY <1>3, <1>4 DEF LockInv, Returning

LEMMA CreateJobLock ==
    ASSUME TypeInv, LockInv, NEW t \in Threads, CreateJob(t)
    PROVE  LockInv'
<1>0. /\ t \in All /\ thread[t] \in Request /\ thread[t].pc = "create"
      /\ UNCHANGED <<runs, lock>>
  BY Constants DEF CreateJob, At, TypeInv, TypeOK
<1>1. NoneEnds
  BY <1>0, NoneEndsSame
<1>2. JobsStay
  <2>1. PICK j : jobs' \in {jobs, [jobs EXCEPT ![j] = NewJob]}
    BY DEF CreateJob
  <2> QED BY <2>1, Records DEF JobsStay, Exists, TypeInv, TypeOK
<1> DEFINE x == [thread[t] EXCEPT !.number = thread[t].number + 1]
<1>3. thread' = [thread EXCEPT ![t] = x] \/ thread' = [thread EXCEPT ![t] = Idle]
  BY DEF CreateJob
<1>4. x.pc = "create" /\ x.next = thread[t].next
  BY <1>0 DEF Request
<1> HIDE DEF x
<1> QED BY <1>0, <1>1, <1>2, <1>3, <1>4, LockPlain, LockIdle DEF CheckPCs

LEMMA RunnerLock ==
    ASSUME TypeInv, LockInv, NEW w \in Runners, NEW t \in Threads, RunnerStep(w, t)
    PROVE  LockInv'
<1>1. /\ t \in All /\ thread[t].pc = "idle" /\ UNCHANGED <<runs, jobs, lock>>
  BY Constants DEF RunnerStep, Poll, Start, Finish, Report, Send, At
<1>2. JobsStay /\ NoneEnds
  BY <1>1, RowsStaySame, JobsStayRows, NoneEndsSame
<1>3. \E x : /\ thread' = [thread EXCEPT ![t] = x]
             /\ x.pc \in {"select", "start", "complete"} /\ x.next = {}
  <2>1. CASE Poll(w, t)
    <3> DEFINE x == [Idle EXCEPT !.pc = "select"]
    <3>1. x.pc = "select" /\ x.next = {} /\ thread' = [thread EXCEPT ![t] = x]
      BY <2>1 DEF Poll, Send, Idle
    <3> HIDE DEF x
    <3> QED BY <3>1
  <2>2. CASE Start(w, t)
    <3> DEFINE x == [Idle EXCEPT !.pc = "start", !.job = runner[w].job]
    <3>1. x.pc = "start" /\ x.next = {} /\ thread' = [thread EXCEPT ![t] = x]
      BY <2>2 DEF Start, Send, Idle
    <3> HIDE DEF x
    <3> QED BY <3>1
  <2>3. CASE Finish(w, t) \/ Report(w, t)
    <3>1. PICK c : thread' = [thread EXCEPT ![t] =
              [Idle EXCEPT !.pc = "complete", !.job = runner[w].job, !.word = c]]
      BY <2>3 DEF Finish, Report, Send
    <3> DEFINE x == [Idle EXCEPT !.pc = "complete", !.job = runner[w].job, !.word = c]
    <3>2. x.pc = "complete" /\ x.next = {} /\ thread' = [thread EXCEPT ![t] = x]
      BY <3>1 DEF Idle
    <3> HIDE DEF x
    <3> QED BY <3>2
  <2> QED BY <2>1, <2>2, <2>3 DEF RunnerStep
<1> QED BY <1>1, <1>2, <1>3, LockPlain DEF CheckPCs

LEMMA RestLock ==
    ASSUME TypeInv, LockInv,
           \/ \E w \in Runners :
                 ExecuteError(w) \/ Heartbeat(w) \/ TimeOut(w) \/ RestartRunner(w)
           \/ \E j \in Jobs : Age(j)
    PROVE  LockInv'
<1>1. UNCHANGED <<runs, lock, thread>>
  BY DEF ExecuteError, Heartbeat, TimeOut, RestartRunner, Age
<1>2. NoneEnds
  BY <1>1, NoneEndsSame
<1>3. JobsStay
  <2>1. ASSUME NEW w \in Runners, Heartbeat(w) PROVE JobsStay
    <3>1. runner[w].job \in Jobs /\ HeartbeatJob(runner[w].job, TRUE)
      BY <2>1 DEF Heartbeat, Working, TypeInv, RunnerInv
    <3> QED BY <3>1, RowsStayHeartbeat, JobsStayRows
  <2>2. CASE UNCHANGED jobs
    BY <2>2, RowsStaySame, JobsStayRows
  <2>3. ASSUME NEW j \in Jobs, Age(j) PROVE JobsStay
    <3>1. PICK x \in {[jobs[j] EXCEPT !.beat = "old"], [jobs[j] EXCEPT !.base = "old"]} :
              jobs' = [jobs EXCEPT ![j] = x]
      BY <2>3 DEF Age
    <3>2. x.status = jobs[j].status
      BY <3>1 DEF TypeInv, TypeOK, JobRow
    <3> QED BY <3>1, <3>2, RowsStayWrite, JobsStayRows
  <2> QED BY <2>1, <2>2, <2>3 DEF ExecuteError, TimeOut, RestartRunner
<1> QED BY <1>1, <1>2, <1>3, LockRest
(* The reaper checks the runs of the jobs it has failed. *)
LEMMA ReaperLock ==
    ASSUME TypeInv, ClaimInv, LockInv, SelectStale \/ FailStale
    PROVE  LockInv'
<1>0. /\ Reaper \in All /\ thread[Reaper] \in Request /\ thread[Reaper].pc # "release"
      /\ UNCHANGED <<runs, lock>> /\ NoneEnds
  BY Constants, NoneEndsSame DEF TypeInv, TypeOK, SelectStale, FailStale, At
<1>b. \A k \in thread[Reaper].todo : k \in Jobs /\ Exists(k)
  BY <1>0 DEF Request, ClaimInv, ReqInv, GoodReq
<1>1. CASE SelectStale
  <2>1. JobsStay
    BY <1>1, RowsStaySame, JobsStayRows DEF SelectStale
  <2> DEFINE S == {j \in Jobs : Stale(j)}
             x == [Idle EXCEPT !.pc = "reap", !.todo = S]
  <2>2. x.pc = "reap" /\ x.next = {} /\ thread' = [thread EXCEPT ![Reaper] = x]
    BY <1>1 DEF SelectStale, Idle
  <2> HIDE DEF x, S
  <2> QED BY <1>0, <2>1, <2>2, LockPlain DEF CheckPCs
<1>2. CASE FailStale
  <2>1. PICK j \in thread[Reaper].todo, ok \in BOOLEAN :
          /\ CompleteJob(j, "failure", ok)
          /\ LET affected == thread[Reaper].next \cup {j[1]} IN
             IF thread[Reaper].todo # {j}
               THEN thread' = [thread EXCEPT ![Reaper] =
                                 [@ EXCEPT !.todo = thread[Reaper].todo \ {j},
                                           !.next = affected]]
               ELSE \E r \in affected :
                      thread' = [thread EXCEPT ![Reaper] =
                         [Idle EXCEPT !.pc = "list", !.run = r, !.next = affected \ {r}]]
    BY <1>2 DEF FailStale
  <2> DEFINE affected == thread[Reaper].next \cup {j[1]}
  <2>a. j \in Jobs /\ Exists(j)
    BY <1>b, <2>1
  <2>2. JobsStay /\ thread[Reaper].pc = "reap"
    BY <1>2, <2>a, <2>1, RowsStayComplete, JobsStayRows DEF FailStale, At
  <2>3. HasJob(jobs', j[1])
    <3>1. j \in JobsOf(j[1])
      BY <2>a, Constants DEF JobsOf
    <3> QED BY <2>2, <2>a, <3>1 DEF HasJob, JobsStay
  <2>4. \A r \in affected : HasJob(jobs', r)
    <3>1. Checking(thread[Reaper], jobs')
      BY <1>0, <2>2, CheckingStays DEF LockInv
    <3> QED BY <2>3, <3>1 DEF Checking
  <2>5. CASE thread[Reaper].todo # {j}
    <3> DEFINE x == [thread[Reaper] EXCEPT !.todo = thread[Reaper].todo \ {j},
                                           !.next = affected]
    <3>1. /\ x.pc = "reap" /\ x.next = affected
          /\ thread' = [thread EXCEPT ![Reaper] = x]
      BY <1>0, <2>1, <2>2, <2>5 DEF Request
    <3> HIDE DEF x, affected
    <3>2. Checking(x, jobs') /\ Beginning(x, runs')
      BY <2>4, <3>1 DEF Checking, Beginning, CheckPCs
    <3> QED BY <1>0, <2>2, <3>1, <3>2, LockThread
  <2>6. CASE thread[Reaper].todo = {j}
    <3>1. PICK r \in affected :
            thread' = [thread EXCEPT ![Reaper] =
                         [Idle EXCEPT !.pc = "list", !.run = r, !.next = affected \ {r}]]
      BY <2>1, <2>6
    <3> DEFINE x == [Idle EXCEPT !.pc = "list", !.run = r, !.next = affected \ {r}]
    <3>2. x.pc = "list" /\ x.run = r /\ x.next \subseteq affected
      BY DEF Idle
    <3>3. thread' = [thread EXCEPT ![Reaper] = x]
      BY <3>1
    <3> HIDE DEF x, affected
    <3>4. Checking(x, jobs') /\ Beginning(x, runs')
      BY <2>4, <3>1, <3>2 DEF Checking, Beginning
    <3> QED BY <1>0, <2>2, <3>3, <3>4, LockThread
  <2> QED BY <2>5, <2>6
<1> QED BY <1>1, <1>2

LEMMA InitLock == Init => LockInv
<1> SUFFICES ASSUME Init PROVE LockInv
  OBVIOUS
<1>1. Idle.pc = "idle" /\ Idle.next = {}
  BY DEF Idle
<1>2. \A t \in All : Checking(thread[t], jobs) /\ Beginning(thread[t], runs)
  BY <1>1 DEF Init, Checking, Beginning, CheckPCs
<1>3. Returning(runs, lock, thread)
  BY Constants DEF Init, Returning
<1> QED BY <1>2, <1>3 DEF LockInv

(* What the bounds count never decreases. *)
LEMMA CountersGrow ==
    ASSUME TypeInv, [Next]_vars
    PROVE  /\ losses' = 0 => losses = 0
           /\ crashes' = 0 => crashes = 0
           /\ cancels' = 0 => cancels = 0
<1>0. losses \in Nat /\ crashes \in Nat /\ cancels \in Nat
  BY CIRunsAssumption DEF TypeInv, TypeOK
<1> DEFINE Paid == losses' = losses \/ \E ok \in BOOLEAN : Outcome(ok)
           Quietly == Paid /\ crashes' = crashes /\ cancels' = cancels
<1>1. ASSUME NEW t \in All, HandlerStep(t) PROVE Quietly
  <2>1. CASE SelectJob(t)
    BY <2>1 DEF SelectJob
  <2>2. CASE ClaimJob(t)
    BY <2>2 DEF ClaimJob
  <2>3. CASE StartJob(t)
    BY <2>3 DEF StartJob
  <2>4. CASE FirstHeartbeat(t)
    BY <2>4 DEF FirstHeartbeat
  <2>5. CASE ReadRun(t)
    BY <2>5 DEF ReadRun
  <2>6. CASE MarkRun(t)
    BY <2>6 DEF MarkRun
  <2>7. CASE FinishJob(t)
    BY <2>7 DEF FinishJob
  <2>8. CASE ListJobs(t)
    BY <2>8 DEF ListJobs
  <2>9. CASE CancelBlocked(t)
    BY <2>9 DEF CancelBlocked
  <2>10. CASE ReadVerdict(t)
    BY <2>10 DEF ReadVerdict
  <2>11. CASE Conclude(t)
    BY <2>11 DEF Conclude
  <2>12. CASE Release(t)
    BY <2>12 DEF Release
  <2>13. CASE CancelRun(t)
    BY <2>13 DEF CancelRun
  <2>14. CASE ListLive(t)
    BY <2>14 DEF ListLive
  <2>15. CASE CancelJob(t)
    BY <2>15 DEF CancelJob
  <2>16. CASE CancelOld(t)
    BY <2>16 DEF CancelOld
  <2>17. CASE ReleaseOld(t)
    BY <2>17 DEF ReleaseOld
  <2>18. CASE PickNumber(t)
    BY <2>18 DEF PickNumber
  <2>19. CASE InsertRun(t)
    BY <2>19 DEF InsertRun
  <2>20. CASE AcquireLock(t)
    BY <2>20 DEF AcquireLock
  <2>21. CASE CreateJob(t)
    BY <2>21 DEF CreateJob
  <2> QED BY <1>1, <2>1, <2>2, <2>3, <2>4, <2>5, <2>6, <2>7, <2>8, <2>9, <2>10, <2>11, <2>12, <2>13, <2>14, <2>15, <2>16, <2>17, <2>18, <2>19, <2>20, <2>21
       DEF HandlerStep, CheckStep
<1>2. ASSUME NEW t \in All, UserStep(t) PROVE Quietly \/ (Paid /\ crashes' = crashes /\ cancels' = cancels + 1)
  <2>1. CASE BeginTrigger(t)
    BY <2>1 DEF BeginTrigger
  <2>2. CASE BeginUngrouped(t) \/ BeginCancel(t)
    BY <2>2 DEF BeginUngrouped, BeginCancel
  <2> QED BY <1>2, <2>1, <2>2 DEF UserStep
<1>3. CASE \/ \E t \in Threads, w \in Runners : RunnerStep(w, t)
           \/ \E w \in Runners :
                 ExecuteError(w) \/ Heartbeat(w) \/ TimeOut(w) \/ RestartRunner(w)
           \/ \E j \in Jobs : Age(j)
  <2>1. /\ losses' = losses \/ losses' = losses + 1
        /\ crashes' = crashes /\ cancels' = cancels
    BY <1>3 DEF RunnerStep, Poll, Start, Finish, Report, Send, ExecuteError,
       Heartbeat, TimeOut, RestartRunner, Age
  <2> QED BY <1>0, <2>1
<1>4. ASSUME ReaperStep PROVE Quietly
  <2>1. CASE SelectStale
    BY <2>1 DEF SelectStale
  <2>2. CASE FailStale
    BY <2>2 DEF FailStale
  <2>3. CASE CheckStep(Reaper)
    BY <1>1, <2>3, Constants DEF HandlerStep
  <2> QED BY <1>4, <2>1, <2>2, <2>3 DEF ReaperStep
<1>5. Paid => (losses' = 0 => losses = 0)
  BY <1>0 DEF Outcome
<1>6. CASE CrashServer
  BY <1>0, <1>6 DEF CrashServer
<1>7. CASE UNCHANGED vars
  BY <1>7 DEF vars
<1> HIDE DEF Paid
<1> QED BY <1>0, <1>1, <1>2, <1>3, <1>4, <1>5, <1>6, <1>7, Constants DEF Next

(* The invariant, as long as nothing has failed or restarted. *)
UndisturbedLock == Undisturbed => LockInv

LEMMA LockStep == TypeInv /\ ClaimInv /\ UndisturbedLock /\ [Next]_vars => UndisturbedLock'
<1> SUFFICES ASSUME TypeInv, ClaimInv, UndisturbedLock, [Next]_vars, losses' = 0, crashes' = 0
             PROVE  LockInv'
  BY DEF UndisturbedLock, Undisturbed
<1>0. LockInv /\ crashes = 0 /\ losses = 0
  BY CountersGrow DEF UndisturbedLock, Undisturbed
<1>1. CASE UNCHANGED vars
  BY <1>0, <1>1, LockRest, RowsStaySame, JobsStayRows, NoneEndsSame DEF vars
<1>2. ASSUME NEW t \in Threads, HandlerStep(t) \/ UserStep(t) PROVE LockInv'
  BY <1>0, <1>2, ServeLock, FinishLock, CheckLock, CancelLock, TriggerLock, InsertLock,
     AcquireLockLock, CreateJobLock, Constants
     DEF HandlerStep, UserStep
<1>3. CASE ReaperStep
  BY <1>0, <1>3, ReaperLock, CheckLock, Constants DEF ReaperStep
<1>4. ~CrashServer
  BY <1>0 DEF CrashServer
<1> QED BY <1>0, <1>1, <1>2, <1>3, <1>4, RunnerLock, RestLock DEF Next

(* As long as no statement has failed and nothing has restarted, a run     *)
(* that ended by itself and has been left alone does not hold the          *)
(* concurrency group: for every number of triggers, completions,           *)
(* cancellations and reaped jobs in progress, the run ends only once it    *)
(* has a job, hence after its lock was taken, and its goroutine deletes    *)
(* the lock next.  (With a failed DELETE or a crash before it the lock     *)
(* stays, as ci.go ignores the error.)                                     *)
THEOREM LockComesBack == Spec => []LockReturned
<1>1. Init => TypeInv /\ ClaimInv /\ UndisturbedLock
  BY InitType, InitClaims, InitLock DEF UndisturbedLock
<1>2. TypeInv /\ ClaimInv /\ UndisturbedLock /\ [Next]_vars
        => (TypeInv /\ ClaimInv /\ UndisturbedLock)'
  BY TypeStep, ClaimStep, LockStep
<1>3. TypeInv /\ ClaimInv /\ UndisturbedLock => LockReturned
  BY DEF UndisturbedLock, LockInv, Returning, LockReturned, Ended, Quiet, Created
<1> QED BY <1>1, <1>2, <1>3, PTL DEF Spec
-----------------------------------------------------------------------------
(* The last completion is never lost.  When all jobs of a run are          *)
(* completed and the run is not, somebody is still going to look at it:    *)
(* a runner has a job of the run that it is to complete again, or a        *)
(* goroutine is about to complete one, is checking the run or has it on    *)
(* its list.  It holds as long as no statement fails, the control plane    *)
(* does not stop and no user cancels.                                      *)

StartPCs == {"start", "beat", "readRun", "markRun"}

Done(rs, js, r) ==
    /\ HasJob(js, r)
    /\ \A j \in JobsOf(r) : js[j].status \in {"absent", "completed"}
    /\ rs[r].status # "completed"

Waits(x, r) == \/ x.pc = "complete" /\ x.job \in JobsOf(r)
               \/ x.pc \in CheckPCs \ {"release"} /\ x.run = r
               \/ r \in x.next
Works(y, r) == y.phase \in {"claimed", "starting", "running", "failed"} /\ y.job \in JobsOf(r)
Busy(th, rn, r) == (\E t \in All : Waits(th[t], r)) \/ (\E w \in Runners : Works(rn[w], r))

Calm(y)  == y.phase \in {"claimed", "running", "failed"} => y.thread = NoThread
Plain(x) == /\ x.next # {} => x.pc \in CheckPCs \cup {"reap"}
            /\ x.pc = "cascade" => x.todo \subseteq JobsOf(x.run)
            /\ x.pc \notin {"cancelRun", "listLive", "cancelJobs"}
Awaited(x, t, rn) ==
    x.pc \in StartPCs =>
        \E w \in Runners : rn[w].thread = t /\ rn[w].phase = "starting" /\ rn[w].job = x.job

SettleInv ==
    /\ \A w \in Runners : Calm(runner[w])
    /\ \A t \in All : Plain(thread[t]) /\ Awaited(thread[t], t, runner)
    /\ \A r \in Runs : Done(runs, jobs, r) => Busy(thread, runner, r)

(* Most steps complete no job and reopen no run. *)
RowsQuiet == \A j \in Jobs :
    /\ jobs'[j].status = "completed" => jobs[j].status = "completed"
    /\ jobs'[j].status = "absent" => jobs[j].status = "absent"
RunsQuiet == \A r \in Runs : runs[r].status = "completed" => runs'[r].status = "completed"

LEMMA DoneKept ==
    ASSUME RowsQuiet, RunsQuiet, NEW r \in Runs, Done(runs', jobs', r)
    PROVE  Done(runs, jobs, r)
<1>1. \A j \in JobsOf(r) : j \in Jobs
  BY Constants
<1>2. \A j \in JobsOf(r) : jobs[j].status \in {"absent", "completed"}
  BY <1>1 DEF Done, RowsQuiet
<1>3. HasJob(jobs, r)
  BY <1>1 DEF Done, HasJob, RowsQuiet
<1> QED BY <1>2, <1>3 DEF Done, RunsQuiet

(* The goroutine goes on. *)
LEMMA SettleThread ==
    ASSUME TypeInv, SettleInv, UNCHANGED runner,
           NEW t \in All, NEW x, thread' = [thread EXCEPT ![t] = x], Plain(x),
           x.pc \in StartPCs => thread[t].pc \in StartPCs /\ x.job = thread[t].job,
           \A r \in Runs : Done(runs', jobs', r) =>
               /\ Done(runs, jobs, r) \/ Waits(x, r)
               /\ Waits(thread[t], r) => Waits(x, r)
    PROVE  SettleInv'
<1>1. \A u \in All : thread'[u] = IF u = t THEN x ELSE thread[u]
  BY DEF TypeInv, TypeOK
<1>2. \A w \in Runners : Calm(runner'[w])
  BY DEF SettleInv
<1>3. ASSUME NEW u \in All
      PROVE  Plain(thread'[u]) /\ Awaited(thread'[u], u, runner')
  <2>1. Plain(thread[u]) /\ Awaited(thread[u], u, runner)
    BY DEF SettleInv
  <2> QED BY <1>1, <2>1 DEF Awaited
<1>4. ASSUME NEW r \in Runs, Done(runs', jobs', r) PROVE Busy(thread', runner', r)
  <2>1. CASE Waits(x, r)
    BY <1>1, <2>1 DEF Busy
  <2>2. CASE ~Waits(x, r)
    <3>1. Busy(thread, runner, r) /\ ~Waits(thread[t], r)
      BY <1>4, <2>2 DEF SettleInv
    <3> QED BY <1>1, <3>1 DEF Busy
  <2> QED BY <2>1, <2>2
<1> QED BY <1>2, <1>3, <1>4 DEF SettleInv

(* What an answer does to the runner that waits for it. *)
LEMMA ResumeKeeps ==
    ASSUME TypeInv, NEW w \in Runners, NEW good \in BOOLEAN, NEW j \in Jobs \cup {NoJob},
           Calm(runner[w]), runner[w].thread # NoThread
    PROVE  /\ Calm(Resume(w, good, j))
           /\ \A r : Works(runner[w], r) => Works(Resume(w, good, j), r)
<1>1. runner[w] \in Worker /\ Resume(w, good, j).thread = NoThread
  BY ResumeType DEF TypeInv, TypeOK
<1>2. ASSUME runner[w].phase = "starting"
      PROVE  /\ Resume(w, good, j).phase \in {"running", "failed"}
             /\ Resume(w, good, j).job = runner[w].job
  <2>1. CASE good
    <3> DEFINE y == [runner[w] EXCEPT !.phase = "running", !.thread = NoThread]
    <3>1. y.phase = "running" /\ y.job = runner[w].job
      BY <1>1 DEF Worker
    <3>2. Resume(w, good, j) = y
      BY <1>2, <2>1 DEF Resume
    <3> QED BY <3>1, <3>2
  <2>2. CASE ~good
    <3> DEFINE y == [runner[w] EXCEPT !.phase = "failed", !.thread = NoThread]
    <3>1. y.phase = "failed" /\ y.job = runner[w].job
      BY <1>1 DEF Worker
    <3>2. Resume(w, good, j) = y
      BY <1>2, <2>2 DEF Resume
    <3> QED BY <3>1, <3>2
  <2> QED BY <2>1, <2>2
<1>3. ASSUME NEW r, Works(runner[w], r) PROVE Works(Resume(w, good, j), r)
  <2>1. runner[w].phase = "starting"
    BY <1>3 DEF Works, Calm
  <2> QED BY <1>2, <1>3, <2>1 DEF Works
<1> QED BY <1>1, <1>3 DEF Calm

(* The goroutine ends. *)
LEMMA SettleAnswer ==
    ASSUME TypeInv, SettleInv, NEW t \in All, NEW good \in BOOLEAN,
           NEW j \in Jobs \cup {NoJob}, Answer(t, good, j),
           \A r \in Runs : Done(runs', jobs', r) =>
               /\ Done(runs, jobs, r) \/ Busy(thread, runner, r)
               /\ ~Waits(thread[t], r)
    PROVE  SettleInv'
<1>1. \A u \in All : thread'[u] = IF u = t THEN Idle ELSE thread[u]
  BY DEF Answer, TypeInv, TypeOK
<1>2. \A w \in Runners :
         runner'[w] = IF runner[w].thread = t THEN Resume(w, good, j) ELSE runner[w]
  BY DEF Answer
<1>3. ASSUME NEW w \in Runners
      PROVE  /\ Calm(runner'[w])
             /\ \A r : Works(runner[w], r) => Works(runner'[w], r)
  <2>1. Calm(runner[w])
    BY DEF SettleInv
  <2>2. CASE runner[w].thread = t
    <3>1. runner[w].thread # NoThread
      BY <2>2, Constants
    <3> QED BY <1>2, <2>1, <2>2, <3>1, ResumeKeeps
  <2>3. CASE runner[w].thread # t
    BY <1>2, <2>1, <2>3
  <2> QED BY <2>2, <2>3
<1>4. ASSUME NEW u \in All
      PROVE  Plain(thread'[u]) /\ Awaited(thread'[u], u, runner')
  <2>1. Plain(thread[u]) /\ Awaited(thread[u], u, runner)
    BY DEF SettleInv
  <2>2. CASE u = t
    BY <1>1, <2>2 DEF Idle, Plain, Awaited, StartPCs
  <2>3. CASE u # t
    BY <1>1, <1>2, <2>1, <2>3 DEF Awaited
  <2> QED BY <2>2, <2>3
<1>5. ASSUME NEW r \in Runs, Done(runs', jobs', r) PROVE Busy(thread', runner', r)
  <2>1. Busy(thread, runner, r) /\ ~Waits(thread[t], r)
    BY <1>5 DEF SettleInv
  <2> QED BY <1>1, <1>3, <2>1 DEF Busy
<1> QED BY <1>3, <1>4, <1>5 DEF SettleInv
LEMMA RowsQuietSame == UNCHANGED jobs => RowsQuiet
BY DEF RowsQuiet

LEMMA RowsQuietWrite ==
    ASSUME TypeInv, NEW j, NEW x, jobs' = [jobs EXCEPT ![j] = x],
           x.status = jobs[j].status \/ x.status \notin {"absent", "completed"}
    PROVE  RowsQuiet
<1>1. \A k \in Jobs : jobs'[k] = IF k = j THEN x ELSE jobs[k]
  BY DEF TypeInv, TypeOK
<1> QED BY <1>1 DEF RowsQuiet

LEMMA RowsQuietHeartbeat ==
    ASSUME TypeInv, NEW j \in Jobs, NEW ok \in BOOLEAN, HeartbeatJob(j, ok)
    PROVE  RowsQuiet
<1> DEFINE x == [jobs[j] EXCEPT !.beat = "fresh"]
<1>1. x.status = jobs[j].status /\ jobs' \in {jobs, [jobs EXCEPT ![j] = x]}
  BY DEF HeartbeatJob, TypeInv, TypeOK, JobRow
<1> HIDE DEF x
<1> QED BY <1>1, RowsQuietSame, RowsQuietWrite

LEMMA RunsQuietSame == UNCHANGED runs => RunsQuiet
BY DEF RunsQuiet

LEMMA RunsQuietComplete ==
    ASSUME TypeInv, NEW r \in Runs, NEW c, NEW ok \in BOOLEAN, CompleteWorkflowRun(r, c, ok)
    PROVE  RunsQuiet /\ (ok => runs'[r].status = "completed")
<1> DEFINE y == [runs[r] EXCEPT !.status = "completed", !.conclusion = c]
<1>1. y.status = "completed" /\ runs' = IF ok THEN [runs EXCEPT ![r] = y] ELSE runs
  BY DEF CompleteWorkflowRun, TypeInv, TypeOK, RunRow
<1> HIDE DEF y
<1> QED BY <1>1 DEF RunsQuiet, TypeInv, TypeOK

(* A completed job can settle its own run only. *)
LEMMA DoneComplete ==
    ASSUME TypeInv, UNCHANGED runs, NEW j \in Jobs, NEW c, NEW ok \in BOOLEAN,
           CompleteJob(j, c, ok), NEW r \in Runs, Done(runs', jobs', r), j \notin JobsOf(r)
    PROVE  Done(runs, jobs, r)
<1>1. \A k \in Jobs : k # j => jobs'[k] = jobs[k]
  BY DEF CompleteJob, TypeInv, TypeOK
<1>2. \A k \in JobsOf(r) : jobs'[k] = jobs[k]
  BY <1>1, Constants
<1> QED BY <1>2 DEF Done, HasJob

(* A goroutine that is not concerned with the completion of a job. *)
AwayPCs == PCs \ (CheckPCs \cup {"complete", "reap"})

LEMMA AwayWaits ==
    ASSUME TypeInv, SettleInv, NEW t \in All, thread[t].pc \in AwayPCs
    PROVE  thread[t].next = {} /\ \A r : ~Waits(thread[t], r)
BY DEF SettleInv, Plain, Waits, AwayPCs

LEMMA SettleAway ==
    ASSUME TypeInv, SettleInv, RowsQuiet, RunsQuiet, UNCHANGED runner,
           NEW t \in All, thread[t].pc \in AwayPCs,
           NEW x, thread' = [thread EXCEPT ![t] = x],
           x.next = {}, x.pc \notin {"cascade", "cancelRun", "listLive", "cancelJobs"},
           x.pc \in StartPCs => thread[t].pc \in StartPCs /\ x.job = thread[t].job
    PROVE  SettleInv'
<1>1. \A r \in Runs : Done(runs', jobs', r) =>
          (Done(runs, jobs, r) \/ Waits(x, r)) /\ (Waits(thread[t], r) => Waits(x, r))
  BY DoneKept, AwayWaits
<1>2. Plain(x)
  BY DEF Plain
<1> QED BY <1>1, <1>2, SettleThread

LEMMA SettleAwayGoto ==
    ASSUME TypeInv, SettleInv, RowsQuiet, RunsQuiet, UNCHANGED runner,
           NEW t \in All, thread[t].pc \in AwayPCs, NEW p, Goto(t, p),
           p \notin {"cascade", "cancelRun", "listLive", "cancelJobs"},
           p \in StartPCs => thread[t].pc \in StartPCs
    PROVE  SettleInv'
<1> DEFINE x == [thread[t] EXCEPT !.pc = p]
<1>1. /\ x.pc = p /\ x.next = thread[t].next /\ x.job = thread[t].job
      /\ thread' = [thread EXCEPT ![t] = x]
  BY DEF Goto, TypeInv, TypeOK, Request
<1>2. thread[t].next = {}
  BY AwayWaits
<1> HIDE DEF x
<1> QED BY <1>1, <1>2, SettleAway

LEMMA SettleAwayAnswer ==
    ASSUME TypeInv, SettleInv, RowsQuiet, RunsQuiet, NEW t \in All, thread[t].pc \in AwayPCs,
           NEW good \in BOOLEAN, NEW j \in Jobs \cup {NoJob}, Answer(t, good, j)
    PROVE  SettleInv'
BY DoneKept, AwayWaits, SettleAnswer

LEMMA SettleAwayIdle ==
    ASSUME TypeInv, SettleInv, RowsQuiet, RunsQuiet, UNCHANGED runner,
           NEW t \in All, thread[t].pc \in AwayPCs, thread' = [thread EXCEPT ![t] = Idle]
    PROVE  SettleInv'
<1>1. Idle.next = {} /\ Idle.pc = "idle"
  BY DEF Idle
<1> QED BY <1>1, SettleAway DEF StartPCs

(* The check of a run is over: nothing is left to be done for it. *)
LEMMA SettleEndCheck ==
    ASSUME TypeInv, SettleInv, RowsQuiet, RunsQuiet, NEW t \in All, EndCheck(t),
           \A r \in Runs : Done(runs', jobs', r) /\ Waits(thread[t], r) => r \in thread[t].next
    PROVE  SettleInv'
<1>1. CASE thread[t].next = {} /\ Answer(t, TRUE, NoJob)
  <2>1. \A r \in Runs : Done(runs', jobs', r) => ~Waits(thread[t], r)
    BY <1>1
  <2>2. \A r \in Runs : Done(runs', jobs', r) => Done(runs, jobs, r)
    BY DoneKept
  <2> QED BY <1>1, <2>1, <2>2, SettleAnswer
<1>2. CASE /\ \E r \in thread[t].next :
                 thread' = [thread EXCEPT ![t] = [Idle EXCEPT !.pc = "list", !.run = r,
                                                  !.next = thread[t].next \ {r}]]
           /\ UNCHANGED runner
  <2>1. PICK q \in thread[t].next :
              thread' = [thread EXCEPT ![t] = [Idle EXCEPT !.pc = "list", !.run = q,
                                               !.next = thread[t].next \ {q}]]
    BY <1>2
  <2> DEFINE x == [Idle EXCEPT !.pc = "list", !.run = q, !.next = thread[t].next \ {q}]
  <2>2. x.pc = "list" /\ x.run = q /\ x.next = thread[t].next \ {q}
    BY DEF Idle
  <2>3. thread' = [thread EXCEPT ![t] = x]
    BY <2>1
  <2> HIDE DEF x
  <2>4. Plain(x) /\ x.pc \notin StartPCs
    BY <2>2 DEF Plain, CheckPCs, StartPCs
  <2>5. \A r : r \in thread[t].next => Waits(x, r)
    BY <2>2 DEF Waits, CheckPCs
  <2>6. \A r \in Runs : Done(runs', jobs', r) => Done(runs, jobs, r)
    BY DoneKept
  <2> QED BY <1>2, <2>3, <2>4, <2>5, <2>6, SettleThread
<1> QED BY <1>1, <1>2 DEF EndCheck
LEMMA AwayNames ==
    {"idle", "select", "claim", "start", "beat", "readRun", "markRun", "cancelOld",
     "releaseOld", "number", "insert", "acquire", "create"} \subseteq AwayPCs
BY DEF AwayPCs, PCs, CheckPCs, CreatePCs

LEMMA ServeSettle ==
    ASSUME TypeInv, ClaimInv, SettleInv, NEW t \in Threads,
           \/ SelectJob(t) \/ ClaimJob(t) \/ StartJob(t) \/ FirstHeartbeat(t) \/ ReadRun(t)
    PROVE  SettleInv'
<1>0. /\ t \in All /\ thread[t] \in Request /\ Placed(thread[t])
      /\ jobs \in [Jobs -> JobRow] /\ RunsQuiet
      /\ thread[t].pc \in AwayPCs /\ thread[t].next = {}
  <2>1. t \in All /\ thread[t].pc \in AwayPCs /\ RunsQuiet
    BY AwayNames, Constants, RunsQuietSame DEF SelectJob, ClaimJob, StartJob,
       FirstHeartbeat, ReadRun, At
  <2> QED BY <2>1, AwayWaits DEF TypeInv, TypeOK, ThreadInv
<1>1. CASE SelectJob(t)
  <2>1. RowsQuiet
    BY <1>1, RowsQuietSame DEF SelectJob
  <2>2. CASE \E j \in {k \in Jobs : Claimable(k)} :
                /\ thread' = [thread EXCEPT ![t] = [@ EXCEPT !.pc = "claim", !.job = j]]
                /\ UNCHANGED runner
    <3>1. PICK j \in Jobs :
            thread' = [thread EXCEPT ![t] = [thread[t] EXCEPT !.pc = "claim", !.job = j]]
      BY <2>2
    <3> DEFINE x == [thread[t] EXCEPT !.pc = "claim", !.job = j]
    <3>2. x.pc = "claim" /\ x.next = thread[t].next /\ thread' = [thread EXCEPT ![t] = x]
      BY <1>0, <3>1 DEF Request
    <3> HIDE DEF x
    <3> QED BY <1>0, <2>1, <2>2, <3>2, SettleAway DEF StartPCs
  <2>3. CASE \E ok \in BOOLEAN : Answer(t, ok, NoJob)
    BY <1>0, <2>1, <2>3, SettleAwayAnswer
  <2> QED BY <1>1, <2>2, <2>3 DEF SelectJob
<1>2. CASE ClaimJob(t)
  <2> DEFINE j == thread[t].job
  <2>1. j \in Jobs
    BY <1>0, <1>2 DEF ClaimJob, At, Placed, JobPCs
  <2>2. RowsQuiet
    <3> DEFINE y == [jobs[j] EXCEPT !.status = "pending"]
    <3>1. y.status = "pending"
      BY <1>0, <2>1 DEF JobRow
    <3>2. jobs' = jobs \/ jobs' = [jobs EXCEPT ![j].status = "pending"]
      BY <1>2 DEF ClaimJob
    <3>3. jobs' = jobs \/ jobs' = [jobs EXCEPT ![j] = y]
      BY <3>2
    <3> HIDE DEF y
    <3> QED BY <3>1, <3>3, RowsQuietSame, RowsQuietWrite
  <2>3. \E good \in BOOLEAN, k \in Jobs \cup {NoJob} : Answer(t, good, k)
    BY <1>2, <2>1 DEF ClaimJob
  <2> QED BY <1>0, <2>2, <2>3, SettleAwayAnswer
<1>3. CASE StartJob(t)
  <2> DEFINE j == thread[t].job
  <2>1. j \in Jobs /\ thread[t].pc = "start"
    BY <1>0, <1>3 DEF StartJob, At, Placed, JobPCs
  <2>2. RowsQuiet
    <3> DEFINE y == [jobs[j] EXCEPT !.status = "in_progress", !.base = "fresh"]
    <3>1. y.status = "in_progress"
      BY <1>0, <2>1 DEF JobRow
    <3>2. jobs' = jobs \/ jobs' = [jobs EXCEPT ![j] = y]
      BY <1>3 DEF StartJob
    <3> HIDE DEF y
    <3> QED BY <3>1, <3>2, RowsQuietSame, RowsQuietWrite
  <2>3. (Goto(t, "beat") /\ UNCHANGED runner) \/ Answer(t, FALSE, NoJob)
    BY <1>3 DEF StartJob
  <2> QED BY <1>0, <2>1, <2>2, <2>3, SettleAwayAnswer, SettleAwayGoto DEF StartPCs
<1>4. CASE FirstHeartbeat(t)
  <2>1. RowsQuiet /\ Goto(t, "readRun") /\ thread[t].pc = "beat" /\ UNCHANGED runner
    BY <1>0, <1>4, RowsQuietHeartbeat DEF FirstHeartbeat, At, Placed, JobPCs
  <2> QED BY <1>0, <2>1, SettleAwayGoto DEF StartPCs
<1>5. CASE ReadRun(t)
  <2>1. RowsQuiet /\ thread[t].pc = "readRun"
    BY <1>5, RowsQuietSame DEF ReadRun, At
  <2>2. (Goto(t, "markRun") /\ UNCHANGED runner) \/ Answer(t, TRUE, NoJob)
    BY <1>5 DEF ReadRun
  <2> QED BY <1>0, <2>1, <2>2, SettleAwayAnswer, SettleAwayGoto DEF StartPCs
<1> QED BY <1>1, <1>2, <1>3, <1>4, <1>5

(* A run is put in progress, even one that was concluded meanwhile; but    *)
(* the runner that waits for the answer still has a job of that run.       *)
LEMMA MarkSettle ==
    ASSUME TypeInv, SettleInv, NEW t \in Threads, MarkRun(t)
    PROVE  SettleInv'
<1> DEFINE r == thread[t].job[1]
<1>1. /\ t \in All /\ thread[t].pc = "markRun" /\ thread[t].pc \in AwayPCs
      /\ UNCHANGED jobs /\ Answer(t, TRUE, NoJob) /\ thread[t].job \in Jobs
  BY AwayNames, Constants DEF MarkRun, At, TypeInv, ThreadInv, Placed, JobPCs
<1>2. PICK w \in Runners : runner[w].phase = "starting" /\ runner[w].job = thread[t].job
  BY <1>1 DEF SettleInv, Awaited, StartPCs
<1>3. Works(runner[w], r)
  <2>1. thread[t].job \in JobsOf(r)
    BY <1>1, Constants DEF JobsOf
  <2> QED BY <1>2, <2>1 DEF Works
<1>4. Busy(thread, runner, r)
  BY <1>3 DEF Busy
<1>5. \A q \in Runs \ {r} : runs'[q] = runs[q]
  <2>1. PICK y : runs' \in {runs, [runs EXCEPT ![r] = y]}
    BY DEF MarkRun
  <2> QED BY <2>1 DEF TypeInv, TypeOK
<1>6. ASSUME NEW q \in Runs, Done(runs', jobs', q)
      PROVE  (Done(runs, jobs, q) \/ Busy(thread, runner, q)) /\ ~Waits(thread[t], q)
  BY <1>1, <1>4, <1>5, <1>6, AwayWaits DEF Done
<1> QED BY <1>1, <1>6, SettleAnswer

LEMMA FinishSettle ==
    ASSUME TypeInv, ClaimInv, SettleInv, losses' = 0, NEW t \in Threads, FinishJob(t)
    PROVE  SettleInv'
<1> DEFINE j == thread[t].job
           x == [Idle EXCEPT !.pc = "list", !.run = j[1]]
<1>1. /\ t \in All /\ j \in Jobs /\ thread[t].pc = "complete" /\ UNCHANGED runs
  BY Constants DEF FinishJob, At, TypeInv, ThreadInv, Placed, JobPCs
<1>2. /\ CompleteJob(j, thread[t].word, TRUE)
      /\ thread' = [thread EXCEPT ![t] = x] /\ UNCHANGED runner
  BY NoFailure DEF FinishJob
<1>3. x.pc = "list" /\ x.next = {} /\ x.run = j[1]
  BY DEF Idle
<1>4. thread[t].next = {}
  BY <1>1 DEF SettleInv, Plain, CheckPCs
<1> HIDE DEF x, j
<1>5. ASSUME NEW r \in Runs, Done(runs', jobs', r)
      PROVE  /\ Done(runs, jobs, r) \/ Waits(x, r)
             /\ Waits(thread[t], r) => Waits(x, r)
  <2>1. j \in JobsOf(r) => Waits(x, r)
    BY <1>3 DEF Waits, CheckPCs, JobsOf
  <2>2. j \notin JobsOf(r) => Done(runs, jobs, r)
    BY <1>1, <1>2, <1>5, DoneComplete
  <2>3. Waits(thread[t], r) => j \in JobsOf(r)
    BY <1>1, <1>4 DEF Waits, CheckPCs, j
  <2> QED BY <2>1, <2>2, <2>3
<1>6. Plain(x) /\ x.pc \notin StartPCs
  BY <1>3 DEF Plain, StartPCs
<1> QED BY <1>1, <1>2, <1>5, <1>6, SettleThread
LEMMA CheckSettle ==
    ASSUME TypeInv, ClaimInv, SettleInv, losses' = 0, NEW t \in All, CheckStep(t)
    PROVE  SettleInv'
<1>0. thread[t] \in Request /\ Placed(thread[t]) /\ Plain(thread[t])
  BY DEF TypeInv, TypeOK, ThreadInv, SettleInv
<1>a. thread[t].run \in Runs
  BY <1>0 DEF CheckStep, ListJobs, CancelBlocked, ReadVerdict, Conclude, Release, At,
              Placed, RunPCs
<1>1. CASE ListJobs(t)
  <2>1. RowsQuiet /\ RunsQuiet /\ thread[t].pc = "list"
    BY <1>1, RowsQuietSame, RunsQuietSame DEF ListJobs, At
  <2> DEFINE p == IF Blocked(thread[t].run) = {} THEN "verdict" ELSE "cascade"
             x == [thread[t] EXCEPT !.todo = Blocked(thread[t].run), !.pc = p]
  <2>2. thread' = [thread EXCEPT ![t] = x] /\ UNCHANGED runner
    BY <1>1, NoFailure DEF ListJobs
  <2>3. /\ x.pc \in {"verdict", "cascade"} /\ x.run = thread[t].run
        /\ x.next = thread[t].next /\ x.todo = Blocked(thread[t].run)
    BY <1>0 DEF Request
  <2> HIDE DEF x
  <2>4. Blocked(thread[t].run) \subseteq JobsOf(thread[t].run)
    BY DEF Blocked
  <2>5. Plain(x) /\ x.pc \notin StartPCs
    BY <2>3, <2>4 DEF Plain, CheckPCs, StartPCs
  <2>6. \A r : Waits(thread[t], r) => Waits(x, r)
    BY <2>1, <2>3 DEF Waits, CheckPCs
  <2> QED BY <2>1, <2>2, <2>5, <2>6, DoneKept, SettleThread
<1>2. CASE CancelBlocked(t)
  <2>1. PICK j \in thread[t].todo, ok \in BOOLEAN :
            CompleteJob(j, "cancelled", ok) /\ Strike(t, j, "cascade", "verdict")
    BY <1>2 DEF CancelBlocked
  <2>2. UNCHANGED <<runner, runs>> /\ thread[t].pc = "cascade"
    BY <1>2 DEF CancelBlocked, At
  <2> DEFINE p == IF thread[t].todo = {j} THEN "verdict" ELSE "cascade"
             x == [thread[t] EXCEPT !.todo = thread[t].todo \ {j}, !.pc = p]
  <2>3. thread' = [thread EXCEPT ![t] = x]
    BY <2>1 DEF Strike
  <2>4. /\ x.pc \in {"verdict", "cascade"} /\ x.run = thread[t].run
        /\ x.next = thread[t].next /\ x.todo \subseteq thread[t].todo
    BY <1>0 DEF Request
  <2> HIDE DEF x
  <2>5. thread[t].todo \subseteq JobsOf(thread[t].run) /\ j \in JobsOf(thread[t].run)
    BY <1>0, <2>1, <2>2 DEF Plain
  <2>6. Plain(x) /\ x.pc \notin StartPCs
    BY <2>4, <2>5 DEF Plain, CheckPCs, StartPCs
  <2>7. \A r : Waits(thread[t], r) => Waits(x, r)
    BY <2>2, <2>4 DEF Waits, CheckPCs
  <2>8. ASSUME NEW r \in Runs, Done(runs', jobs', r) PROVE Done(runs, jobs, r) \/ Waits(x, r)
    <3>1. CASE r = thread[t].run
      BY <2>4, <3>1 DEF Waits, CheckPCs
    <3>2. CASE r # thread[t].run
      <4>1. j \notin JobsOf(r) /\ j \in Jobs
        BY <1>a, <2>5, <3>2, Constants DEF JobsOf
      <4> QED BY <2>1, <2>2, <2>8, <4>1, DoneComplete
    <3> QED BY <3>1, <3>2
  <2> QED BY <2>2, <2>3, <2>6, <2>7, <2>8, SettleThread
<1>3. CASE ReadVerdict(t)
  <2>1. RowsQuiet /\ RunsQuiet /\ thread[t].pc = "verdict"
    BY <1>3, RowsQuietSame, RunsQuietSame DEF ReadVerdict, At
  <2> DEFINE x == [thread[t] EXCEPT !.pc = "conclude", !.word = Verdict(thread[t].run)]
  <2>2. \/ EndCheck(t) /\ ~AllComplete(thread[t].run)
        \/ thread' = [thread EXCEPT ![t] = x] /\ UNCHANGED runner
    BY <1>3, NoFailure DEF ReadVerdict
  <2>3. x.pc = "conclude" /\ x.run = thread[t].run /\ x.next = thread[t].next
    BY <1>0 DEF Request
  <2> HIDE DEF x
  <2>4. CASE thread' = [thread EXCEPT ![t] = x] /\ UNCHANGED runner
    <3>1. Plain(x) /\ x.pc \notin StartPCs
      BY <2>3 DEF Plain, CheckPCs, StartPCs
    <3>2. \A r : Waits(thread[t], r) => Waits(x, r)
      BY <2>1, <2>3 DEF Waits, CheckPCs
    <3> QED BY <2>1, <2>4, <3>1, <3>2, DoneKept, SettleThread
  <2>5. CASE EndCheck(t) /\ ~AllComplete(thread[t].run)
    <3>1. ASSUME NEW r \in Runs, Done(runs', jobs', r), Waits(thread[t], r)
          PROVE  r \in thread[t].next
      <4>1. Done(runs, jobs, r)
        BY <2>1, <3>1, DoneKept
      <4>2. AllComplete(r)
        BY <4>1 DEF Done, AllComplete, Exists
      <4> QED BY <2>1, <2>5, <3>1, <4>2 DEF Waits
    <3> QED BY <2>1, <2>5, <3>1, SettleEndCheck
  <2> QED BY <2>2, <2>4, <2>5
<1>4. CASE Conclude(t)
  <2> DEFINE x == [thread[t] EXCEPT !.pc = "release"]
  <2>1. /\ RowsQuiet /\ RunsQuiet /\ thread[t].pc = "conclude" /\ UNCHANGED runner
        /\ runs'[thread[t].run].status = "completed"
    BY <1>a, <1>4, NoFailure, RowsQuietSame, RunsQuietComplete DEF Conclude, At
  <2>2. x.pc = "release" /\ x.next = thread[t].next
    BY <1>0 DEF Request
  <2>3. thread' = [thread EXCEPT ![t] = x]
    BY <1>4 DEF Conclude, Goto
  <2> HIDE DEF x
  <2>4. Plain(x) /\ x.pc \notin StartPCs
    BY <2>2 DEF Plain, CheckPCs, StartPCs
  <2>5. ASSUME NEW r \in Runs, Done(runs', jobs', r), Waits(thread[t], r) PROVE Waits(x, r)
    BY <2>1, <2>2, <2>5 DEF Waits, Done
  <2> QED BY <2>1, <2>3, <2>4, <2>5, DoneKept, SettleThread
<1>5. CASE Release(t)
  <2>1. RowsQuiet /\ RunsQuiet /\ thread[t].pc = "release" /\ EndCheck(t)
    BY <1>5, RowsQuietSame, RunsQuietSame DEF Release, At
  <2>2. \A r : Waits(thread[t], r) => r \in thread[t].next
    BY <2>1 DEF Waits
  <2> QED BY <2>1, <2>2, SettleEndCheck
<1> QED BY <1>1, <1>2, <1>3, <1>4, <1>5 DEF CheckStep
LEMMA CreateSettle ==
    ASSUME TypeInv, SettleInv, NEW t \in Threads,
           \/ BeginTrigger(t) \/ BeginUngrouped(t) \/ CancelOld(t) \/ ReleaseOld(t)
           \/ PickNumber(t) \/ InsertRun(t) \/ AcquireLock(t) \/ CreateJob(t)
    PROVE  SettleInv'
<1>0. /\ t \in All /\ thread[t] \in Request /\ Placed(thread[t]) /\ UNCHANGED runner
      /\ thread[t].pc \in AwayPCs /\ thread[t].next = {}
  <2>1. t \in All /\ thread[t].pc \in AwayPCs /\ UNCHANGED runner
    BY AwayNames, Constants DEF BeginTrigger, BeginUngrouped, CancelOld, ReleaseOld,
       PickNumber, InsertRun, AcquireLock, CreateJob, At
  <2> QED BY <2>1, AwayWaits DEF TypeInv, TypeOK, ThreadInv
<1>1. RowsQuiet
  <2>1. CASE CreateJob(t)
    <3>1. PICK j : jobs' \in {jobs, [jobs EXCEPT ![j] = NewJob]}
      BY <2>1 DEF CreateJob
    <3> QED BY <3>1, Records, RowsQuietSame, RowsQuietWrite
  <2>2. CASE UNCHANGED jobs
    BY <2>2, RowsQuietSame
  <2> QED BY <2>1, <2>2 DEF BeginTrigger, BeginUngrouped, CancelOld, ReleaseOld,
          PickNumber, InsertRun, AcquireLock
<1>2. RunsQuiet
  <2>1. CASE CancelOld(t)
    BY <1>0, <2>1, RunsQuietComplete DEF CancelOld, At, Placed, RunPCs
  <2>2. CASE InsertRun(t)
    <3> DEFINE y == [NoRow EXCEPT !.status = "queued", !.number = thread[t].number]
    <3>1. PICK r \in NewRun : runs' \in {runs, [runs EXCEPT ![r] = y]}
      BY <2>2 DEF InsertRun
    <3> HIDE DEF y
    <3>2. runs[r].status = "absent"
      BY <3>1 DEF NewRun, Created
    <3> QED BY <3>1, <3>2 DEF RunsQuiet, TypeInv, TypeOK
  <2>3. CASE UNCHANGED runs
    BY <2>3, RunsQuietSame
  <2> QED BY <2>1, <2>2, <2>3 DEF BeginTrigger, BeginUngrouped, ReleaseOld,
          PickNumber, AcquireLock, CreateJob
<1>a. CASE thread' = [thread EXCEPT ![t] = Idle]
  BY <1>0, <1>1, <1>2, <1>a, SettleAwayIdle
<1>b. ASSUME NEW x, thread' = [thread EXCEPT ![t] = x], x.next = {},
             x.pc \in {"cancelOld", "number", "insert", "acquire", "create"}
      PROVE  SettleInv'
  BY <1>0, <1>1, <1>2, <1>b, SettleAway DEF StartPCs
<1>3. CASE BeginTrigger(t)
  <2>1. PICK ok \in BOOLEAN : thread' = [thread EXCEPT ![t] =
          [Idle EXCEPT !.pc = IF ok /\ lock # NoRun THEN "cancelOld" ELSE "number",
                       !.run = lock, !.grouped = (Concurrency # "none")]]
    BY <1>3 DEF BeginTrigger
  <2> DEFINE p == IF ok /\ lock # NoRun THEN "cancelOld" ELSE "number"
             y == [Idle EXCEPT !.pc = p, !.run = lock, !.grouped = (Concurrency # "none")]
  <2>2. y.pc \in {"cancelOld", "number"} /\ y.next = {}
    BY DEF Idle
  <2>3. thread' = [thread EXCEPT ![t] = y]
    BY <2>1
  <2> HIDE DEF y, p
  <2> QED BY <1>b, <2>2, <2>3
<1>4. CASE BeginUngrouped(t)
  <2> DEFINE y == [Idle EXCEPT !.pc = "number"]
  <2>1. y.pc = "number" /\ y.next = {} /\ thread' = [thread EXCEPT ![t] = y]
    BY <1>4 DEF BeginUngrouped, Idle
  <2> HIDE DEF y
  <2> QED BY <1>b, <2>1
<1>5. CASE CancelOld(t) \/ ReleaseOld(t) \/ AcquireLock(t)
  <2>1. PICK p \in {"releaseOld", "number", "create"} : Goto(t, p)
    BY <1>5 DEF CancelOld, ReleaseOld, AcquireLock
  <2> QED BY <1>0, <1>1, <1>2, <2>1, SettleAwayGoto DEF StartPCs
<1>6. CASE PickNumber(t)
  <2>1. PICK n : thread' \in {[thread EXCEPT ![t] = Idle],
             [thread EXCEPT ![t] = [thread[t] EXCEPT !.pc = "insert", !.number = n]]}
    BY <1>6 DEF PickNumber
  <2> DEFINE x == [thread[t] EXCEPT !.pc = "insert", !.number = n]
  <2>2. x.pc = "insert" /\ x.next = {}
    BY <1>0 DEF Request
  <2>3. \/ thread' = [thread EXCEPT ![t] = Idle]
        \/ thread' = [thread EXCEPT ![t] = x]
    BY <2>1
  <2> HIDE DEF x
  <2> QED BY <1>a, <1>b, <2>2, <2>3
<1>7. CASE InsertRun(t)
  <2> DEFINE p == IF thread[t].grouped THEN "acquire" ELSE "create"
  <2>1. PICK r : thread' \in {[thread EXCEPT ![t] = Idle],
          [thread EXCEPT ![t] = [thread[t] EXCEPT !.run = r, !.number = 1, !.pc = p]]}
    BY <1>7 DEF InsertRun
  <2> DEFINE x == [thread[t] EXCEPT !.run = r, !.number = 1, !.pc = p]
  <2>2. x.pc \in {"acquire", "create"} /\ x.next = {}
    BY <1>0 DEF Request
  <2>3. \/ thread' = [thread EXCEPT ![t] = Idle]
        \/ thread' = [thread EXCEPT ![t] = x]
    BY <2>1
  <2> HIDE DEF x
  <2> QED BY <1>a, <1>b, <2>2, <2>3
<1>8. CASE CreateJob(t)
  <2> DEFINE x == [thread[t] EXCEPT !.number = thread[t].number + 1]
  <2>1. \/ thread' = [thread EXCEPT ![t] = Idle]
        \/ thread' = [thread EXCEPT ![t] = x]
    BY <1>8 DEF CreateJob
  <2>2. x.pc = "create" /\ x.next = {}
    BY <1>0, <1>8 DEF Request, CreateJob, At
  <2> HIDE DEF x
  <2> QED BY <1>a, <1>b, <2>1, <2>2
<1> QED BY <1>3, <1>4, <1>5, <1>6, <1>7, <1>8

(* A request carries the runner's job on. *)
LEMMA SettleSend ==
    ASSUME TypeInv, SettleInv, NEW w \in Runners, NEW t \in Threads, NEW p, NEW q, NEW x,
           Send(w, t, p, q, x), x.next = {}, x.job = runner[w].job \/ x.pc = "select",
           \/ p = "idle" /\ q = "claiming" /\ x.pc = "select"
           \/ p = "claimed" /\ q = "starting" /\ x.pc = "start"
           \/ p \in {"running", "failed"} /\ q \in {"completing", "reporting"}
              /\ x.pc = "complete"
    PROVE  SettleInv'
<1>1. /\ t \in All /\ thread[t].pc = "idle" /\ runner[w].phase = p
      /\ UNCHANGED <<runs, jobs>> /\ \A r : ~Waits(thread[t], r)
  <2>1. t \in All /\ thread[t].pc = "idle"
    BY Constants DEF Send, At
  <2> QED BY <2>1, AwayNames, AwayWaits DEF Send
<1>2. \A u \in All : thread'[u] = IF u = t THEN x ELSE thread[u]
  BY DEF Send, TypeInv, TypeOK
<1>3. /\ \A v \in Runners \ {w} : runner'[v] = runner[v]
      /\ runner'[w].phase = q /\ runner'[w].thread = t /\ runner'[w].job = runner[w].job
  BY DEF Send, TypeInv, TypeOK, Worker
<1>4. ASSUME NEW v \in Runners PROVE Calm(runner'[v])
  <2>1. CASE v = w
    BY <1>3, <2>1 DEF Calm
  <2>2. CASE v # w
    BY <1>3, <2>2 DEF SettleInv
  <2> QED BY <2>1, <2>2
<1>5. ASSUME NEW u \in All PROVE Plain(thread'[u]) /\ Awaited(thread'[u], u, runner')
  <2>1. Plain(thread[u]) /\ Awaited(thread[u], u, runner)
    BY DEF SettleInv
  <2>2. CASE u = t
    BY <1>2, <1>3, <2>2 DEF Plain, Awaited, StartPCs
  <2>3. CASE u # t
    <3>1. \A v \in Runners : runner[v].phase = "starting" => runner'[v] = runner[v]
      BY <1>1, <1>3
    <3> QED BY <1>2, <2>1, <2>3, <3>1 DEF Awaited
  <2> QED BY <2>2, <2>3
<1>6. ASSUME NEW r \in Runs, Done(runs', jobs', r) PROVE Busy(thread', runner', r)
  <2>1. Busy(thread, runner, r)
    BY <1>1, <1>6 DEF SettleInv
  <2>2. CASE \E u \in All : Waits(thread[u], r)
    BY <1>1, <1>2, <2>2 DEF Busy
  <2>3. CASE \E v \in Runners : Works(runner[v], r)
    <3>1. PICK v \in Runners : Works(runner[v], r)
      BY <2>3
    <3>2. CASE v # w
      BY <1>3, <3>1, <3>2 DEF Busy
    <3>3. CASE v = w
      <4>1. runner[w].job \in JobsOf(r) /\ p # "idle"
        BY <1>1, <3>1, <3>3 DEF Works
      <4>2. Works(runner'[w], r) \/ Waits(thread'[t], r)
        BY <1>1, <1>2, <1>3, <4>1 DEF Works, Waits
      <4> QED BY <1>1, <4>2 DEF Busy
    <3> QED BY <3>2, <3>3
  <2> QED BY <2>1, <2>2, <2>3 DEF Busy
<1> QED BY <1>4, <1>5, <1>6 DEF SettleInv
LEMMA RunnerSettle ==
    ASSUME TypeInv, SettleInv, NEW w \in Runners, NEW t \in Threads, RunnerStep(w, t)
    PROVE  SettleInv'
<1>1. CASE Poll(w, t)
  <2> DEFINE x == [Idle EXCEPT !.pc = "select"]
  <2>1. x.pc = "select" /\ x.next = {} /\ Send(w, t, "idle", "claiming", x)
    BY <1>1 DEF Poll, Idle
  <2> HIDE DEF x
  <2> QED BY <2>1, SettleSend
<1>2. CASE Start(w, t)
  <2> DEFINE x == [Idle EXCEPT !.pc = "start", !.job = runner[w].job]
  <2>1. /\ x.pc = "start" /\ x.next = {} /\ x.job = runner[w].job
        /\ Send(w, t, "claimed", "starting", x)
    BY <1>2 DEF Start, Idle
  <2> HIDE DEF x
  <2> QED BY <2>1, SettleSend
<1>3. CASE Finish(w, t) \/ Report(w, t)
  <2>1. PICK c \in {"success", "failure"} :
          LET x == [Idle EXCEPT !.pc = "complete", !.job = runner[w].job, !.word = c]
          IN  Send(w, t, "running", "completing", x) \/ Send(w, t, "failed", "reporting", x)
    BY <1>3 DEF Finish, Report
  <2> DEFINE x == [Idle EXCEPT !.pc = "complete", !.job = runner[w].job, !.word = c]
  <2>2. /\ x.pc = "complete" /\ x.next = {} /\ x.job = runner[w].job
        /\ Send(w, t, "running", "completing", x) \/ Send(w, t, "failed", "reporting", x)
    BY <2>1 DEF Idle
  <2> HIDE DEF x
  <2> QED BY <2>2, SettleSend
<1> QED BY <1>1, <1>2, <1>3 DEF RunnerStep

(* Heartbeats, the passing of time, and a runner that gives up its job. *)
LEMMA RestSettle ==
    ASSUME TypeInv, SettleInv,
           \/ \E w \in Runners : ExecuteError(w) \/ Heartbeat(w)
           \/ \E j \in Jobs : Age(j)
    PROVE  SettleInv'
<1>1. UNCHANGED <<runs, thread>>
  BY DEF ExecuteError, Heartbeat, Age
<1>2. RunsQuiet
  BY <1>1, RunsQuietSame
<1>3. RowsQuiet
  <2>1. ASSUME NEW w \in Runners, Heartbeat(w) PROVE RowsQuiet
    <3>1. runner[w].job \in Jobs /\ HeartbeatJob(runner[w].job, TRUE)
      BY <2>1 DEF Heartbeat, Working, TypeInv, RunnerInv
    <3> QED BY <3>1, RowsQuietHeartbeat
  <2>2. ASSUME NEW w \in Runners, ExecuteError(w) PROVE RowsQuiet
    BY <2>2, RowsQuietSame DEF ExecuteError
  <2>3. ASSUME NEW j \in Jobs, Age(j) PROVE RowsQuiet
    <3>1. PICK x \in {[jobs[j] EXCEPT !.beat = "old"], [jobs[j] EXCEPT !.base = "old"]} :
              jobs' = [jobs EXCEPT ![j] = x]
      BY <2>3 DEF Age
    <3>2. x.status = jobs[j].status
      BY <3>1 DEF TypeInv, TypeOK, JobRow
    <3> QED BY <3>1, <3>2, RowsQuietWrite
  <2> QED BY <2>1, <2>2, <2>3
<1>4. \A r \in Runs : Done(runs', jobs', r) => Busy(thread, runner, r)
  BY <1>2, <1>3, DoneKept DEF SettleInv
<1>5. CASE UNCHANGED runner
  BY <1>1, <1>4, <1>5 DEF SettleInv
<1>6. ASSUME NEW w \in Runners, ExecuteError(w) PROVE SettleInv'
  <2>1. /\ \A v \in Runners \ {w} : runner'[v] = runner[v]
        /\ runner[w].phase = "running" /\ runner'[w].phase = "failed"
        /\ runner'[w].thread = runner[w].thread /\ runner'[w].job = runner[w].job
    BY <1>6 DEF ExecuteError, TypeInv, TypeOK, Worker
  <2>2. ASSUME NEW v \in Runners
        PROVE  Calm(runner'[v]) /\ \A r : Works(runner[v], r) => Works(runner'[v], r)
    <3>1. Calm(runner[v])
      BY DEF SettleInv
    <3>2. CASE v = w
      BY <2>1, <3>1, <3>2 DEF Calm, Works
    <3>3. CASE v # w
      BY <2>1, <3>1, <3>3
    <3> QED BY <3>2, <3>3
  <2>3. \A v \in Runners : runner[v].phase = "starting" => runner'[v] = runner[v]
    BY <2>1
  <2>4. ASSUME NEW u \in All PROVE Plain(thread'[u]) /\ Awaited(thread'[u], u, runner')
    <3>1. Plain(thread[u]) /\ Awaited(thread[u], u, runner)
      BY DEF SettleInv
    <3> QED BY <1>1, <2>3, <3>1 DEF Awaited
  <2>5. ASSUME NEW r \in Runs, Done(runs', jobs', r) PROVE Busy(thread', runner', r)
    BY <1>1, <1>4, <2>2, <2>5 DEF Busy
  <2> QED BY <2>2, <2>4, <2>5 DEF SettleInv
<1> QED BY <1>5, <1>6 DEF Heartbeat, Age

LEMMA ReaperSettle ==
    ASSUME TypeInv, ClaimInv, SettleInv, SelectStale \/ FailStale
    PROVE  SettleInv'
<1>0. /\ Reaper \in All /\ thread[Reaper] \in Request /\ UNCHANGED <<runs, runner>>
      /\ RunsQuiet
  BY Constants, RunsQuietSame DEF TypeInv, TypeOK, SelectStale, FailStale
<1>1. CASE SelectStale
  <2>1. RowsQuiet /\ thread[Reaper].pc \in AwayPCs
    BY <1>1, RowsQuietSame, AwayNames DEF SelectStale, At
  <2> DEFINE S == {j \in Jobs : Stale(j)}
             x == [Idle EXCEPT !.pc = "reap", !.todo = S]
  <2>2. x.pc = "reap" /\ x.next = {} /\ thread' = [thread EXCEPT ![Reaper] = x]
    BY <1>1 DEF SelectStale, Idle
  <2> HIDE DEF x, S
  <2> QED BY <1>0, <2>1, <2>2, SettleAway DEF StartPCs
<1>2. CASE FailStale
  <2>1. PICK j \in thread[Reaper].todo, ok \in BOOLEAN :
          /\ CompleteJob(j, "failure", ok)
          /\ LET affected == thread[Reaper].next \cup {j[1]} IN
             IF thread[Reaper].todo # {j}
               THEN thread' = [thread EXCEPT ![Reaper] =
                                 [@ EXCEPT !.todo = thread[Reaper].todo \ {j},
                                           !.next = affected]]
               ELSE \E r \in affected :
                      thread' = [thread EXCEPT ![Reaper] =
                         [Idle EXCEPT !.pc = "list", !.run = r, !.next = affected \ {r}]]
    BY <1>2 DEF FailStale
  <2> DEFINE affected == thread[Reaper].next \cup {j[1]}
  <2>2. thread[Reaper].pc = "reap" /\ j \in Jobs
    BY <1>0, <1>2, <2>1 DEF FailStale, At, Request
  <2>3. ASSUME NEW x, \A r \in affected : Waits(x, r), Plain(x), x.pc \notin StartPCs,
               thread' = [thread EXCEPT ![Reaper] = x]
        PROVE  SettleInv'
    <3>1. ASSUME NEW r \in Runs, Done(runs', jobs', r)
          PROVE  /\ Done(runs, jobs, r) \/ Waits(x, r)
                 /\ Waits(thread[Reaper], r) => Waits(x, r)
      <4>1. j \in JobsOf(r) => Waits(x, r)
        BY <2>3 DEF JobsOf
      <4>2. j \notin JobsOf(r) => Done(runs, jobs, r)
        BY <1>0, <2>1, <2>2, <3>1, DoneComplete
      <4>3. Waits(thread[Reaper], r) => r \in affected
        BY <2>2 DEF Waits, CheckPCs
      <4> QED BY <2>3, <4>1, <4>2, <4>3
    <3> QED BY <1>0, <2>3, <3>1, SettleThread
  <2>4. CASE thread[Reaper].todo # {j}
    <3> DEFINE x == [thread[Reaper] EXCEPT !.todo = thread[Reaper].todo \ {j},
                                           !.next = affected]
    <3>1. /\ x.pc = "reap" /\ x.next = affected
          /\ thread' = [thread EXCEPT ![Reaper] = x]
      BY <1>0, <2>1, <2>2, <2>4 DEF Request
    <3> HIDE DEF x, affected
    <3>2. (\A r \in affected : Waits(x, r)) /\ Plain(x) /\ x.pc \notin StartPCs
      BY <3>1 DEF Waits, Plain, StartPCs
    <3> QED BY <2>3, <3>1, <3>2
  <2>5. CASE thread[Reaper].todo = {j}
    <3>1. PICK r \in affected :
            thread' = [thread EXCEPT ![Reaper] =
                         [Idle EXCEPT !.pc = "list", !.run = r, !.next = affected \ {r}]]
      BY <2>1, <2>5
    <3> DEFINE x == [Idle EXCEPT !.pc = "list", !.run = r, !.next = affected \ {r}]
    <3>2. x.pc = "list" /\ x.run = r /\ x.next = affected \ {r}
      BY DEF Idle
    <3>3. thread' = [thread EXCEPT ![Reaper] = x]
      BY <3>1
    <3> HIDE DEF x, affected
    <3>4. (\A q \in affected : Waits(x, q)) /\ Plain(x) /\ x.pc \notin StartPCs
      BY <3>2 DEF Waits, Plain, CheckPCs, StartPCs
    <3> QED BY <2>3, <3>3, <3>4
  <2> QED BY <2>4, <2>5
<1> QED BY <1>1, <1>2

LEMMA InitSettle == Init => SettleInv
<1> SUFFICES ASSUME Init PROVE SettleInv
  OBVIOUS
<1>1. Idle.pc = "idle" /\ Idle.next = {}
  BY DEF Idle
<1>2. \A t \in All : Plain(thread[t]) /\ Awaited(thread[t], t, runner)
  BY <1>1 DEF Init, Plain, Awaited, StartPCs
<1>3. \A w \in Runners : Calm(runner[w])
  BY Records DEF Init, Calm
<1>4. \A j \in Jobs : jobs[j].status = "absent"
  BY DEF Init, NewJob
<1>5. \A r \in Runs : ~Done(runs, jobs, r)
  BY <1>4, Constants DEF Done, HasJob
<1> QED BY <1>2, <1>3, <1>5 DEF SettleInv

(* The invariant, as long as no user has cancelled a run either. *)
UndisturbedSettle == Undisturbed /\ cancels = 0 => SettleInv

LEMMA SettleStep == TypeInv /\ ClaimInv /\ UndisturbedSettle /\ [Next]_vars => UndisturbedSettle'
<1> SUFFICES ASSUME TypeInv, ClaimInv, UndisturbedSettle, [Next]_vars,
                    losses' = 0, crashes' = 0, cancels' = 0
             PROVE  SettleInv'
  BY DEF UndisturbedSettle, Undisturbed
<1>0. SettleInv /\ losses = 0 /\ crashes = 0 /\ cancels = 0
  BY CountersGrow DEF UndisturbedSettle, Undisturbed
<1>1. CASE UNCHANGED vars
  BY <1>0, <1>1 DEF vars, SettleInv
<1>2. CASE Next
  <2>1. \A t \in Threads : ~BeginCancel(t)
    BY <1>0 DEF BeginCancel
  <2>4. ASSUME NEW t \in Threads, HandlerStep(t) \/ UserStep(t) PROVE SettleInv'
    <3>1. t \in All /\ Plain(thread[t])
      BY <1>0, Constants DEF SettleInv
    <3>2. ~CancelRun(t) /\ ~ListLive(t) /\ ~CancelJob(t)
      BY <3>1 DEF Plain, CancelRun, ListLive, CancelJob, At
    <3> QED BY <1>0, <2>1, <2>4, <3>1, <3>2, ServeSettle, MarkSettle, FinishSettle,
            CheckSettle, CreateSettle DEF HandlerStep, UserStep
  <2>5. CASE ReaperStep
    BY <1>0, <2>5, ReaperSettle, CheckSettle, Constants DEF ReaperStep
  <2>6. ~CrashServer /\ \A w \in Runners : ~TimeOut(w) /\ ~RestartRunner(w)
    BY <1>0 DEF CrashServer, TimeOut, RestartRunner
  <2> QED BY <1>0, <1>2, <2>4, <2>5, <2>6, RunnerSettle, RestSettle DEF Next
<1> QED BY <1>1, <1>2

(* As long as no statement has failed, nothing has restarted and no user   *)
(* has cancelled a run, a run whose jobs are all completed and which       *)
(* nobody works on is completed itself: however the completions, the       *)
(* reaper's failures, the cascades and the creation of further jobs        *)
(* interleave, and although a late StartJob puts a concluded run back in   *)
(* progress, whoever completes the last job checks the run after that.     *)
THEOREM LastCompletionCounts == Spec => []SettledRunsComplete
<1>1. Init => TypeInv /\ ClaimInv /\ UndisturbedSettle
  BY InitType, InitClaims, InitSettle DEF UndisturbedSettle
<1>2. TypeInv /\ ClaimInv /\ UndisturbedSettle /\ [Next]_vars
        => (TypeInv /\ ClaimInv /\ UndisturbedSettle)'
  BY TypeStep, ClaimStep, SettleStep
<1>3. TypeInv /\ ClaimInv /\ UndisturbedSettle => SettledRunsComplete
  <2> SUFFICES ASSUME TypeInv, SettleInv, NEW r \in Created, Settled(r)
               PROVE  runs[r].status = "completed"
    BY DEF UndisturbedSettle, SettledRunsComplete
  <2>1. r \in Runs /\ ~Busy(thread, runner, r)
    BY DEF Settled, Quiet, Busy, Waits, Works, Created
  <2>2. ~Done(runs, jobs, r)
    BY <2>1 DEF SettleInv
  <2>3. \A j : j \in RowsOf(r) <=> j \in JobsOf(r) /\ Exists(j)
    <3>1. DOMAIN jobs = Jobs
      BY DEF TypeInv, TypeOK
    <3>2. \A j : j \in Jobs /\ j[1] = r <=> j \in JobsOf(r)
      BY <2>1 DEF Jobs, JobsOf
    <3> QED BY <3>1, <3>2 DEF RowsOf
  <2> QED BY <2>2, <2>3 DEF Settled, Done, HasJob, Exists
<1> QED BY <1>1, <1>2, <1>3, PTL DEF Spec
=============================================================================
