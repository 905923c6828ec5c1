----------------------------- MODULE Workflows -----------------------------
(***************************************************************************)
(* The workflows of a repository in the control plane: the table of parsed *)
(* files, the three ways it is brought up to date (SyncWorkflows,          *)
(* DiscoverWorkflows, and the sync at the start of TriggerCI), the         *)
(* triggers and the scheduler that start runs, and the creation of a run's *)
(* jobs (ci.go, scheduler.go, db/ci.go).                                   *)
(*                                                                         *)
(* Handlers run concurrently; every database call and every call to the    *)
(* data plane is a step.  Concurrency groups and what happens to the jobs  *)
(* afterwards are CIRuns.                                                  *)
(***************************************************************************)
EXTENDS WorkflowLang

CONSTANTS Paths,      \* .yml files under .kailab/workflows
          Versions,   \* Versions[p] is the sequence of contents p may have
          Handlers,   \* requests in flight
          Events,     \* what TriggerCI may be told
          Bounds,     \* the bounds of the fields of a cron line
          Minutes,    \* the times of day, in order, one sequence of fields each
          MaxPushes, MaxRuns, MaxRequests, MaxTicks

VARIABLES head,       \* head[p]: the version of p in snap.latest, 0: no such file
          rows,       \* the workflows table, by path: a sequence of at most one row
          procs,      \* the handlers and the scheduler
          runs,       \* workflow_runs with their jobs, in order of creation
          ticks,      \* history of the scheduler: what each tick found
          group,      \* history of the syncs since there was last none: their files
          pushes, requests

vars == <<head, rows, procs, runs, ticks, group, pushes, requests>>

Scheduler == "scheduler"
Procs == Handlers \cup {Scheduler}

Content(p, v) == Versions[p][v]

\* Parse accepts this version.
Accepted == [p \in Paths |-> {v \in DOMAIN Versions[p] : Accepts(Content(p, v))}]

\* A row; its hash, parsed_json and triggers are always written together, so
\* the version stands for the three.
Row(p, v, active) == [path |-> p, hash |-> v, active |-> active]
Parsed(row) == Stored(Content(row.path, row.hash))
TriggersOf(row) == GetTriggerTypes(Content(row.path, row.hash))

NoEvent == [type |-> "none", kind |-> "other", ref |-> <<>>, target |-> <<>>, files |-> <<>>]

\* A process: what it was asked, the files it was given or fetched and has
\* still to sync, the rows it read, the workflows it still has to start, the
\* schedule's line it has come to, and the run it is making with the jobs it
\* has still to insert.
Idle == [pc |-> "idle", op |-> "none", event |-> NoEvent, files |-> <<>>, todo |-> {}, seen |-> <<>>,
         path |-> "", list |-> <<>>, line |-> 0, run |-> 0, jobs |-> <<>>]

Set(h, changes) == procs' = [procs EXCEPT ![h] = changes]

Syncing(h) == procs[h].pc \in {"post", "fetch", "read", "write"}
NoGroup == [had |-> {}, failed |-> FALSE]
Joins(op, files) == group' = [group EXCEPT !.had = @ \cup {[op |-> op, files |-> files]}]
Outcome(done) == group' = [group EXCEPT !.failed = @ \/ ~ done]
Leaves(h) == group' = IF \E k \in Handlers \ {h} : Syncing(k) THEN group ELSE NoGroup

Init ==
  /\ head = [p \in Paths |-> 0]
  /\ rows = [p \in Paths |-> <<>>]
  /\ procs = [h \in Procs |-> Idle]
  /\ runs = <<>>
  /\ ticks = <<>>
  /\ group = NoGroup
  /\ pushes = 0
  /\ requests = 0

(***************************************************************************)
(* The repository moves on (the data plane).                               *)
(***************************************************************************)

Push(p, v) ==
  /\ pushes < MaxPushes
  /\ v # head[p]
  /\ head' = [head EXCEPT ![p] = v]
  /\ pushes' = pushes + 1
  /\ UNCHANGED <<rows, procs, runs, ticks, group, requests>>

(***************************************************************************)
(* db/ci.go: the workflows table.  A call is done or fails; the caller     *)
(* answers or logs an error and goes on.                                   *)
(***************************************************************************)

\* UNIQUE (repo_id, path) refuses a row for a path that got one meanwhile.
CreateWorkflow(p, v) ==
  \E done \in BOOLEAN :
    /\ rows' = IF done /\ rows[p] = <<>> THEN [rows EXCEPT ![p] = << Row(p, v, TRUE) >>] ELSE rows
    /\ Outcome(done)

\* The whole row is written, by id.
UpdateWorkflow(p, row) ==
  \E done \in BOOLEAN :
    /\ rows' = IF done THEN [rows EXCEPT ![p] = << row >>] ELSE rows
    /\ Outcome(done)

Listed(trigger) == {p \in Paths : rows[p] # <<>> /\ rows[p][1].active /\ trigger \in TriggersOf(rows[p][1])}
ListActiveWorkflowsByTrigger(trigger) ==
  LET ps == SetToSeq(Listed(trigger)) IN [i \in DOMAIN ps |-> rows[ps[i]][1]]

(***************************************************************************)
(* SyncWorkflows: the client sends all the files it has.                   *)
(***************************************************************************)

SyncWorkflows(h) ==
  /\ procs[h] = Idle
  /\ requests < MaxRequests
  /\ requests' = requests + 1
  /\ Set(h, [Idle EXCEPT !.pc = "post", !.op = "sync", !.seen = rows, !.files = head,
                         !.todo = {p \in Paths : head[p] # 0}])
  /\ Joins("sync", head)
  /\ UNCHANGED <<head, rows, runs, ticks, pushes>>

\* One file: a parse error is answered and skipped, an unchanged hash needs
\* no write.
SyncWorkflowsFile(h, p) ==
  /\ procs[h].pc = "post"
  /\ p \in procs[h].todo
  /\ LET v == procs[h].files[p]
         existing == procs[h].seen[p]
     IN \/ /\ v \notin Accepted[p] \/ (existing # <<>> /\ existing[1].hash = v)
           /\ UNCHANGED <<rows, group>>
        \/ v \in Accepted[p] /\ existing = <<>> /\ CreateWorkflow(p, v)
        \/ /\ v \in Accepted[p] /\ existing # <<>> /\ existing[1].hash # v
           /\ UpdateWorkflow(p, Row(p, v, TRUE))
  /\ Set(h, [procs[h] EXCEPT !.todo = @ \ {p}])
  /\ UNCHANGED <<head, runs, ticks, pushes, requests>>

\* Then every row that was read and not among the files is written back,
\* inactive.
SyncWorkflowsRemove(h) ==
  /\ procs[h].pc = "post"
  /\ procs[h].todo = {}
  /\ LET gone == {p \in Paths : procs[h].seen[p] # <<>> /\ procs[h].files[p] = 0}
     IN \/ /\ gone = {}
           /\ Set(h, Idle)
           /\ Leaves(h)
           /\ UNCHANGED rows
        \/ \E p \in gone :
             /\ UpdateWorkflow(p, [procs[h].seen[p][1] EXCEPT !.active = FALSE])
             /\ Set(h, [procs[h] EXCEPT !.seen[p] = <<>>])
  /\ UNCHANGED <<head, runs, ticks, pushes, requests>>

(***************************************************************************)
(* TriggerCI and DiscoverWorkflows start with syncWorkflowsFromDataPlane:  *)
(* the file list of snap.latest, then file by file.                        *)
(***************************************************************************)

TriggerCI(h, event) ==
  /\ procs[h] = Idle
  /\ requests < MaxRequests
  /\ requests' = requests + 1
  /\ Set(h, [Idle EXCEPT !.pc = "fetch", !.op = "trigger", !.event = event])
  /\ UNCHANGED <<head, rows, runs, ticks, group, pushes>>

DiscoverWorkflows(h) ==
  /\ procs[h] = Idle
  /\ requests < MaxRequests
  /\ requests' = requests + 1
  /\ Set(h, [Idle EXCEPT !.pc = "fetch", !.op = "discover"])
  /\ UNCHANGED <<head, rows, runs, ticks, group, pushes>>

\* The listing of snap.latest, or of the fallbacks; any failure skips the
\* sync.
FetchFiles(h) ==
  /\ procs[h].pc = "fetch"
  /\ \/ /\ Set(h, [procs[h] EXCEPT !.pc = "read", !.files = head, !.todo = {p \in Paths : head[p] # 0}])
        /\ Joins(procs[h].op, head)
     \/ /\ Set(h, [procs[h] EXCEPT !.pc = "read"])
        /\ UNCHANGED group
  /\ UNCHANGED <<head, rows, runs, ticks, pushes, requests>>

\* Mutant: a file that has a row is not looked at again.
SkipsKnown(h, p) == rows[p] # <<>> \/ procs[h].files[p] \notin Accepted[p]

\* Comparing the content's hash with the row's, parsing it: an unchanged file
\* needs no write, active or not.
Skips(h, p) ==
  LET v == procs[h].files[p]
  IN (rows[p] # <<>> /\ rows[p][1].hash = v) \/ v \notin Accepted[p]

\* One file, whose content may be impossible to fetch.
SyncRead(h, p) ==
  /\ procs[h].pc = "read"
  /\ p \in procs[h].todo
  /\ \/ /\ \E done \in BOOLEAN : (done => Skips(h, p)) /\ Outcome(done)
        /\ Set(h, [procs[h] EXCEPT !.todo = @ \ {p}])
     \/ /\ ~ Skips(h, p)
        /\ Set(h, [procs[h] EXCEPT !.pc = "write", !.path = p, !.seen = rows])
        /\ UNCHANGED group
  /\ UNCHANGED <<head, rows, runs, ticks, pushes, requests>>

SyncWrite(h) ==
  /\ procs[h].pc = "write"
  /\ LET p == procs[h].path
         v == procs[h].files[p]
     IN \/ procs[h].seen[p] = <<>> /\ CreateWorkflow(p, v)
        \/ procs[h].seen[p] # <<>> /\ UpdateWorkflow(p, Row(p, v, TRUE))
  /\ Set(h, [procs[h] EXCEPT !.pc = "read", !.todo = @ \ {procs[h].path}, !.seen = <<>>, !.path = ""])
  /\ UNCHANGED <<head, runs, ticks, pushes, requests>>

\* The trigger type TriggerCI asks the table for.
TriggerType(event) == IF event.type \in {"review_created", "review_updated"} THEN "review" ELSE event.type

ListMatching(h) ==
  /\ procs[h].pc = "read"
  /\ procs[h].todo = {}
  /\ \/ procs[h].op = "discover" /\ Set(h, Idle)
     \/ /\ procs[h].op = "trigger"
        /\ Set(h, [procs[h] EXCEPT !.pc = "start", !.files = <<>>,
                                   !.list = ListActiveWorkflowsByTrigger(TriggerType(procs[h].event))])
  /\ Leaves(h)
  /\ UNCHANGED <<head, rows, runs, ticks, pushes, requests>>

(***************************************************************************)
(* Starting the workflows of a list, one after the other.                  *)
(***************************************************************************)

\* Mutant: the scheduler goes on with the next line after a run.
AfterLine(x) == [x EXCEPT !.pc = "start", !.run = 0, !.jobs = <<>>]

\* The run is there, with or without its jobs: the next workflow.  (In the
\* scheduler: "Only trigger once per workflow per tick".)
AfterRun(x) == [x EXCEPT !.pc = "start", !.run = 0, !.jobs = <<>>, !.line = 0, !.list = Tail(@)]

NewRun(h, tick) ==
  /\ Len(runs) < MaxRuns
  /\ runs' = Append(runs, [path |-> Head(procs[h].list).path, event |-> procs[h].event.type, tick |-> tick,
                           jobs |-> <<>>, state |-> "creating"])

\* TriggerCI: a workflow whose rules do not match, or whose run cannot be
\* inserted, is passed over.
PassOver(h) ==
  /\ procs[h].pc = "start"
  /\ procs[h].op = "trigger"
  /\ procs[h].list # <<>>
  /\ Set(h, [procs[h] EXCEPT !.list = Tail(@)])
  /\ UNCHANGED <<head, rows, runs, ticks, pushes, requests>>

CreateWorkflowRun(h) ==
  /\ procs[h].pc = "start"
  /\ procs[h].op = "trigger"
  /\ procs[h].list # <<>>
  /\ MatchTrigger(Parsed(Head(procs[h].list)), procs[h].event)
  /\ NewRun(h, 0)
  /\ Set(h, [procs[h] EXCEPT !.pc = "expand", !.run = Len(runs) + 1])
  /\ UNCHANGED <<head, rows, ticks, pushes, requests>>

\* The scheduler: every tick it reads the clock, lists the workflows with a
\* schedule, and looks at their cron lines in turn.  A tick comes when the one
\* before it is over and the ticker has fired, in a later minute or not.
runScheduledWorkflows ==
  /\ procs[Scheduler] = Idle
  /\ Len(ticks) < MaxTicks
  /\ \E now \in (IF ticks = <<>> THEN 1 ELSE Last(ticks).now) .. Len(Minutes) :
       \/ /\ ticks' = Append(ticks, [now |-> now, table |-> rows, failed |-> {}, over |-> FALSE])
          /\ procs' = [procs EXCEPT ![Scheduler] =
               [Idle EXCEPT !.pc = "start", !.op = "schedule", !.event = [NoEvent EXCEPT !.type = "schedule"],
                            !.list = ListActiveWorkflowsByTrigger("schedule")]]
       \/ \* the listing fails, and with it the tick
          /\ ticks' = Append(ticks, [now |-> now, table |-> rows, failed |-> Paths, over |-> TRUE])
          /\ UNCHANGED procs
  /\ UNCHANGED <<head, rows, runs, group, pushes, requests>>

\* The lines of a workflow that are still to be looked at, are valid and match.
DueLines(x) ==
  LET lines == Parsed(Head(x.list)).on["schedule"]
  IN {i \in DOMAIN lines : LET bits == CronParse(lines[i], Bounds)
                           IN i > x.line /\ bits # <<>> /\ CronMatch(bits, Minutes[Last(ticks).now])}

\* A line that does not parse is passed over; the first that matches starts a
\* run, or ends the loop when the repository or the organisation cannot be read
\* or the run not inserted.
checkAndTriggerSchedule(h) ==
  /\ procs[h].pc = "start"
  /\ procs[h].op = "schedule"
  /\ procs[h].list # <<>>
  /\ LET x == procs[h]
         next == [x EXCEPT !.list = Tail(@), !.line = 0]
     IN \/ /\ DueLines(x) = {}
           /\ Set(h, next)
           /\ UNCHANGED <<runs, ticks>>
        \/ /\ DueLines(x) # {}
           /\ ticks' = [ticks EXCEPT ![Len(ticks)].failed = @ \cup {Head(x.list).path}]
           /\ Set(h, next)
           /\ UNCHANGED runs
        \/ /\ DueLines(x) # {}
           /\ NewRun(h, Len(ticks))
           /\ Set(h, [x EXCEPT !.pc = "expand", !.run = Len(runs) + 1, !.line = Min(DueLines(x))])
           /\ UNCHANGED ticks
  /\ UNCHANGED <<head, rows, pushes, requests>>

\* The names of a job's instances, as ExpandJobsWithMatrix gives them: a name
\* with matrix expressions differs from instance to instance; one without, the
\* key by default, counts as resolved and gets no suffix.
Instances(jobs, k) ==
  [i \in DOMAIN ExpandMatrix(jobs[k].matrix) |-> <<k, IF jobs[k].named THEN i ELSE 0>>]

\* The needs of a job's row: the names of all instances of the jobs it needs,
\* as far as these jobs are there.
ExpandedNeeds(jobs, k) ==
  UNION {Range(Instances(jobs, n)) : n \in Range(jobs[k].needs) \cap DOMAIN jobs}

\* The job rows createJobsFromWorkflow inserts for a workflow, in order, when
\* the table holds the versions `table` of the files (0: no row); <<>> when
\* GetJobOrder fails.
JobRows(p, v, table) ==
  LET parsed == [q \in {q \in Paths : table[q] # 0} |-> Stored(Content(q, table[q]))]
      jobs   == resolveReusableWorkflows(Stored(Content(p, v)).jobs, parsed)
      order  == GetJobOrder(jobs)
  IN FlattenSeq([i \in DOMAIN order |->
       [n \in DOMAIN Instances(jobs, order[i]) |->
          [name |-> Instances(jobs, order[i])[n], needs |-> ExpandedNeeds(jobs, order[i]), runsOn |-> jobs[order[i]].runsOn,
           steps |-> Len(jobs[order[i]].steps)]]])

\* createJobsFromWorkflow up to its loop: the called workflows are read from
\* the table now, as far as they can be read; without a job order the run stays
\* without jobs.
ExpandJobs(h) ==
  /\ procs[h].pc = "expand"
  /\ \E read \in SUBSET {p \in Paths : rows[p] # <<>>} :
     LET row   == Head(procs[h].list)
         queue == JobRows(row.path, row.hash, [p \in Paths |-> IF p \in read THEN rows[p][1].hash ELSE 0])
     IN \/ /\ queue = <<>>
           /\ runs' = [runs EXCEPT ![procs[h].run].state = "failed"]
           /\ Set(h, AfterRun(procs[h]))
        \/ /\ queue # <<>>
           /\ Set(h, [procs[h] EXCEPT !.pc = "jobs", !.jobs = queue])
           /\ UNCHANGED runs
  /\ UNCHANGED <<head, rows, ticks, pushes, requests>>

\* A job's row is inserted before its steps.
Inserted(job) == [job EXCEPT !.steps = 0]
StepsLeft(h) == Head(procs[h].jobs).steps > 0

\* Mutant: the jobs are inserted from the end of the order.
CreateLastJob(h) ==
  /\ procs[h].pc = "jobs"
  /\ procs[h].jobs # <<>>
  /\ runs' = [runs EXCEPT ![procs[h].run].jobs = Append(@, Inserted(Last(procs[h].jobs)))]
  /\ Set(h, [procs[h] EXCEPT !.jobs = Front(@)])
  /\ UNCHANGED <<head, rows, ticks, pushes, requests>>

CreateJob(h) ==
  /\ procs[h].pc = "jobs"
  /\ procs[h].jobs # <<>>
  /\ runs' = [runs EXCEPT ![procs[h].run].jobs = Append(@, Inserted(Head(procs[h].jobs)))]
  /\ Set(h, IF StepsLeft(h) THEN [procs[h] EXCEPT !.pc = "steps"] ELSE [procs[h] EXCEPT !.jobs = Tail(@)])
  /\ UNCHANGED <<head, rows, ticks, pushes, requests>>

\* One more step of the last job, which may have been claimed by now.
CreateStep(h) ==
  /\ procs[h].pc = "steps"
  /\ LET run  == procs[h].run
         last == Len(runs[run].jobs)
         more == runs[run].jobs[last].steps + 1
     IN /\ runs' = [runs EXCEPT ![run].jobs[last].steps = more]
        /\ Set(h, IF more < Head(procs[h].jobs).steps THEN procs[h]
                  ELSE [procs[h] EXCEPT !.pc = "jobs", !.jobs = Tail(@)])
  /\ UNCHANGED <<head, rows, ticks, pushes, requests>>

\* The jobs are all there, or inserting a job or a step failed.
JobsCreated(h) ==
  /\ procs[h].pc \in {"jobs", "steps"}
  /\ runs' = [runs EXCEPT ![procs[h].run].state = IF procs[h].jobs = <<>> THEN "created" ELSE "failed"]
  /\ Set(h, AfterRun(procs[h]))
  /\ UNCHANGED <<head, rows, ticks, pushes, requests>>

Answer(h) ==
  /\ procs[h].pc = "start"
  /\ procs[h].list = <<>>
  /\ Set(h, Idle)
  /\ ticks' = IF h = Scheduler THEN [ticks EXCEPT ![Len(ticks)].over = TRUE] ELSE ticks
  /\ UNCHANGED <<head, rows, runs, pushes, requests>>

SyncStep(h) ==
  \/ SyncWorkflowsRemove(h) \/ FetchFiles(h) \/ SyncWrite(h) \/ ListMatching(h)
  \/ \E p \in Paths : SyncWorkflowsFile(h, p) \/ SyncRead(h, p)

StartStep(h) ==
  /\ \/ PassOver(h) \/ CreateWorkflowRun(h) \/ checkAndTriggerSchedule(h)
     \/ ExpandJobs(h) \/ CreateJob(h) \/ CreateStep(h) \/ JobsCreated(h) \/ Answer(h)
  /\ UNCHANGED group

Next ==
  \/ \E p \in Paths : \E v \in 0 .. Len(Versions[p]) : Push(p, v)
  \/ \E h \in Handlers : SyncWorkflows(h) \/ DiscoverWorkflows(h) \/ \E e \in Events : TriggerCI(h, e)
  \/ runScheduledWorkflows
  \/ \E h \in Handlers : SyncStep(h)
  \/ \E h \in Procs : StartStep(h)

Spec == Init /\ [][Next]_vars

(***************************************************************************)
(* Properties.                                                             *)
(***************************************************************************)

TypeOK ==
  /\ \A p \in Paths : head[p] \in 0 .. Len(Versions[p]) /\ Len(rows[p]) <= 1
  /\ \A p \in Paths : rows[p] # <<>> => rows[p][1].path = p /\ rows[p][1].hash \in 1 .. Len(Versions[p])
  /\ \A h \in Procs : procs[h].pc \in {"idle", "post", "fetch", "read", "write", "start", "expand", "jobs", "steps"}
  /\ \A i \in DOMAIN runs : runs[i].state \in {"creating", "created", "failed"}

\* A run is never left with a job that waits for one that is not there: at
\* every moment, and also when inserting the jobs fails half-way, every need
\* of a job row is the name of a job row inserted before it.  (ClaimJob waits
\* for the needs by name.)
NeedsAreInserted ==
  \A i \in DOMAIN runs : LET jobs == runs[i].jobs IN
    \A j \in DOMAIN jobs : jobs[j].needs \subseteq {jobs[k].name : k \in 1 .. j - 1}

\* What the table holds of a file can be run: the content passed validation,
\* and its needs have an order.  No interleaving of syncs, of removals that
\* write rows back and of pushes of broken files stores anything else.
StoredWorkflowsAreSound ==
  \A p \in Paths : rows[p] # <<>> =>
    Accepts(Content(p, rows[p][1].hash)) /\ GetJobOrder(Parsed(rows[p][1]).jobs) # <<>>

\* The scheduler starts a run of a workflow only when a line of it that is
\* valid matches the minute of the tick and the workflow was active when the
\* tick listed the table; once per tick, also when two lines match or another
\* line is not valid, and whatever becomes of the table meanwhile.  A tick that
\* is over has started all of these, but for those whose listing, reading or
\* insertion failed: no later tick makes up for them.  (scheduler.go:61-145.
\* Two ticks in one minute start a workflow twice: nothing remembers the last.)
DueWorkflowsStartOnce ==
  \A t \in DOMAIN ticks : \A p \in Paths :
    LET now == Minutes[ticks[t].now]
        row == ticks[t].table[p]
        within(part, b, n) == IF part.star THEN (n - b[1]) % part.step = 0
                              ELSE n \in part.lo .. part.hi /\ (n - part.lo) % part.step = 0
        valid(part, b) == part.step > 0 /\ (part.star \/ (b[1] <= part.lo /\ part.lo <= part.hi /\ part.hi <= b[2]))
        fires(line) == \A f \in DOMAIN Bounds : /\ \A n \in DOMAIN line[f] : valid(line[f][n], Bounds[f])
                                                 /\ \E k \in DOMAIN line[f] : within(line[f][k], Bounds[f], now[f])
        due == row # <<>> /\ row[1].active /\ \E i \in DOMAIN Parsed(row[1]).on["schedule"] : fires(Parsed(row[1]).on["schedule"][i])
        started == {i \in DOMAIN runs : runs[i].path = p /\ runs[i].event = "schedule" /\ runs[i].tick = t}
    IN /\ Cardinality(started) <= 1
       /\ started # {} => due
       /\ ticks[t].over /\ due => started # {} \/ p \in ticks[t].failed

\* What overlapping syncs leave behind.  When the last of the syncs that
\* overlapped is over, and no call of theirs failed, the row of every file is as
\* one of them had it: its content, if it can be parsed, or inactive, if it was
\* not among the files sent to SyncWorkflows.  None leaves a row from before, and
\* none a row of a content nobody had, though each decides on what it read
\* earlier.  (An unchanged file is not written, so its row stays inactive if it
\* was, ci.go:148; the sync from the data plane deactivates nothing.)
TableFollowsSyncs ==
  [][ LET says(m, p) == m.files[p] \in Accepted[p] \/ (m.op = "sync" /\ m.files[p] = 0)
          left(m, p) == IF m.files[p] = 0 THEN rows'[p] = <<>> \/ ~ rows'[p][1].active
                        ELSE rows'[p] # <<>> /\ rows'[p][1].hash = m.files[p]
          over == (\E h \in Handlers : Syncing(h)) /\ ~ (\E h \in Handlers : Syncing(h))'
      IN over /\ ~ group.failed =>
           \A p \in Paths : LET deciding == {m \in group.had : says(m, p)}
                            IN deciding # {} => \E m \in deciding : left(m, p) ]_vars

\* What the table holds can be run, and what a run consists of can end.
RunsAreRunnable == TypeOK /\ NeedsAreInserted /\ StoredWorkflowsAreSound
=============================================================================
