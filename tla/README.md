# TLA+ models of the kailab server

This directory holds TLA+ models of the kailab server: the data plane `kailab`
(repositories, refs, objects, reviews, git over SSH), the control plane
`kailab-control` (accounts, organisations, CI), the CI runner and the library
`kai-core`. The models are translated from the Go code; paths below are relative
to the repository.

Contents: 1 the system, 2 the modules, 3 the runs, 4 fairness, 5 the proofs,
6 what is not modelled, 7 the plan.

## 1. The system

| Component | State | Operations | Interacts with | Module |
|---|---|---|---|---|
| Ref store (`kailab/store/postgres.go`, `kailab/api/routes.go`) | `refs`, `ref_history` | `UpdateRef`, `BatchUpdateRefs` | clients; control plane through `notifyPushCI`; the connection pool | `RefStore` |
| Repository registry (`kailab/repo/registry.go`, `kailab/api/middleware.go`) | open handles, LRU list, locks, files | `Get`, `Create`, `Delete`, `Acquire`, `Release`, eviction, `reapIdle`, `Close` | `WithRepo`, which wraps every repository request | `RepoRegistry` |
| Object and segment store (`kailab/pack`, `kailab/store`, `kailab/blobstore`), enrichment queue (`kailab/background`) | `segments`, `objects`, blobs, `enrich_queue` | negotiate, ingest, read, list, archive; claim, complete, fail | ref store; workers | `Objects`, `ContentStore` |
| Reviews and changesets (`kailab/api/routes.go`), their notices (`api/notifications.go`) | objects behind `review.*` refs, comments, mails | create, update, change state, merge, comment, notify | ref store; control plane | `Reviews` |
| Git over SSH and the mirror (`kailab/sshserver`) | SQLite refs, ChangeSet objects, a bare git repository | receive-pack, upload-pack, `SyncRefs` | ref store (SQLite variant) | `GitPush` |
| CI engine (`kailab-control/internal/api/ci.go`, `db/ci.go`) | `workflow_runs`, `jobs`, `concurrency_locks`, `job_logs` | trigger, dispatch, re-run, cancel, claim, start, heartbeat, complete, reap, log | runners over HTTP; data plane | `CIRuns`, `JobLogs` |
| Workflow table and scheduler (`api/ci.go`, `api/scheduler.go`) | `workflows` | sync, discover, trigger, tick, creation of a run's jobs | data plane, CI engine | `Workflows` |
| Workflow language (`workflow`, `cron`) | none | validate, order, inline, expand, match, evaluate | workflow table, runner | `WorkflowLang`, `Expressions` |
| Runner (`kailab-control/internal/runner`) | the job it executes, pods, directories, cache, artifacts | poll, execute steps, deploy, collect stale pods | CI engine, Kubernetes | `CIRuns`, `JobExecution` |
| Accounts (`api/auth.go`, `auth`, `db`) | users, signups, magic links, sessions, tokens | sign up, approve, log in, exchange, refresh, log out, grant CI access | every control-plane request | `Accounts` |
| Administration, keys, webhooks, proxy (`api`, `db`, `kailab/repo/pg_registry.go`) | orgs, members, repository rows, keys, hooks, deliveries, a shard's handles | CRUD, permission checks, deliveries | data plane | `Orgs` |
| `kai-core` (`merge`, `diff`, `detect`) | none | three-way merge, diffs, rename detection | CLI, data plane | `SemanticMerge`, `SourceDiff` |

The hard parts are where several requests, goroutines or processes meet:

* **Statements interleave.** Control-plane handlers use no transaction, and
  data-plane transactions run at READ COMMITTED. Whatever a handler has read
  may be out of date when it writes.
* **Parties fail separately.** A runner, its HTTP answer, one SQL statement of
  a handler, an upload, or the whole server can be lost between any two steps.
* **Locks are taken in the order of the request.** Row locks of a batch or a pack
  are taken in the order of its items; handle locks are taken without `r.mu`.
* **Resources are bounded.** The pool of connections and the list of open
  repositories are full in ordinary operation.
* **Algorithms walk Go maps.** Validation, matrices, diffs and rename detection
  must not depend on the order of a map.

What makes the components correct:

* *Refs*: a ref is what its history says; what a client is told is durable; a
  fast-forward replaces what it was checked against; CI is told of nothing stale;
  every push is answered.
* *Objects*: a digest reads as its bytes for ever after; a push that ended well has
  all it negotiated; every stored snapshot is queued for enrichment once.
* *Reviews, git*: an ended review stays ended unless a request replaces a head it has not
  read, a merge and its move of `snap.main` are one when the changeset can be read; a clone
  gets the whole history; the mirror shows what the refs are, or have been.
* *CI*: one runner per job; no job before its needs; a run whose jobs ended ends; a
  concurrency group is given back; no claimed job stays claimed for ever; a success is
  earned; environments are released; a log is followed without gaps.
* *Workflows*: only runnable workflows are stored; overlapping syncs leave what one of them
  had; what is due when a tick lists the table starts once in that tick; the language means
  what it says.
* *Accounts, orgs*: accounts are approved or invited and do not multiply; links are
  spent; an owner stays a member; a key does no more than a token; a pending delivery is
  being sent, or its outcome could not be stored.
* *Registry*: map, list and open databases agree; open databases are bounded; nothing
  deleted stays open; nothing in use is closed.
* *kai-core*: a clean merge keeps what only one side did to a unit; a diff leads from one
  version to the other, as far as the readers of documents and schemas look.

`PROJECT.json` maps every definition to its lines and lists the main hazards of the
code, each with the properties that would catch it.

## 2. The modules

Operators that say "A bug to catch" or "Mutant", or carry a suffix such as `ClaimJob_unguarded`
are deliberately wrong variants; each makes the property it is aimed at fail.

### `RefStore` - refs and their history in Postgres

Each push is a handler with a program counter `pc`, its request `req`, the item
it is at and the results of its last SELECTs (`cur`, `par`). `refs` is the
committed table; `log` is `ref_history` with every row ever inserted in the order
of its sequence number, visible once its push is in `committed`; `holder` is the
row locks and `writes` the uncommitted upserts.

| Code | Action |
|---|---|
| request decoding, `ensureSignedChangeSet`, 400 answers | `RefuseRequest`, `CheckItem` (with `Rejected`) |
| `BeginTx` | `BeginTx` (takes a connection of the pool) |
| `PgSetRefFF`, `PgForceSetRef`: SELECT target; SELECT parent; upsert; INSERT history | `ReadTarget`, `ReadParent`, `Upsert`, `AppendHistory` |
| second write of `snap.main` after `snap.latest` | `mainToo`, through the same four actions |
| the read-back of each item of a batch (through the pool) | `Reread` |
| commit, error paths, the answer | `Commit`, `StatementFails`, `CommitUnacknowledged`, `AnswerOK` |
| `notifyPushCI` | `NotifyPushCI` (re-reads the ref, once per git ref) |
| Postgres aborting one of two deadlocked transactions; server crash | `DeadlockVictim`, `Crash` |

Digests, ref names and payloads are model values. `PgDeleteRef` has no caller in
the HTTP API. `kailabd` uses this code when `KAILAB_DB_URL` is set; otherwise it
uses the SQLite registry below.

### `CIRuns` - runs, jobs, runners and the reaper

One workflow with jobs (`JobOrder`), their `needs` and a concurrency group. Every
SQL statement is an action; `thread[t]` is the goroutine of a request with its
local variables and the statement it is at, `runner[w]` is a runner process and
the goroutine whose answer it waits for. Failed statements, lost answers and
restarts are counted by `losses`, so that each run says how many it allows.

| Code | Actions |
|---|---|
| runner: poll, `executeJob`, `completeJob`, HTTP time-out, restart | `Poll`, `Start`, `Finish`, `Report`, `ExecuteError`, `TimeOut`, `RestartRunner`, `Heartbeat` |
| `ClaimJob` (SELECT, then guarded UPDATE) | `SelectJob`, `ClaimJob` |
| `StartJob` handler | `StartJob`, `FirstHeartbeat`, `ReadRun`, `MarkRun` |
| `CompleteJob` handler and `checkAndCompleteWorkflowRun` | `FinishJob`, `ListJobs`, `CancelBlocked`, `ReadVerdict`, `Conclude`, `Release` |
| `FailStaleJobs`, `reapStaleJobs` | `SelectStale`, `FailStale`, then the check above for each affected run |
| `CancelWorkflowRun` | `BeginCancel`, `CancelRun`, `ListLive`, `CancelJob` |
| `TriggerCI` | `BeginTrigger`, `CancelOld`, `ReleaseOld`, `PickNumber`, `InsertRun`, `AcquireLock`, `CreateJob` |
| `DispatchWorkflow`, `RerunWorkflowRun`, `checkAndTriggerSchedule` | `BeginUngrouped`, then as above without the lock |
| crash of the control plane; time passing | `CrashServer`; `Age` |

Times are reduced to what the stale query compares: a heartbeat is absent, fresh
or older than its cutoff, and so is `started_at` (`created_at` before the start).
The model follows the Postgres query of `ClaimJob`. `won` is a history variable: the
jobs that have ever concluded with success.

### `RepoRegistry` - open repositories

`repos` is the map, `lru` the list, `handle` the handles with their counters, `mu`
the holder of `r.mu` where a critical section takes several steps, `disk` and
`dirs` what is in the file system. A critical section is one action, except the two
that walk the list (`evictOneLocked`: `EvictLoop`, `ScanOne`, `CloseVictim`; and
`reapIdle`: `ReapBegin`, `ReapOne`, `ReapClose`, `ReapEnd`): they hold `r.mu` and
release a handle's lock between looking at it and closing it, and `Acquire` needs
the handle's lock only. A request is `Get` (fast path under the read lock, slow
path under the write lock), `Acquire`, the handler, `Release`; or `Create`; or
`Delete`. A handle that nobody refers to is garbage, and its identity is reused,
so the model has finitely many states without a bound on the number of requests.

### `Objects` and `ContentStore` - packs, segments and the enrichment queue

An object is its digest; a pack is a sequence of entries with a digest and a body,
and an entry is honest when the body hashes to the digest. `push[p]` is a client's
push: `Negotiate`, then the transaction of the ingest, which writes the segment and
uploads it when the blob store is external (`PgInsertSegmentTx`), inserts the rows
one by one, waiting for rows another transaction holds (`IndexObject`), and commits
with its queue items (`IngestCommit`). Failed uploads and statements, deadlocks and
crashes roll back (`IngestFails`, `DeadlockVictim`), and the uploaded blob stays.
Reads (`PgExtractObjectFromDB`, `PgBatchGetObjects`, `ListSnapshotFiles`,
`GetSnapshotArchive`) are operators on the tables. Workers claim an item, process it
and may die holding it.

`ContentStore` is the abstract specification: a set of digests that only grows, and
requests answered "stored", "refused" or with an error, which says nothing about what is
stored. `Objects` implements it with `stored` as the digests that have a row and each
client's state as `Answer(p)`: `ImplementsContentStore` is checked as a property. Its
liveness half says that every request is answered. The commit and the answer are two
steps (`IngestCommit`, `AnswerIngested`), between which the acknowledgement can be lost
(`CommitUnacknowledged`): the client then sees an error for a pack that is stored.

### `Reviews`

`versions` are the immutable Review objects, each with the version it was made from,
`ref` the `review.<id>` refs; clients also push review refs in the states `Pushed`
(`PushReview`). A handler reads the review, and its transaction
(ForceSet and, for a merge, the move of `snap.main`) comes later as one action
(`UpdateReviewState`/`UpdateReviewStateCommit`, and so on). A merge that cannot read its
changeset commits without moving `snap.main` and is noted in `unread`. Goroutines carry notices
to the control plane (`notices`), where `NotifyReview` and its siblings resolve names
to accounts and send mails.

### `GitPush` - git over SSH, clones and the mirror

A push becomes a ChangeSet naming its pack and its ref updates, with the head that
`snap.main` had when the push began (`ReceivePack`, `resolveBaseSnapshot`,
`storeNodeObject`, `createChangeSetFromPack`). `buildRef` follows the heads, at most
`MaxChain` of them, gathers the packs' objects from the oldest on and resolves deltas in
one pass, as the code does; `Walk` is a walk along the parents that stops where one is
missing, and `Ancestors` the walk for which none is.
`SyncRefs`/`updateRef` is the mirror after a push; a ref whose read or deletion fails is
passed over (`RefSkipped`), and the rest of the refs is left out when the status of the push
cannot be written, a git command fails or the server ends (`SyncAbandoned`). `missed` has the
refs this happened to since they were last written, `overlapped` records whether two
sessions ran at once. Updates by the HTTP API and `kailab-mirror`, which write the same
mirror from the Postgres refs, are not in this model.

### `JobExecution` and `JobLogs` - what a runner does with a job

`exec[r]` is a runner's job: its step, conditions, results and the time left;
`envs[j]` is the pod or directory of a job. A step is `BeginStep`, the effect of its
command or built-in action (checkout, cache, upload, download, deploy, plan), and
`EndStep`; a deadline ends a pod's command. `given` are the steps that came with the claim
(`ListJobSteps`), which need not be all the workflow has. `Controller` is Kubernetes rolling
out a patch pod by pod, where pods of the old and the new template are ready side by side
(`ObserveTemplate`, `SurgePod`, `PodReady`, `RemoveOldPod`), `GCStalePods` the collector of old pods, `faults` the failures of
calls and of runners. `real` is a history variable: how each step really ended.
`JobLogs` has the runner's log calls, their SELECT and INSERT, and a page that follows
the log.

### `Workflows`, `WorkflowLang`, `WorkflowCases`, `Expressions`

`Workflows` is the table of parsed files with the two syncs, the triggers, the
scheduler and the creation of a run's jobs and of their steps; every call of the database or
the data plane is a step and may fail. `ticks` and `group` are history: what each tick of the
scheduler found and could not do, and the files the overlapping syncs had. It uses the operators of `WorkflowLang`, which are the code's
algorithms: `hasCycle`, `GetJobOrder`, `resolveReusableWorkflows`, `ExpandMatrix`,
glob and trigger matching, cron. `WorkflowCases` draws questions for them and
compares the answers with definitions of what is meant. `Expressions` is the recursive
descent evaluator over tokens; a behaviour draws a tree, writes it down and compares
the evaluator's answer with the tree's meaning.

### `Accounts` and `Orgs`

One action per SQL statement; a handler keeps in `call[p]` or `asked[p]` what it has
read, and any statement may fail and leave what was done (`CallAborts`, `OrgAbort`). `Accounts` has signups, magic
links, accounts, sessions, access tokens, personal tokens and the CI-access flag;
addresses have spellings, `Fold` is their case-folded form. `AddMember` (`orgs.go`) makes
accounts too: that half of it is in `Accounts`, the membership in `Orgs`. `Orgs` has orgs and
roles, repositories, keys, hooks and deliveries, `VerifySSHKey` and `ProxyHandler`
as the two ways in, and the handle map a shard keeps for Postgres repositories.

### `SemanticMerge` and `SourceDiff`

Pure algorithms. `SemanticMerge` cuts each version of a file into units as the
extractor of its language does (out of a syntax tree, which is an input), decides per
unit and reconstructs the file. `SourceDiff` compares documents by the dotted
paths of their keys, code by symbols, schemas by columns, snapshots by files, texts by hunks, and functions by
the edit distance of their bodies. Each behaviour draws one question.

`MCRefStore`, `MCCIRuns`, `MCCIEndings`, `MCProgress`, `MCControl`, `MCData`, `MCJobs`,
`MCWorkflows` and `MCAlgorithms` are the instances. Where one of them holds several
models that share no state, a behaviour moves one of them, so the states explored are
their sum and not their product. The modules named `...Proofs` hold the proofs.

## 3. The runs

Passing runs:

| Run | Instance | Shows |
|---|---|---|
| `refs_safety` | 3 pushes, 2 rows locked in both orders, crash, rollback, deadlock, an empty request; 1.6M states | `HistoryMatchesRefs`, `ParentsResolve`, `AnswersAreDurable`, `NotifiedShaIsFresh` |
| `ci_claims` | 2 runners, 2 goroutines, job `b` needs `a`, one fault, one crash of the server; 1.4M states | `TypeOK`, `ClaimedOnce`, `NeedsBeforeRun` |
| `ci_endings` | one run of 2 independent jobs, 2 runners, 2 goroutines and the reaper, one missed heartbeat; or 2 runs of one job in a group with cancel-in-progress, 2 runners, 2 goroutines and the reaper, which meets one busy runner at most; 1.1M states | `SettledRunsComplete`, `LockReturned` |
| `progress` | 2 pushes out of 9 kinds of request, signature rule on; or 1 runner and 1 job with one fault, one crash, one cancellation | `EveryPushEnds`, `ClaimedJobsEnd` |
| `control` | 2 requests at once, 2 orgs, 2 users, 4 administrative or 4 login requests, one crash; 3 spellings of addresses, in a column that minds the case; 3 repositories, capacity 1; 1.5M states | organisations: `AccessIsConsistent`, `DeliveriesAreAccounted`; accounts: `LoginsAreSound`, `GrantsAreKept`; registry: `MapAgreesWithList`, `CapacityBound`, `OpenReposExist` |
| `data_plane` | 2 pushes and 2 workers with snapshots of all three forms, dishonest packs and one crash; 2 review requests, 3 versions; 2 git sessions, 2 branches, 2 commits; 0.4M states | objects: `ReadsAreTrue`, `EnrichmentAccounted`, `ImplementsContentStore`; reviews: `MergesAreFinal`, `NoticesAreSound`; git: `ClonesAreComplete`, `MirrorFollows` |
| `jobs` | 2 runners (pods, or a pod and a directory), 2 jobs of two runs, artifacts, a deploy of one replica, tolerant steps, claims with none to all of the steps, one fault; a log of 3 chunks; 2.5M states | `SuccessIsEarned`, `EnvironmentsFollowJobs`, `DeploysHaveStarted`, `FollowersMissNothing` |
| `workflows` | 2 files with 5 contents (matrix, chain, call, cron lines, a cycle, a job that waits for a call): 2 requests and 2 pushes from an empty table; or 2 ticks, a request and a push over a filled one; 0.5M states | `RunsAreRunnable`, `DueWorkflowsStartOnce`, `TableFollowsSyncs` |
| `algorithms` | expressions with chains of 3 operands; graphs of 3 jobs; matrices with 2 includes; names and patterns of length 4; merges in 4 languages; documents with dotted and empty keys, schemas with misleading names, scripts, words; 0.8M states | `ExpressionsAreEvaluated`, `JobsAreOrdered`, `MatricesRunWhatTheyAskFor`, `DoubleStarsMissNothing`, `MergesAreThreeWay`, `ChangesAreTold`, `RenamesAreFound` |

In `data_plane` no review request or git session begins that the bounds on versions, comments and
changesets would keep from its commit (`BegunCanCommit`, `SessionsHaveRoom`).

Several of these are conjunctions of named parts, each with its own comment in its
module; where a module has a type invariant, it is a part as well:

| Property | Parts |
|---|---|
| `AccessIsConsistent` | rows refer to existing rows; an org keeps its owner (`OwnerStaysMember`); SSH and HTTP agree on who may write, when the membership can be read (`TransportsAgreeOnWrites`); a shard's handles stay in their org (`HandlesStayInTheirOrg`) |
| `LoginsAreSound` | `FewAccountsPerMailbox`, `AccountsAreAdmitted`, `LinkSessionsBounded` |
| `ReadsAreTrue` | a digest reads as its bytes from either copy (`ReadsReturnTheObject`); an archive is what the listing leads to (`ArchiveMatchesListing`) |
| `MergesAreFinal` | `EndingsLast`, `MergeIsAtomic` |
| `MirrorFollows` | `MirrorShowsThePast`, `MirrorCatchesUp` |
| `NoticesAreSound` | `NoticesAreCommitted`, `OneMailPerAccount` |
| `ClonesAreComplete` | `RefsNameTheirUpdate`, `LinearClonesAreComplete` |
| `EnvironmentsFollowJobs` | `EnvironmentsAreReleased`, `LiveEnvironmentsAreKept` |
| `RunsAreRunnable` | a job's needs are inserted before it (`NeedsAreInserted`); only sound contents are stored (`StoredWorkflowsAreSound`) |
| `ExpressionsAreEvaluated` | `EvaluationReturns`, `ExpressionsMeanWhatTheySay` |
| `JobsAreOrdered` | `JobGraphsAreJudged`, `InlinedJobsComeAfterTheCallersNeeds` |
| `MergesAreThreeWay` | `CleanMergesKeepOneSidedEdits`, `ConflictsNeedTwoEdits`, `SidesAreInterchangeable` |
| `ChangesAreTold` | `DocumentDiffsRebuild`, `DiffsRebuildTheNewVersion`, `SchemasAreRead`, `HunksApply` |
| `RenamesAreFound` | `RenamesAreMatched`, `DistancesCountEdits` |

Why the bounds are enough: every race in these handlers is between a statement
that read and one that writes later, so two contenders show it, and a third is
there where a party in the middle matters (a push that blocks between two others,
a goroutine that inserts jobs while two complete). One fault is allowed per
history because the properties are about recovery from a fault; two commuting
faults add no new order of statements. In the registry a capacity below the
number of requests makes it exceed `MaxOpen`, and the third repository makes an
eviction scan past a handle in use. Two segments, two spellings of a mailbox besides
the administrator's, two jobs of different runs with one artifact name, a chain
limit of two changesets and chains of three operands are the smallest in which the
respective clash occurs. `ci_endings` keeps its second instance small by not letting
the reaper work while both runners are busy (`OneAtATime` in `MCCIEndings`): the first
instance has all three at once, and `LockComesBack` and `LastCompletionCounts` are
proved without any such restriction.

What the properties leave out, because the code does otherwise there:

* `EveryPushEnds` is checked with one connection more than there are pushes. With
  `MaxConns` equal to the number of pushes TLC finds all of them holding their
  transaction's connection and waiting for another one to read an item back.
* `SettledRunsComplete` is checked without user cancellations and crashes: `StartJob`
  can overwrite a cancellation that came after its read (`ci.go:1470`), and
  nothing repeats the check of a run after a restart. `LockReturned` is about runs
  that end by themselves: `CancelWorkflowRun` does not release the lock. Two runs of
  one group can still run at once (`ci.go:1252`).
* `LinearClonesAreComplete` and `MirrorCatchesUp` have a condition (`Linear`,
  `overlapped`): pushes to other branches than `main`, overlapping pushes and more
  pushes than the walk follows break the chain of heads, and overlapping mirrors
  write what they read earlier. `MirrorCatchesUp` leaves out the refs whose last sync failed
  or was left out (`missed`): nothing repeats a sync, and the ref lags until its next push.
* `EndingsLast` holds until a version replaces a head it was not made from: of two requests
  that overlap the later write wins, whatever the earlier one has ended, and a review ref
  that a client pushes replaces any head.
* `MergeIsAtomic` leaves out merges whose changeset cannot be read (`unread`): they commit
  and `snap.main` stays (`routes.go:2614-2621`).
* `ArchiveMatchesListing` is about reads that succeed: a listing or an archive leaves out,
  without a word, a file that cannot be read (`postgres.go:1053`, `routes.go:1353`).
* `LiveEnvironmentsAreKept` is about deadlines up to the collector's age; a job may ask
  for a longer one, and then its pod is collected.
* `SuccessIsEarned` is about the steps that came with the claim. `ClaimJob` drops the error of
  `ListJobSteps` (`ci.go:1326`), a job can be claimed while its steps are still being inserted
  or after inserting one has failed (`ci.go:1662-1674`), and the runner passes over a step
  its workflow file no longer has (`runner.go:546`): a job without steps is a success.
* `DeploysHaveStarted` does not say that the new pods are ready. The counters of a Deployment
  count ready pods of any template, and `rolloutComplete` does not look at how many pods there
  are in all, so with one replica it is satisfied by the old pod while the new one comes up,
  though it is meant to tell "if a deployment rollout has finished successfully"
  (`executor.go:2168`).
* That a runner comes back from every job is not claimed: fetching files one by one uses a
  client without a time-out or the job's context (`executor.go:626`), a pod is deleted under
  `context.Background()` (`executor.go:2047`), and a local shell's children keep the runner waiting.
* `FollowersMissNothing` holds until a runner has given up a call that is still
  being served: then two numberings overlap, and `job_logs` has no unique constraint.
* `TransportsAgreeOnWrites` goes one way only while `GetMembership` fails with anything but
  "not found": `VerifySSHKey` then refuses, while the proxy skips the check of the role
  and forwards the request (`proxy.go:99-110`). What SSH lets through, the proxy always does.
* `DeliveriesAreAccounted` counts a delivery whose outcome could not be stored as lost:
  `deliverWebhook` ignores the error of its UPDATE (`webhooks.go:598`, `615`, `627`), and the row
  stays pending. A restart loses the goroutines too. Nothing sends a pending delivery again.
* `AccountsAreAdmitted` takes an address as admitted when an administrator has approved it
  or when somebody with an account has named it in `AddMember`, which makes an account for it
  without any approval (`orgs.go:207`). `FewAccountsPerMailbox` says one account per mailbox
  where `users.email` ignores case (SQLite); on Postgres, where it does not, requests served
  at the same time can each insert their spelling.
* `DueWorkflowsStartOnce` is about one tick. A tick whose listing fails starts nothing
  (`scheduler.go:66`), a workflow whose repository, organisation or run gives an error is
  passed over, and nothing remembers which minutes have been served: a late tick leaves a
  minute out, and two ticks in one minute, or two servers, start a workflow twice.
* `TableFollowsSyncs` is about syncs none of whose calls failed. Which of two overlapping
  ones has the last word is open, and nothing is said of an inactive row: a file that comes
  back unchanged stays inactive (`ci.go:148`, `1071`), and a file that is gone stays active when
  only the sync from the data plane runs. That a sync ends at all is not claimed, since it
  fetches with a client that has no time-out (`ci.go:1041`).
* `LinkSessionsBounded` allows as many sessions per magic link as requests are served at
  once, since the look at a link and its use are two statements.
* `ExpressionsMeanWhatTheySay` leaves out chains of three operands inside something
  larger (`CutShort`): with `a` false, `a && b && c || d` is `a`.
* `CleanMergesKeepOneSidedEdits` is about units as the extractor sees them. When one side
  changes a function's signature and the other its body, the first side's text is taken and the
  other edit is lost without a conflict (`merge.go:328-335`). A reconstructed file has units
  only: statements, the words `export` and `const`, and decorated Python definitions are
  not in it, and a function that gains a decorator counts as deleted.
* `DocumentDiffsRebuild` says of two different JSON documents that they have a unit; that the
  units say which place has changed holds where no key has a dot or is empty so that two places
  get one path (`json.go:136-140`). YAML keys without a value, timestamps and maps
  with keys that are no strings are not told apart.
* `SchemasAreRead` leaves out the columns that `parseTableColumns` takes for constraints by the
  beginning of their text (`sql.go:88-94`: `unique_id`, `checksum`, `constraint_name`,
  `index_no`) and quoted names that are keywords (`sql.go:158`): their changes are told by nobody.
  The schemas of the run have no comments and no quoted parentheses, which the reader would count.
* `InlinedJobsComeAfterTheCallersNeeds` is about workflows in which nothing needs a
  calling job: those needs are left dangling, and the run gets no jobs.

Runs that end in a counterexample, each against a sentence of the repository:

| Run | Property | Counterexample |
|---|---|---|
| `refs_fastforward` | `FastForwardHolds`: `wire.go` "Old is the expected current target (... must match for update)" | two pushes read the same target before either takes the row lock; both pass the check, the second overwrites the first |
| `ci_failedrun` | `FailedRunsComplete`: `ci-workflows.md` "If a job fails, dependent jobs are cancelled and the run completes as failed" | in a chain of three jobs the cascade cancels the second, nobody cancels the third, the run stays in progress |
| `registry_inuse` | `AcquirePreventsEviction`: `registry.go` "Acquire marks a handle as in-use (prevents eviction)" | `Acquire` gets in between the eviction's look at the handle and its closing |

The models show further effects that have no run of their own: two concurrent pushes
record the same parent, so the hash chain of `ref_history` forks; a batch with one
refused item commits the others; two concurrent triggers get one `run_number`; jobs
inserted or started while a cancellation is under way run on; a comment is no longer
listed once its review has a newer version; on SQLite `ClaimJob` binds its arguments
in another order than its placeholders.

## 4. Fairness

* `RefStore`: weak fairness of each handler's next step, since a goroutine whose
  statement can execute executes it, and of `DeadlockVictim`, since Postgres
  detects deadlocks after `deadlock_timeout`. There is no fairness of crashes or
  failures. A crashed push counts as ended.
* `CIRuns`: weak fairness of each handler and of the reaper (a ticker loop); strong
  fairness of a runner's next request, since it retries every poll interval and a
  server goroutine is free again and again; weak fairness of `Age` for a job
  nobody attends to, since time passes. Heartbeats that a busy runner loses are
  not forced.
* `Objects`: weak fairness of a push's handler, deadlock detection included. Workers and
  clients are free to stop.
* The other modules are checked for safety only.

## 5. The proofs

Proved by TLAPS for all values of the constants, from the named assumptions of the
modules (`RefStoreAssumption`, `CIRunsAssumption`, `RegistryAssumption`,
`ObjectsAssumption`, `JobExecutionAssumption`, `JobLogsAssumption`, `OrgsAssumption`,
`AccountsAssumption`, `ReviewsAssumption`, `GitPushAssumption`),
which TLC evaluates on the instances: the markers are distinct
from what they mark, the constants have their types, a workflow has at least one job
and no job name twice, a server serves finitely many requests and keeps room for a
repository, a push is finite, a job has finitely many steps and a deadline, a list of
names is a sequence, a commit has a parent that is a commit or none, and a limit
is a number. Where a property holds only as long as
nothing has failed, that condition is part of the property, over the counters of
the state (`Undisturbed`, `overlapped`, `gaveUp`), and not a hypothesis of the theorem.

### `RefStoreProofs`

* `TypeCorrect`, `Spec => []TypeOK`.
* `HistoryAgrees`, `Spec => []HistoryMatchesRefs`: the target of a ref
  is what its last visible history row says. The property is not inductive. The
  invariant `HistoryInv` adds `LockInv` (a push holds the lock of exactly the refs it
  has uncommitted writes of, and only while its transaction is open), `RowInv` (the
  push of a history row holds the lock of the row's ref as long as its transaction
  is open) and `PendingInv` (the last row an open transaction sees of a ref it has
  locked is its own, and agrees with its pending write). The point is that the lock is taken by the
  upsert, before the history row draws its number: all rows that other pushes
  insert for the ref have smaller numbers or come after the lock is released.
* `ParentsAlwaysResolve`, `Spec => []ParentsResolve`: the parent a push has read is a row
  it could see, committed or its own, and stays one until the push inserts with it, also
  when another push's row has become the last meanwhile.
* `AnswersStayDurable`, `Spec => []AnswersAreDurable`: the answer is made of the items
  the handler went past without an error; each of them has its row, `snap.main`'s
  after `snap.latest` too, and the rows become visible with the push, all at once.
* `NotificationsAreFresh`, `Spec => []NotifiedShaIsFresh`: rests on `HistoryInv`, since
  the ref re-read after the commit is the target of the ref's last visible row, and the
  push's own row is not after that.

### `CIRunsProofs`

* `TypeCorrect`, `Spec => []TypeOK`, with where a goroutine has a job or
  a run (`ThreadInv`) and where a runner has one (`RunnerInv`).
* `NeedsFirst`, `Spec => []NeedsBeforeRun`. `NeedsInv` adds that a row
  concluded with success is in `won` (`ConcInv`), that a goroutine about to make a
  job pending or in progress has one whose needs are in `won` (`AskInv`), and
  that so has a runner (`HoldInv`), whose later `StartJob` writes without any test.
  Each action is shown to write rows, requests and runners that agree with `won`
  as it was before the step (`RowsKept`, `AskKept`, `HoldKept`); `won` only grows.
* `ClaimsExclusive`, `Spec => []ClaimedOnce`: no two runners hold one
  job. The invariant `ClaimInv` adds that the job of a runner is neither absent nor
  queued (`HeldInv`), so that `ClaimJob`, which takes a queued row, never takes it
  again, and that a goroutine answers one runner at most (`WaitInv`). Both depend on
  no statement putting a row back into the queue. `StartJob` and `CompleteJob`
  write only rows that exist and were taken, and lists of jobs to cancel or fail
  hold existing rows only (`ReqInv`); the INSERTs of `createJobsFromWorkflow` hit
  absent rows, since the rows a goroutine has still to create are absent
  (`ReqInv`), nobody else creates rows of that run (`SoleInv`), and a fresh run id has
  no rows (`RunInv`). `ClaimInv` was checked with TLC before it was proved.
* `LockComesBack`, `Spec => []LockReturned`. The property speaks of the time before the first
  failed statement, lost answer or crash (`Undisturbed`), as the code's does: the DELETE that
  gives the group back is tried once and its error ignored (`checkAndCompleteWorkflowRun`),
  so a failure or a crash there keeps the group. The counters only grow (`CountersGrow`), so
  that the invariant need hold no longer than that. The invariant `LockInv` says that a run whose jobs are being looked at has one
  (`Checking`), that a run whose lock is about to be asked for has not ended by itself (`Beginning`:
  its jobs do not exist yet, and only the last of its jobs ends a run), and that an
  ended run which has the lock has a goroutine about to give it back (`Returning`).
* `LastCompletionCounts`, `Spec => []SettledRunsComplete`, which speaks of the time before the
  first of those faults and before the first user's cancellation: a failed statement loses
  the look at the run's jobs, and a cancellation can be overwritten half-way (section 3). The invariant `SettleInv`
  says that when all jobs of a run that is not completed are (`Done`), somebody still has to
  look at it (`Busy`): a goroutine between its UPDATE of a job and its UPDATE of the
  run, the reaper with the run on its list, or a runner that has still to report a job
  the reaper has failed meanwhile. That goroutine reads the rows of all jobs after the last
  of them was written; a goroutine that reads earlier and sees an unfinished job
  leaves the look to the one that finishes it.

### `RepoRegistryProofs`

* `TypeCorrect`, `Spec => []TypeOK`; `RegistryAgrees`, `Spec => []MapAgreesWithList`: map,
  list and open handles name the same repositories; `OpenOnDisk`,
  `Spec => []OpenReposExist`. The invariant `RegInv` says besides who holds `r.mu` and
  what each request has at hand (`ReqInv`), that where a walk over the list stands the
  list has an element (`PosInv`), that what is about to be opened is not open
  (`NewInv`), and that a handle's counter counts the requests that use it (`UseInv`).
* `CapacityHolds`, `Spec => []CapacityBound`. The bound is not inductive: what makes it
  hold is why an eviction gave up. `CapInv` says that every element the walk has passed
  was in use by a request of its own (`Pinned`, an injection from the elements into the
  requests other than the evicting one), none of which can get another handle
  while the walk holds `r.mu`. When the walk comes to its end, there are fewer open
  repositories than requests, and one may be added.

### `ObjectsProofs`

One inductive invariant `ObjInv` carries all of the following. `PushInv` says what a
push in its transaction knows: its pack is honest or it will be refused (`PackInv`),
the rows indexed so far are in its segment at their places (`IndexInv`), and its segment
is the one it wrote (`SegInv`). `OwnSegments` says that no two pushes share a segment
id, since the sequence of ids is not rolled back; `StoreInv` that each row leads into a
committed segment holding an honest body, and that the blob of an external segment is
that segment's; `QueueInv` that a queued item is pending, held by the one worker that
claimed it, or finished, and that held items without a living worker are counted
by the crashes of workers.

* `ReadsAreTrueHolds`, `Spec => []ReadsAreTrue`, and `EnrichmentHolds`,
  `Spec => []EnrichmentAccounted`.
* `StoreRefines`, `Spec => Promise!Init /\ [][Promise!Next]_(Promise!csVars)`: the safety
  half of `ImplementsContentStore`. `Negotiate` maps to `Ask` (or to `AlreadyStored`
  when nothing is missing), the commit of an ingest to `Store` of everything
  the pack holds and its answer to `Acknowledge`, the refusal of a pack that does not hash
  to its digests to `Refuse`, every other way to roll back and the lost acknowledgement of a
  commit to `Fail`, and every other step leaves the abstract state as it is. The step that needs `ObjInv` is the commit: what it
  makes visible is all that was negotiated and was not there.

### `JobExecutionProofs`

One invariant, `ExecutionInv`, relates what a runner is doing to its job's row, environment
and history (`ExecInv`), and since no two runners have one job (`Exclusive`), each step of a
runner is shown to be an `OwnStep`: it keeps the relation for itself and touches nothing
of the others. The steps' actions are typed by `Proper`: whatever a step does, it keeps
the kind and the age of its environment and says "deployed" only of a patch whose pods the
controller has started (`DeployInv`).

* `TypeCorrect`, `Spec => []TypeOK`.
* `SuccessEarned`, `Spec => []SuccessIsEarned`. `ExecInv` adds that as long as `allSuccess`
  holds, every step below `i` has succeeded or been skipped, and that a runner that is at
  its report with `allSuccess` has gone past the last step: the two together are what makes
  a success of the report, also when it is lost and the next one is a failure.
* `EnvironmentsFollow`, `Spec => []EnvironmentsFollowJobs`. Released: `LeftInv` counts also the
  environments whose runner is on its way to report an error, since for those no removal
  is tried again. Kept: the age of an environment and the time its job has left
  add up to the deadline at most, since the environment is made after the deadline was set
  and both count the same ticks; so nothing the collector finds stale has time left.
* `DeploysStarted`, `Spec => []DeploysHaveStarted`: the updated pods are all there only when
  the controller has started the generation it has observed, and a step whose patch is newer waits.
* `FollowersHold`, `LogSpec => []FollowersMissNothing`, about `JobLogs`. `LogInv` says that the
  numbers of the rows follow the order in which the chunks were sent
  (`StoredRows`), that one call is served at a time, since the runner sends a chunk when the
  one before it has been answered (`OneCall`), and that a page has what it has been given
  (`PageKnows`). The SELECT of the largest number and the INSERT are two statements; what
  keeps them together is that no other call is between them until a runner gives one up.

### `AccessProofs`

Two parts, one about `Orgs` and one about `Accounts`.
The invariant `AccessInv` has a part for each table a request may find changed between two
of its statements: `OrgInv` for organisations and members, `RepoInv` for
repositories and a shard's handles, `HookInv` for webhooks, deliveries and their goroutines.
Each says what a request has read and still relies on. Ids are given once and rows of
repositories are marked, not removed, so that a row that was read keeps its meaning.

* `AccessHolds`, `OrgsSpec => []AccessIsConsistent`: the owner of an organisation stays its
  member, since `RemoveMember` refuses the owner, whom nothing changes after the
  organisation's creation, and `AddMember` replaces a role by another one; a key writes
  where its user's token does, since `roleToPermission` and `HasAtLeastRole` draw one line, and a membership that cannot be
  read stops a key and not a token;
  a handle leads to a repository of the organisation it is named for.
* `DeliveriesHold`, `OrgsSpec => []DeliveriesAreAccounted`: the id of a delivery is given once
  (`IdsGiven`), so a goroutine is of the delivery it was started with.

`AccountInv` is `RowInv` (the address of every account, link and approved signup was
admitted), `RefInv` (sessions, tokens and JWTs are of accounts that exist), `ReqInv` (what
a request has at hand), and `LinkInv`, which counts: until a link is marked as used it has
opened no session, and at any time the sessions it has opened and the requests that may
still open one are together no more than the requests in progress.

* `LoginsHold`, `AccountsSpec => []LoginsAreSound`, for either collation of the column. The
  invariant `MailInv` counts again: the accounts of a mailbox and the requests about to insert
  one (`Creating`) are together no more than the requests in progress, since each of those
  requests saw no account, and nobody starts to insert where there is one.
* `GrantsHold`, `AccountsSpec => GrantsAreKept`, an action property: `RequestCIAccess` writes its
  flag by itself and not the row it has read, so that a grant given in between is kept.

### `ReviewsProofs`

`ReviewInv` is `VersionInv` (each version follows a version of the same review by a legal
transition, and a ref points to the last version of its review), `ReqInv` (a request has read
a version of its review, and asks for a legal transition from that version), `EndingsLast`,
`MergeIsAtomic` and `NoticesAreCommitted`. Objects are immutable: the
version that a request has read is still there when another one is the head, which is why it
can be stated without the reference.

* `MergesHold`, `ReviewsSpec => []MergesAreFinal`. A version that was made from the head it
  replaces follows the head by a legal transition, and none leads out of an ended state; so
  the state at a head is the state at the end, version by version.
* `NoticesHold`, `ReviewsSpec => []NoticesAreSound`: notices speak of committed updates, and
  no account gets two mails about one. The loop over the names (`SendEach`) is a recursive
  function; that it keeps its invariant (`Fresh`: the mails sent have distinct addresses, all
  noted) is proved name by name. `UpTo` is induction over `0 .. n` for a set instead of a
  predicate, from the well-foundedness of `<`, and the function's existence is proved the same
  way. `MailInv` says what a notice carries: lists of names, and a ref that is still there.

### `GitPushProofs`

`RefInv` is `GitTypes`, `Numbers` (a head is older than its changeset, and a session
holds numbers of stored changesets) and `Histories` (a ref is the last target of its
history, whose changesets name it).

* `MirrorHolds`, `GitSpec => []MirrorFollows`. `MirrorInv` says that, while pushes have not
  overlapped, one session is open at a time (`OneOpen`), that before its transaction the mirror
  is the refs but for the missed ones (`InStep`), and that afterwards it differs from them in
  nothing else but what the session has still to write (`SomeLack`). `PastInv` needs no such
  condition: what a session has read of a ref, and what the mirror holds, is in the ref's
  history, which only grows (`StepGrows`).
* `ClonesHold`, `GitSpec => []ClonesAreComplete`. A thin pack leaves out what the client was told
  the server has, so the invariant has to remember what that was: `PackInv` says that
  the pack of a changeset is thin with regard to commits that refs have pointed to, by
  changesets of a smaller number (`ThinFor`). On a linear history those are the ones below it in
  the chain of heads (`ToldIsEarlier`). The walk over the chain, oldest first, keeps knowing the
  ancestors of every commit it has passed (`KnowsAncestors`), hence every base the next pack
  leaves out (`ThinPackParses`), and the walk from the tip then ends nowhere early
  (`WalkIsAncestry`). The chain and the gathering are loops, recursive functions again
  (`ChainFollows`, `ObjectsGathered`, by `Iterates` and `UpTo`).

### What is only model-checked

* Liveness (`EveryPushEnds`, `ClaimedJobsEnd`, the liveness
  half of `ImplementsContentStore`): it needs fairness and `ENABLED`, which the prover
  does not have.
* The pure algorithms (the properties of `algorithms`), whose operators are recursive over
  trees, strings and graphs, and `RunsAreRunnable`, since `Workflows` uses them: the
  prover has no SMT backend where such an operator is in reach. The loops of `Reviews` and
  `GitPush` run over a range of numbers, and could be written as functions.
* `DueWorkflowsStartOnce` and `TableFollowsSyncs`, for the same reason.

## 6. What is not modelled

* Read-only handlers, formatting, logging; authentication beyond `Accounts` and the
  permission checks of `Orgs`.
* Secrets, variables and registry credentials of a repository: tables with
  single-statement writes.
* The scripts that set-up actions run in a pod, the pod's specification and the
  rendering of manifests (`kustomize.go`): data handed to Kubernetes.
* Byte formats: git packs, pkt-lines, SSH protocol, segment framing, canonical JSON,
  YAML. Digests and parsed documents are model values.
* `kai-core`'s parsers, call graph, intent and module matching: sequential analysis of
  syntax trees and floating-point scores, without a reference other than the code.
* E-mail templates, telemetry, configuration and the web frontend: output only.
* `background.Enricher` is started by no `main`; its queue is filled by ingestion, and
  the worker is modelled as written.
* The SQLite variant of `ClaimJob`, whose placeholders are bound in another order.
* `UpdateChangeset` (one read and one forced ref write, as `UpdateReview`).

## 7. The plan

Done: all the modules above. Next, in this order:

1. Proofs: `RunsAreRunnable`, with the table of `Workflows` apart from the algorithms, which
   it would take as constant functions.
2. A composition of pushes with CI triggers (`notifyPushCI` to `TriggerCI` of
   `Workflows`), with notifications lost or out of order.
3. An abstract specification of a ref as a register, which the forced updates of
   `RefStore` implement.
