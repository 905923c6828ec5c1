------------------------------- MODULE RefStore -------------------------------
(***************************************************************************)
(* The ref store of the data plane (kailab): the tables refs and           *)
(* ref_history in Postgres and the two HTTP handlers that write them,      *)
(* UpdateRef and BatchUpdateRefs.  A handler runs one transaction at       *)
(* Postgres' default isolation, READ COMMITTED: every SELECT sees what is  *)
(* committed at that moment plus the transaction's own writes, an upsert   *)
(* takes the row's lock and keeps it until the transaction ends, and a     *)
(* history row draws its sequence number when it is inserted.  Each SQL    *)
(* statement is one action.                                                *)
(*                                                                         *)
(* The handlers of all pushes share one connection pool (MaxConns): an     *)
(* open transaction keeps a connection, and the reads a handler makes      *)
(* outside its transaction need a second one.                              *)
(***************************************************************************)
EXTENDS Integers, Sequences, FiniteSets

CONSTANTS
    Pushes,         \* requests, each with its own push id
    Refs,           \* ref names
    Targets,        \* digests a ref can point to
    NoTarget,       \* the absent digest (nil)
    NoPush,         \* no transaction
    Latest, Main,   \* the refs snap.latest and snap.main
    CIRefs,         \* refs whose push triggers CI: snap.* not timestamped
    Unsigned,       \* targets that ensureSignedChangeSet rejects
    RequireSigned,  \* the server's RequireSignedChangeSets setting
    MaxConns,       \* db.SetMaxOpenConns
    Requests        \* the requests clients send

(* One entry of a request: proto.RefUpdateRequest, proto.BatchRefUpdate. *)
Update == [name : Refs, old : Targets \cup {NoTarget},
           new : Targets \cup {NoTarget}, force : BOOLEAN]

ASSUME RefStoreAssumption ==
    /\ NoTarget \notin Targets
    /\ NoPush \notin Pushes
    /\ {Latest, Main} \cup CIRefs \subseteq Refs
    /\ Latest # Main
    /\ Unsigned \subseteq Targets
    /\ RequireSigned \in BOOLEAN
    /\ MaxConns \in Nat \ {0}
    /\ Requests \subseteq [kind : {"single", "batch"}, updates : Seq(Update)]
    /\ \A q \in Requests : q.kind = "single" => Len(q.updates) = 1

VARIABLES
    refs,       \* the committed refs table
    log,        \* ref_history: every row ever inserted, by sequence number
    committed,  \* pushes whose transaction has committed
    holder,     \* the transaction holding the lock of a refs row
    writes,     \* a transaction's uncommitted refs rows
    pc,         \* where a push's handler is
    req,        \* the request it serves
    item,       \* index of the update it is at
    mainToo,    \* it is at the snap.main write that follows snap.latest
    cur, par,   \* what its last SELECTs returned: target and parent id
    okItems,    \* updates with a successful result
    triggered,  \* git refs notifyPushCI has triggered for this push
    notified,   \* CI notifications sent: push, ref and sha
    answer      \* the HTTP answer

dbVars      == <<refs, log, committed, holder, writes>>
handlerVars == <<pc, req, item, mainToo, cur, par, okItems>>
ciVars      == <<triggered, notified>>
vars        == <<dbVars, handlerVars, ciVars, answer>>

-----------------------------------------------------------------------------
(* What a push is working on.                                              *)

Upd(p)     == req[p].updates[item[p]]
IsBatch(p) == req[p].kind = "batch"
OpName(p)  == IF mainToo[p] THEN Main ELSE Upd(p).name
OpForce(p) == mainToo[p] \/ Upd(p).force

(* A transaction is open from BEGIN to COMMIT or ROLLBACK. *)
TxPCs   == {"item", "target", "parent", "upsert", "append", "reread", "commit"}
OpenTxs == {p \in Pushes : pc[p] \in TxPCs}

(* A connection is free for a statement outside every transaction. *)
FreeConn == Cardinality(OpenTxs) < MaxConns

(* A row of ref_history is visible once its transaction has committed. *)
Visible(i) == log[i].push \in committed

(* READ COMMITTED: own uncommitted writes first, then committed rows. *)
SeenTarget(p, r) == IF writes[p][r] # NoTarget THEN writes[p][r] ELSE refs[r]
SeenRows_anyRef(p, r) ==  \* slip: the WHERE ref = ... is forgotten
    {i \in 1..Len(log) : log[i].push \in committed \cup {p}}
SeenRows(p, r)   == {i \in 1..Len(log) :
                        log[i].ref = r /\ log[i].push \in committed \cup {p}}
Last(S) == IF S = {} THEN 0 ELSE CHOOSE i \in S : \A j \in S : j <= i

(* The old value an update states must match: nil for a ref that must not *)
(* exist yet, the current target otherwise.                               *)
FastForward(old, current) == old = current

(* The value recorded as the entry's old target. *)
RecordedOld(p) == IF OpForce(p) THEN cur[p] ELSE Upd(p).old

Rejected(u) == u.new = NoTarget \/ (RequireSigned /\ u.new \in Unsigned)

(* refs/heads/<branch>: snap.latest stands for main. *)
GitRef(r) == IF r = Latest THEN Main ELSE r

Init ==
    /\ refs      = [r \in Refs |-> NoTarget]
    /\ log       = <<>>
    /\ committed = {}
    /\ holder    = [r \in Refs |-> NoPush]
    /\ writes    = [p \in Pushes |-> [r \in Refs |-> NoTarget]]
    /\ pc        = [p \in Pushes |-> "idle"]
    /\ req       \in [Pushes -> Requests]
    /\ item      = [p \in Pushes |-> 1]
    /\ mainToo   = [p \in Pushes |-> FALSE]
    /\ cur       = [p \in Pushes |-> NoTarget]
    /\ par       = [p \in Pushes |-> 0]
    /\ okItems   = [p \in Pushes |-> {}]
    /\ triggered = [p \in Pushes |-> {}]
    /\ notified  = {}
    /\ answer    = [p \in Pushes |-> "none"]

-----------------------------------------------------------------------------
(* Requests refused before any transaction: no updates, or the single      *)
(* update has no new target or is not properly signed.                     *)
RefuseRequest(p) ==
    /\ pc[p] = "idle"
    /\ IF IsBatch(p) THEN req[p].updates = <<>> ELSE Rejected(Upd(p))
    /\ pc'     = [pc EXCEPT ![p] = "done"]
    /\ answer' = [answer EXCEPT ![p] = "bad"]
    /\ UNCHANGED <<dbVars, req, item, mainToo, cur, par, okItems, ciVars>>

BeginTx(p) ==
    /\ pc[p] = "idle"
    /\ IF IsBatch(p) THEN req[p].updates # <<>> ELSE ~Rejected(Upd(p))
    /\ FreeConn
    /\ pc' = [pc EXCEPT ![p] = IF IsBatch(p) THEN "item" ELSE "target"]
    /\ UNCHANGED <<dbVars, req, item, mainToo, cur, par, okItems, ciVars, answer>>

(* The handler moves on to the request's next update, or to COMMIT. *)
NextItem(p) ==
    /\ item'    = [item EXCEPT ![p] = @ + 1]
    /\ mainToo' = [mainToo EXCEPT ![p] = FALSE]
    /\ pc'      = [pc EXCEPT ![p] =
                     IF item[p] < Len(req[p].updates) THEN "item" ELSE "commit"]

(* The head of BatchUpdateRefs' loop.  The signature check reads the       *)
(* object through the pool, outside the transaction.                       *)
CheckItem(p) ==
    /\ pc[p] = "item"
    /\ RequireSigned /\ Upd(p).new # NoTarget => FreeConn
    /\ IF Rejected(Upd(p))
         THEN NextItem(p)
         ELSE /\ pc' = [pc EXCEPT ![p] = "target"]
              /\ UNCHANGED <<item, mainToo>>
    /\ UNCHANGED <<dbVars, req, cur, par, okItems, ciVars, answer>>

(* End of a transaction: its row locks and its uncommitted rows are gone. *)
EndTx(p) ==
    /\ holder' = [r \in Refs |-> IF holder[r] = p THEN NoPush ELSE holder[r]]
    /\ writes' = [writes EXCEPT ![p] = [r \in Refs |-> NoTarget]]

Rollback_leaked(p, a) ==  \* slip: an early return without tx.Rollback
    /\ pc'     = [pc EXCEPT ![p] = "done"]
    /\ answer' = [answer EXCEPT ![p] = a]
    /\ UNCHANGED dbVars

Rollback(p, a) ==
    /\ EndTx(p)
    /\ pc'     = [pc EXCEPT ![p] = "done"]
    /\ answer' = [answer EXCEPT ![p] = a]
    /\ UNCHANGED <<refs, log, committed>>

(* SELECT target FROM refs, and the fast-forward check: a mismatch ends a  *)
(* single update with a rollback, a batch goes on without the item.        *)
ReadTarget(p) ==
    /\ pc[p] = "target"
    /\ cur' = [cur EXCEPT ![p] = SeenTarget(p, OpName(p))]
    /\ \/ /\ OpForce(p) \/ FastForward(Upd(p).old, SeenTarget(p, OpName(p)))
          /\ pc' = [pc EXCEPT ![p] = "parent"]
          /\ UNCHANGED <<dbVars, item, mainToo, answer>>
       \/ /\ ~OpForce(p) /\ ~FastForward(Upd(p).old, SeenTarget(p, OpName(p)))
          /\ IF IsBatch(p)
               THEN NextItem(p) /\ UNCHANGED <<dbVars, answer>>
               ELSE Rollback(p, "conflict") /\ UNCHANGED <<item, mainToo>>
    /\ UNCHANGED <<req, par, okItems, ciVars>>

(* SELECT id FROM ref_history WHERE ref = ... ORDER BY seq DESC LIMIT 1. *)
ReadParent(p) ==
    /\ pc[p] = "parent"
    /\ par' = [par EXCEPT ![p] = Last(SeenRows(p, OpName(p)))]
    /\ pc'  = [pc EXCEPT ![p] = "upsert"]
    /\ UNCHANGED <<dbVars, req, item, mainToo, cur, okItems, ciVars, answer>>

Upsert_outsideTx(p) ==  \* slip: db.Exec where tx.Exec is meant
    /\ pc[p] = "upsert"
    /\ holder[OpName(p)] = NoPush
    /\ refs' = [refs EXCEPT ![OpName(p)] = Upd(p).new]
    /\ pc'   = [pc EXCEPT ![p] = "append"]
    /\ UNCHANGED <<log, committed, holder, writes, req, item, mainToo, cur, par,
                   okItems, ciVars, answer>>

(* INSERT INTO refs ... ON CONFLICT DO UPDATE: waits for the row's lock. *)
Upsert(p) ==
    /\ pc[p] = "upsert"
    /\ holder[OpName(p)] \in {NoPush, p}
    /\ holder' = [holder EXCEPT ![OpName(p)] = p]
    /\ writes' = [writes EXCEPT ![p][OpName(p)] = Upd(p).new]
    /\ pc'     = [pc EXCEPT ![p] = "append"]
    /\ UNCHANGED <<refs, log, committed, req, item, mainToo, cur, par, okItems,
                   ciVars, answer>>

AppendHistory_noMain(p) ==  \* slip: snap.main is not moved with snap.latest
    /\ pc[p] = "append"
    /\ log' = Append(log, [push |-> p, ref |-> OpName(p), old |-> RecordedOld(p),
                           new |-> Upd(p).new, parent |-> par[p],
                           force |-> OpForce(p)])
    /\ pc' = [pc EXCEPT ![p] = IF IsBatch(p) THEN "reread" ELSE "commit"]
    /\ UNCHANGED <<refs, committed, holder, writes, req, item, mainToo, cur, par,
                   okItems, ciVars, answer>>

(* INSERT INTO ref_history.  A batch that has just set snap.latest sets    *)
(* snap.main too; otherwise it re-reads the ref outside the transaction.   *)
AppendHistory(p) ==
    /\ pc[p] = "append"
    /\ log' = Append(log, [push |-> p, ref |-> OpName(p), old |-> RecordedOld(p),
                           new |-> Upd(p).new, parent |-> par[p],
                           force |-> OpForce(p)])
    /\ LET followUp == IsBatch(p) /\ OpName(p) = Latest
       IN /\ mainToo' = [mainToo EXCEPT ![p] = followUp]
          /\ pc' = [pc EXCEPT ![p] = IF followUp THEN "target"
                                     ELSE IF IsBatch(p) THEN "reread" ELSE "commit"]
    /\ UNCHANGED <<refs, committed, holder, writes, req, item, cur, par, okItems,
                   ciVars, answer>>

(* The item succeeded; PgGetRef on the pool while the transaction is open. *)
Reread(p) ==
    /\ pc[p] = "reread"
    /\ FreeConn
    /\ okItems' = [okItems EXCEPT ![p] = @ \cup {item[p]}]
    /\ NextItem(p)
    /\ UNCHANGED <<dbVars, req, cur, par, ciVars, answer>>

(* The transaction's rows become the committed ones, all at once. *)
ApplyWrites(p) ==
    /\ refs' = [r \in Refs |-> SeenTarget(p, r)]
    /\ committed' = committed \cup {p}
    /\ EndTx(p)
    /\ UNCHANGED log

Commit(p) ==
    /\ pc[p] = "commit"
    /\ ApplyWrites(p)
    /\ pc'   = [pc EXCEPT ![p] = "notify"]
    /\ item' = [item EXCEPT ![p] = 1]
    /\ UNCHANGED <<req, mainToo, cur, par, okItems, ciVars, answer>>

(* The connection breaks after Postgres committed: the handler answers 500. *)
CommitUnacknowledged(p) ==
    /\ pc[p] = "commit"
    /\ ApplyWrites(p)
    /\ pc'     = [pc EXCEPT ![p] = "done"]
    /\ answer' = [answer EXCEPT ![p] = "error"]
    /\ UNCHANGED <<req, item, mainToo, cur, par, okItems, ciVars>>

(* A statement fails, or COMMIT does: Postgres has rolled back, later      *)
(* statements of the transaction fail too, and the handler answers 500.    *)
StatementFails(p) ==
    /\ pc[p] \in TxPCs
    /\ Rollback(p, "error")
    /\ UNCHANGED <<req, item, mainToo, cur, par, okItems, ciVars>>

(* p waits for a row that q has locked. *)
WaitsFor(p, q) == pc[p] = "upsert" /\ p # q /\ holder[OpName(p)] = q

(* Postgres' deadlock detector aborts a transaction on a cycle of waits. *)
DeadlockVictim(p) ==
    /\ \E S \in SUBSET Pushes :
          p \in S /\ \A x \in S : \E y, z \in S : WaitsFor(x, y) /\ WaitsFor(z, x)
    /\ Rollback(p, "error")
    /\ UNCHANGED <<req, item, mainToo, cur, par, okItems, ciVars>>

NotifyPushCI_staleSha(p) ==  \* slip: the target read before the update is sent
    /\ pc[p] = "notify" /\ IsBatch(p) /\ item[p] \in okItems[p]
    /\ notified'  = notified \cup {[push |-> p, ref |-> Upd(p).name, sha |-> cur[p]]}
    /\ item' = [item EXCEPT ![p] = @ + 1]
    /\ UNCHANGED <<dbVars, pc, req, mainToo, cur, par, okItems, triggered, answer>>

(* After the commit, notifyPushCI reads every updated snap.* ref again and *)
(* sends its target to the control plane, once per git ref.                *)
NotifyPushCI(p) ==
    /\ pc[p] = "notify"
    /\ IsBatch(p)
    /\ item[p] <= Len(req[p].updates)
    /\ LET r == Upd(p).name IN
       \/ /\ item[p] \in okItems[p] /\ r \in CIRefs
          /\ FreeConn
          /\ IF GitRef(r) \in triggered[p]
               THEN UNCHANGED ciVars
               ELSE /\ triggered' = [triggered EXCEPT ![p] = @ \cup {GitRef(r)}]
                    /\ notified'  = notified \cup
                                      {[push |-> p, ref |-> r, sha |-> refs[r]]}
       \/ UNCHANGED ciVars  \* not a CI ref, a failed update, or the read failed
    /\ item' = [item EXCEPT ![p] = @ + 1]
    /\ UNCHANGED <<dbVars, pc, req, mainToo, cur, par, okItems, answer>>

(* UpdateRef reads the ref once more before it answers. *)
AnswerOK(p) ==
    /\ pc[p] = "notify"
    /\ IF IsBatch(p) THEN item[p] > Len(req[p].updates) ELSE FreeConn
    /\ pc'     = [pc EXCEPT ![p] = "done"]
    /\ answer' = [answer EXCEPT ![p] = "ok"]
    /\ UNCHANGED <<dbVars, req, item, mainToo, cur, par, okItems, ciVars>>

(* The server dies: an open transaction is rolled back by Postgres, and a  *)
(* committed push is neither answered nor notified any further.            *)
Crash(p) ==
    /\ pc[p] \in TxPCs \cup {"notify"}
    /\ Rollback(p, "none")
    /\ UNCHANGED <<req, item, mainToo, cur, par, okItems, ciVars>>

(* The steps a running handler takes by itself. *)
HandlerStep(p) ==
    \/ RefuseRequest(p) \/ BeginTx(p) \/ CheckItem(p) \/ ReadTarget(p)
    \/ ReadParent(p) \/ Upsert(p) \/ AppendHistory(p) \/ Reread(p)
    \/ Commit(p) \/ NotifyPushCI(p) \/ AnswerOK(p)

Failure(p) ==
    CommitUnacknowledged(p) \/ StatementFails(p) \/ Crash(p)

(* Every push has ended; nothing is left to do. *)
AllDone == (\A p \in Pushes : pc[p] = "done") /\ UNCHANGED vars

Next == \/ \E p \in Pushes : HandlerStep(p) \/ DeadlockVictim(p) \/ Failure(p)
        \/ AllDone

Spec == Init /\ [][Next]_vars

(* Handlers run to their end, and Postgres breaks deadlocks. *)
FairSpec ==
    Spec /\ \A p \in Pushes : WF_vars(HandlerStep(p)) /\ WF_vars(DeadlockVictim(p))

-----------------------------------------------------------------------------
(* Properties.                                                             *)

Entry == [push : Pushes, ref : Refs, old : Targets \cup {NoTarget},
          new : Targets, parent : Nat, force : BOOLEAN]

TypeOK ==
    /\ refs      \in [Refs -> Targets \cup {NoTarget}]
    /\ log       \in Seq(Entry)
    /\ committed \subseteq Pushes
    /\ holder    \in [Refs -> Pushes \cup {NoPush}]
    /\ writes    \in [Pushes -> [Refs -> Targets \cup {NoTarget}]]
    /\ pc        \in [Pushes -> TxPCs \cup {"idle", "notify", "done"}]
    /\ req       \in [Pushes -> Requests]
    /\ item      \in [Pushes -> Nat \ {0}]
    /\ mainToo   \in [Pushes -> BOOLEAN]
    /\ cur       \in [Pushes -> Targets \cup {NoTarget}]
    /\ par       \in [Pushes -> Nat]
    /\ okItems   \in [Pushes -> SUBSET Nat]
    /\ triggered \in [Pushes -> SUBSET Refs]
    /\ notified  \subseteq [push : Pushes, ref : Refs, sha : Targets \cup {NoTarget}]
    /\ answer    \in [Pushes -> {"none", "ok", "bad", "conflict", "error"}]

(* The visible rows of one ref, and the last of them. *)
VisibleRows(r) == {i \in 1..Len(log) : log[i].ref = r /\ Visible(i)}
IsLast(i, S)   == i \in S /\ \A j \in S : j <= i

(* The audit log tells the truth about the present: whatever transactions  *)
(* interleave, roll back or die, a ref's target is the new value of its    *)
(* last visible history row, and a ref without visible rows does not       *)
(* exist.  It rests on the order of PgSetRefFF's statements: the upsert    *)
(* takes the row lock before the history row draws its sequence number.    *)
HistoryMatchesRefs ==
    \A r \in Refs :
        IF VisibleRows(r) = {}
          THEN refs[r] = NoTarget
          ELSE \E i \in VisibleRows(r) :
                   IsLast(i, VisibleRows(r)) /\ log[i].new = refs[r]

(* A visible row's parent is a visible, earlier row of the same ref: the   *)
(* chain a client follows never dangles into a rolled-back transaction.    *)
ParentsResolve ==
    \A i \in 1..Len(log) :
        Visible(i) /\ log[i].parent # 0 =>
            /\ log[i].parent < i
            /\ log[log[i].parent].ref = log[i].ref
            /\ Visible(log[i].parent)

(* Rows of one push in the log. *)
RowsOf(p, r) == {i \in 1..Len(log) : log[i].push = p /\ log[i].ref = r}

(* The updates that an answer of success reports as applied. *)
Applied(p) == IF IsBatch(p) THEN okItems[p] ELSE {1}

(* What the client is told agrees with what is durable: a push answered    *)
(* with success has a visible row for each update it reports as applied    *)
(* and, in a batch, for the snap.main that follows snap.latest; a push     *)
(* answered with a conflict or a bad request left nothing behind.          *)
AnswersAreDurable ==
    \A p \in Pushes :
        /\ answer[p] = "ok" =>
              /\ p \in committed
              /\ \A k \in Applied(p) :
                    LET u == req[p].updates[k] IN
                    /\ \E i \in RowsOf(p, u.name) : log[i].new = u.new
                    /\ IsBatch(p) /\ u.name = Latest =>
                         \E i \in RowsOf(p, Main) : log[i].new = u.new
        /\ answer[p] \in {"conflict", "bad"} => p \notin committed

(* CI is never told of a state older than the push that triggers it: the   *)
(* sha sent for a ref is the target a visible row gave it, this push's own *)
(* or a later one's.                                                       *)
NotifiedShaIsFresh ==
    \A n \in notified :
        \E i \in VisibleRows(n.ref), k \in RowsOf(n.push, n.ref) :
            k <= i /\ log[i].new = n.sha

(* Every request is answered unless its server dies, with enough           *)
(* connections: row locks taken in opposite orders are broken up, and no   *)
(* path out of a handler keeps a lock or a connection.                     *)
EveryPushEnds == \A p \in Pushes : <>(pc[p] = "done")

-----------------------------------------------------------------------------
(* What the repository says of the ref store and concurrent or mixed       *)
(* requests contradict.                                                    *)

(* The visible row of the same ref just before row i, 0 if there is none. *)
Predecessor(i) == Last({j \in VisibleRows(log[i].ref) : j < i})

(* proto/wire.go: Old is the expected current target (nil for create, must *)
(* match for update).  A fast-forward row replaces exactly the target it   *)
(* was checked against.                                                    *)
FastForwardHolds ==
    \A i \in 1..Len(log) :
        Visible(i) /\ ~log[i].force =>
            log[i].old = IF Predecessor(i) = 0 THEN NoTarget
                         ELSE log[Predecessor(i)].new
=============================================================================
