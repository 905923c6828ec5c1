---------------------------- MODULE RefStoreProofs ----------------------------
(***************************************************************************)
(* Proofs about RefStore for every set of pushes, refs, targets and        *)
(* requests: type correctness, that the refs table always agrees with the  *)
(* visible history, that parents resolve, and that what a handler answers  *)
(* and notifies is what was committed.                                     *)
(***************************************************************************)
EXTENDS RefStore, WellFoundedInduction, TLAPS

(* Where a handler's loop index points at an update of its request, and    *)
(* where that update is known to have a target.                            *)
ItemPCs   == {"item", "target", "parent", "upsert", "append", "reread"}
TargetPCs == {"target", "parent", "upsert", "append"}

ItemInRange ==
    \A p \in Pushes :
        /\ pc[p] = "idle" => item[p] = 1
        /\ pc[p] \in ItemPCs => item[p] <= Len(req[p].updates)
        /\ pc[p] \in TargetPCs => Upd(p).new # NoTarget

TypeInv == TypeOK /\ ItemInRange

(* An update the loop index points at is a well-formed update. *)
LEMMA UpdType ==
    ASSUME TypeOK, NEW p \in Pushes, item[p] <= Len(req[p].updates)
    PROVE  /\ Upd(p) \in Update
           /\ OpName(p) \in Refs
           /\ OpForce(p) \in BOOLEAN
           /\ Upd(p).new \in Targets \cup {NoTarget}
           /\ Upd(p).name \in Refs
           /\ RecordedOld(p) \in Targets \cup {NoTarget}
<1>1. req[p] \in [kind : {"single", "batch"}, updates : Seq(Update)]
  BY RefStoreAssumption DEF TypeOK
<1>2. item[p] \in 1..Len(req[p].updates)
  BY <1>1 DEF TypeOK
<1>3. Upd(p) \in Update
  BY <1>1, <1>2 DEF Upd
<1>4. /\ Upd(p).name \in Refs /\ Upd(p).new \in Targets \cup {NoTarget}
      /\ Upd(p).old \in Targets \cup {NoTarget} /\ Upd(p).force \in BOOLEAN
  BY <1>3 DEF Update
<1>5. mainToo[p] \in BOOLEAN /\ cur[p] \in Targets \cup {NoTarget}
  BY DEF TypeOK
<1>6. OpName(p) \in Refs
  BY <1>4, RefStoreAssumption DEF OpName
<1>7. OpForce(p) \in BOOLEAN
  BY <1>4, <1>5 DEF OpForce
<1>8. RecordedOld(p) \in Targets \cup {NoTarget}
  BY <1>4, <1>5 DEF RecordedOld
<1> QED BY <1>3, <1>4, <1>6, <1>7, <1>8

(* A nonempty set of row numbers has a greatest element. *)
LEMMA GreatestExists ==
    ASSUME NEW n \in Nat, NEW S \in SUBSET (1..n), S # {}
    PROVE  \E i \in S : \A j \in S : j <= i
<1> DEFINE T == {n - i : i \in S}
           R == OpToRel(<, Nat)
<1>1. T \subseteq Nat /\ T # {}
  <2>1. \A i \in S : i \in 1..n /\ n - i \in Nat
    OBVIOUS
  <2>2. PICK i \in S : TRUE
    OBVIOUS
  <2>3. n - i \in T
    OBVIOUS
  <2> QED BY <2>1, <2>3
<1>2. PICK x \in T : \A y \in T : ~(<<y, x>> \in R)
  <2> HIDE DEF T, R
  <2>1. IsWellFoundedOn(R, Nat)
    BY NatLessThanWellFounded DEF R
  <2> QED BY <1>1, <2>1, WFMin
<1>3. \A y \in T : ~(y < x)
  BY <1>1, <1>2 DEF OpToRel
<1>4. PICK i \in S : x = n - i
  OBVIOUS
<1>5. ASSUME NEW j \in S PROVE j <= i
  <2>1. n - j \in T
    OBVIOUS
  <2>2. ~(n - j < n - i)
    BY <2>1, <1>3, <1>4
  <2>3. i \in 1..n /\ j \in 1..n
    OBVIOUS
  <2> QED BY <2>2, <2>3
<1> QED BY <1>5

(* What Last returns. *)
LEMMA LastIsGreatest ==
    ASSUME NEW n \in Nat, NEW S \in SUBSET (1..n)
    PROVE  /\ Last(S) \in Nat
           /\ S = {} => Last(S) = 0
           /\ S # {} => Last(S) \in S
<1>1. CASE S = {}
  BY <1>1 DEF Last
<1>2. CASE S # {}
  <2>1. \E i \in S : \A j \in S : j <= i
    BY <1>2, GreatestExists
  <2>2. Last(S) \in S
    BY <1>2, <2>1 DEF Last
  <2>3. Last(S) \in 1..n
    BY <2>2
  <2> QED BY <1>2, <2>2, <2>3
<1> QED BY <1>1, <1>2

-----------------------------------------------------------------------------
(* Types.                                                                  *)

(* A request's list of updates has a length. *)
LEMMA UpdLen ==
    ASSUME TypeOK, NEW p \in Pushes PROVE Len(req[p].updates) \in Nat
<1>1. req[p] \in [kind : {"single", "batch"}, updates : Seq(Update)]
  BY RefStoreAssumption DEF TypeOK
<1> QED BY <1>1

(* The initial states are well typed. *)
LEMMA InitTypeInv == Init => TypeInv
BY RefStoreAssumption
   DEF Init, TypeInv, TypeOK, ItemInRange, ItemPCs, TargetPCs, TxPCs

(* A rollback keeps the types whatever it answers. *)
LEMMA RollbackType ==
    ASSUME TypeInv, NEW p \in Pushes, NEW a \in {"none", "conflict", "error"},
           Rollback(p, a),
           UNCHANGED <<req, item, mainToo, par, okItems, ciVars>>,
           cur' \in [Pushes -> Targets \cup {NoTarget}]
    PROVE  TypeInv'
BY DEF TypeInv, TypeOK, ItemInRange, ItemPCs, TargetPCs, TxPCs, Upd,
       Rollback, EndTx, ciVars

(* Every step keeps the types. *)
LEMMA NextTypeInv == TypeInv /\ [Next]_vars => TypeInv'
<1> SUFFICES ASSUME TypeInv, [Next]_vars PROVE TypeInv'
  OBVIOUS
<1> USE DEF TypeInv, TypeOK, ItemInRange, ItemPCs, TargetPCs, TxPCs
<1>1. ASSUME NEW p \in Pushes, RefuseRequest(p) PROVE TypeInv'
  BY <1>1 DEF RefuseRequest, dbVars, ciVars, Upd
<1>2. ASSUME NEW p \in Pushes, BeginTx(p) PROVE TypeInv'
  <2>1. /\ req[p] \in [kind : {"single", "batch"}, updates : Seq(Update)]
        /\ req[p].kind = "single" => Len(req[p].updates) = 1
    BY RefStoreAssumption
  <2>2. item[p] = 1 /\ 1 <= Len(req[p].updates)
    <3>1. item[p] = 1
      BY <1>2 DEF BeginTx
    <3>2. CASE req[p].kind = "single"
      <4>1. Len(req[p].updates) = 1
        BY <2>1, <3>2
      <4> QED BY <3>1, <4>1
    <3>3. CASE req[p].kind = "batch"
      <4>1. req[p].updates \in Seq(Update) /\ req[p].updates # <<>>
        BY <1>2, <2>1, <3>3 DEF BeginTx, IsBatch
      <4> QED BY <3>1, <4>1
    <3> QED BY <2>1, <3>2, <3>3
  <2>3. pc'[p] = "target" => Upd(p).new # NoTarget
    BY <1>2, <2>1 DEF BeginTx, IsBatch, Rejected
  <2> QED BY <1>2, <2>2, <2>3 DEF BeginTx, dbVars, ciVars, Upd
<1>3. ASSUME NEW p \in Pushes, CheckItem(p) PROVE TypeInv'
  <2>1. CASE Rejected(Upd(p))
    <3>1. Len(req[p].updates) \in Nat
      BY UpdLen
    <3>2. /\ NextItem(p) /\ pc[p] = "item"
          /\ UNCHANGED <<dbVars, req, cur, par, okItems, ciVars, answer>>
      BY <1>3, <2>1 DEF CheckItem
    <3> QED BY <3>1, <3>2 DEF NextItem, dbVars, ciVars, Upd
  <2>2. CASE ~Rejected(Upd(p))
    <3>1. Upd(p).new # NoTarget
      BY <2>2 DEF Rejected
    <3> QED BY <1>3, <2>2, <3>1 DEF CheckItem, dbVars, ciVars, Upd
  <2> QED BY <2>1, <2>2
<1>4. ASSUME NEW p \in Pushes, ReadTarget(p) PROVE TypeInv'
  <2>1. SeenTarget(p, OpName(p)) \in Targets \cup {NoTarget}
    BY <1>4, UpdType DEF ReadTarget, SeenTarget
  <2>2. cur' \in [Pushes -> Targets \cup {NoTarget}]
    BY <1>4, <2>1 DEF ReadTarget
  <2>3. CASE pc' = [pc EXCEPT ![p] = "parent"] /\ UNCHANGED <<dbVars, item, mainToo, answer>>
    BY <1>4, <2>2, <2>3 DEF ReadTarget, dbVars, ciVars, Upd
  <2>4. CASE NextItem(p) /\ UNCHANGED <<dbVars, answer>>
    BY <1>4, <2>2, <2>4, UpdLen DEF ReadTarget, NextItem, dbVars, ciVars, Upd
  <2>5. CASE Rollback(p, "conflict") /\ UNCHANGED <<item, mainToo>>
    <3>1. UNCHANGED <<req, item, mainToo, par, okItems, ciVars>>
      BY <1>4, <2>5 DEF ReadTarget, ciVars
    <3> HIDE DEF TypeInv
    <3> QED BY <2>2, <2>5, <3>1, RollbackType
  <2> QED BY <1>4, <2>3, <2>4, <2>5 DEF ReadTarget
<1>5. ASSUME NEW p \in Pushes, ReadParent(p) PROVE TypeInv'
  <2>1. Len(log) \in Nat /\ SeenRows(p, OpName(p)) \in SUBSET (1..Len(log))
    BY DEF SeenRows
  <2>2. Last(SeenRows(p, OpName(p))) \in Nat
    BY <2>1, LastIsGreatest
  <2> QED BY <1>5, <2>2 DEF ReadParent, dbVars, ciVars, Upd
<1>6. ASSUME NEW p \in Pushes, Upsert(p) PROVE TypeInv'
  BY <1>6, UpdType DEF Upsert, ciVars, Upd
<1>7. ASSUME NEW p \in Pushes, AppendHistory(p) PROVE TypeInv'
  BY <1>7, UpdType DEF AppendHistory, Entry, ciVars, Upd
<1>8. ASSUME NEW p \in Pushes, Reread(p) PROVE TypeInv'
  BY <1>8 DEF Reread, NextItem, dbVars, ciVars, Upd
<1>9. ASSUME NEW p \in Pushes, Commit(p) PROVE TypeInv'
  BY <1>9 DEF Commit, ApplyWrites, EndTx, SeenTarget, ciVars, Upd
<1>10. ASSUME NEW p \in Pushes, CommitUnacknowledged(p) PROVE TypeInv'
  BY <1>10 DEF CommitUnacknowledged, ApplyWrites, EndTx, SeenTarget, ciVars, Upd
<1>11. ASSUME NEW p \in Pushes, StatementFails(p) \/ DeadlockVictim(p) \/ Crash(p)
       PROVE  TypeInv'
  <2>1. PICK a \in {"none", "error"} : Rollback(p, a)
    BY <1>11 DEF StatementFails, DeadlockVictim, Crash
  <2>2. UNCHANGED <<req, item, mainToo, cur, par, okItems, ciVars>>
    BY <1>11 DEF StatementFails, DeadlockVictim, Crash
  <2>3. cur' \in [Pushes -> Targets \cup {NoTarget}]
    BY <2>2
  <2> HIDE DEF TypeInv
  <2> QED BY <2>1, <2>2, <2>3, RollbackType
<1>12. ASSUME NEW p \in Pushes, NotifyPushCI(p) PROVE TypeInv'
  <2>1. Upd(p).name \in Refs
    BY <1>12, UpdType DEF NotifyPushCI
  <2>2. GitRef(Upd(p).name) \in Refs
    BY <2>1, RefStoreAssumption DEF GitRef
  <2>3. /\ triggered' \in [Pushes -> SUBSET Refs]
        /\ notified' \subseteq [push : Pushes, ref : Refs, sha : Targets \cup {NoTarget}]
    <3>1. CASE UNCHANGED ciVars
      BY <3>1 DEF ciVars
    <3>2. CASE /\ triggered' = [triggered EXCEPT ![p] = @ \cup {GitRef(Upd(p).name)}]
               /\ notified' = notified \cup {[push |-> p, ref |-> Upd(p).name,
                                               sha |-> refs[Upd(p).name]]}
      BY <2>1, <2>2, <3>2
    <3> QED BY <1>12, <3>1, <3>2 DEF NotifyPushCI
  <2>4. /\ item' = [item EXCEPT ![p] = @ + 1] /\ pc[p] = "notify"
        /\ UNCHANGED <<dbVars, pc, req, mainToo, cur, par, okItems, answer>>
    BY <1>12 DEF NotifyPushCI
  <2> QED BY <2>3, <2>4 DEF dbVars, Upd
<1>13. ASSUME NEW p \in Pushes, AnswerOK(p) PROVE TypeInv'
  BY <1>13 DEF AnswerOK, dbVars, ciVars, Upd
<1>14. CASE AllDone \/ UNCHANGED vars
  BY <1>14 DEF AllDone, vars, dbVars, handlerVars, ciVars, Upd
<1> QED
  BY <1>1, <1>2, <1>3, <1>4, <1>5, <1>6, <1>7, <1>8, <1>9, <1>10, <1>11, <1>12,
     <1>13, <1>14 DEF Next, HandlerStep, Failure

(* Every reachable state is well typed: in particular a history row always *)
(* records a target, because both handlers refuse an update without one.   *)
THEOREM TypeCorrect == Spec => []TypeOK
<1>1. TypeInv => TypeOK
  BY DEF TypeInv
<1> QED BY <1>1, InitTypeInv, NextTypeInv, PTL DEF Spec

-----------------------------------------------------------------------------
(* The refs table agrees with the history.                                 *)

(* A row lock is held exactly where there is an uncommitted write, by a    *)
(* transaction that is open; a committed push has no open transaction.     *)
LockInv ==
    /\ \A p \in Pushes, r \in Refs : writes[p][r] # NoTarget <=> holder[r] = p
    /\ \A p \in Pushes, r \in Refs : holder[r] = p => pc[p] \in TxPCs
    /\ \A p \in committed : pc[p] \in {"notify", "done"}
    /\ \A p \in Pushes : pc[p] = "append" =>
           holder[OpName(p)] = p /\ writes[p][OpName(p)] = Upd(p).new

(* A history row belongs to a push that has begun, and while its           *)
(* transaction is open it holds the lock of the row's ref.                 *)
RowInv ==
    \A i \in 1..Len(log) :
        /\ pc[log[i].push] # "idle"
        /\ pc[log[i].push] \in TxPCs => holder[log[i].ref] = log[i].push

(* Row i is the last row of r that is visible to everyone or to p. *)
LastSeen(i, p, r) ==
    /\ i \in 1..Len(log) /\ log[i].ref = r /\ log[i].push = p
    /\ \A j \in 1..Len(log) :
          log[j].ref = r /\ log[j].push \in committed \cup {p} => j <= i

(* A write waiting to be committed is the last row of its ref, except      *)
(* between the upsert and the insertion of the history row.                *)
PendingInv ==
    \A p \in Pushes, r \in Refs :
        holder[r] = p /\ ~(pc[p] = "append" /\ OpName(p) = r) =>
            \E i \in 1..Len(log) : LastSeen(i, p, r) /\ log[i].new = writes[p][r]

HistoryInv == TypeInv /\ LockInv /\ RowInv /\ PendingInv /\ HistoryMatchesRefs

(* The invariant holds initially. *)
LEMMA InitHistoryInv == Init => HistoryInv
<1> SUFFICES ASSUME Init PROVE HistoryInv
  OBVIOUS
<1>1. TypeInv
  BY InitTypeInv
<1>2. Len(log) = 0
  BY DEF Init
<1>3. LockInv
  BY RefStoreAssumption DEF Init, LockInv, TxPCs
<1>4. RowInv
  BY <1>2 DEF RowInv
<1>5. PendingInv
  BY RefStoreAssumption DEF Init, PendingInv
<1>6. HistoryMatchesRefs
  BY <1>2 DEF Init, HistoryMatchesRefs, VisibleRows
<1> QED BY <1>1, <1>3, <1>4, <1>5, <1>6 DEF HistoryInv

(* Rows are records of pushes and refs. *)
LEMMA LogFacts ==
    ASSUME TypeOK
    PROVE  /\ Len(log) \in Nat
           /\ \A i \in 1..Len(log) : /\ log[i].push \in Pushes
                                      /\ log[i].ref \in Refs
                                      /\ log[i].new \in Targets
<1>1. log \in Seq(Entry)
  BY DEF TypeOK
<1>2. \A i \in 1..Len(log) : log[i] \in Entry
  BY <1>1
<1> QED BY <1>1, <1>2 DEF Entry

(* The agreement of refs and history depends on the tables alone. *)
LEMMA SameTables ==
    ASSUME HistoryMatchesRefs, UNCHANGED <<refs, log, committed>>
    PROVE  HistoryMatchesRefs'
BY DEF HistoryMatchesRefs, VisibleRows, Visible, IsLast

(* The place of every handler but p's is the same. *)
OthersStay(p) ==
    \A q \in Pushes \ {p} : /\ pc'[q] = pc[q]
                            /\ OpName(q)' = OpName(q)
                            /\ Upd(q)' = Upd(q)

(* A step that leaves the tables, the locks and the place of every handler *)
(* between its upsert and its history row alone keeps the invariant.       *)
LEMMA LocalStepHistory ==
    ASSUME HistoryInv, TypeInv', UNCHANGED dbVars, NEW p \in Pushes,
           OthersStay(p), pc[p] # "append", pc'[p] # "append", pc'[p] # "idle",
           pc[p] \in TxPCs => pc'[p] \in TxPCs,
           pc[p] \in {"notify", "done"} => pc'[p] \in {"notify", "done"}
    PROVE  HistoryInv'
<1>1. /\ LockInv /\ RowInv /\ PendingInv /\ HistoryMatchesRefs /\ TypeOK
      /\ refs' = refs /\ log' = log /\ committed' = committed
      /\ holder' = holder /\ writes' = writes
  BY DEF HistoryInv, TypeInv, dbVars
<1>2. pc[p] \in TxPCs \cup {"idle", "notify", "done"} /\ committed \subseteq Pushes
  BY <1>1 DEF TypeOK
<1>3. LockInv'
  <2>1. ASSUME NEW q \in Pushes, NEW r \in Refs, holder[r] = q PROVE pc'[q] \in TxPCs
    BY <1>1, <2>1 DEF LockInv, OthersStay
  <2>2. ASSUME NEW q \in committed PROVE pc'[q] \in {"notify", "done"}
    BY <1>1, <1>2 DEF LockInv, OthersStay
  <2>3. ASSUME NEW q \in Pushes, pc'[q] = "append"
        PROVE  holder[OpName(q)'] = q /\ writes[q][OpName(q)'] = Upd(q)'.new
    BY <1>1, <2>3 DEF LockInv, OthersStay
  <2> QED BY <1>1, <2>1, <2>2, <2>3 DEF LockInv
<1>4. RowInv'
  <2>1. ASSUME NEW i \in 1..Len(log)
        PROVE  /\ pc'[log[i].push] # "idle"
               /\ pc'[log[i].push] \in TxPCs => holder[log[i].ref] = log[i].push
    <3>1. log[i].push \in Pushes
      BY <1>1, LogFacts
    <3>2. CASE log[i].push # p
      BY <1>1, <3>1, <3>2 DEF RowInv, OthersStay
    <3>3. CASE log[i].push = p
      <4>1. pc[p] # "idle"
        BY <1>1, <3>3 DEF RowInv
      <4>2. CASE pc[p] \in TxPCs
        BY <1>1, <3>3, <4>2 DEF RowInv
      <4>3. CASE pc[p] \in {"notify", "done"}
        BY <3>3, <4>3 DEF TxPCs
      <4> QED BY <1>2, <4>1, <4>2, <4>3
    <3> QED BY <3>2, <3>3
  <2> QED BY <1>1, <2>1 DEF RowInv
<1>5. PendingInv'
  <2>1. ASSUME NEW q \in Pushes, NEW r \in Refs, holder[r] = q,
               ~(pc'[q] = "append" /\ OpName(q)' = r)
        PROVE  ~(pc[q] = "append" /\ OpName(q) = r)
    BY <2>1 DEF OthersStay
  <2> QED BY <1>1, <2>1 DEF PendingInv, LastSeen
<1>6. HistoryMatchesRefs'
  BY <1>1, SameTables
<1> QED BY <1>3, <1>4, <1>5, <1>6 DEF HistoryInv

(* Ending a transaction without committing it keeps the invariant. *)
LEMMA RollbackHistory ==
    ASSUME HistoryInv, TypeInv', NEW p \in Pushes, OthersStay(p),
           NEW a, Rollback(p, a)
    PROVE  HistoryInv'
<1>1. /\ LockInv /\ RowInv /\ PendingInv /\ HistoryMatchesRefs /\ TypeOK
      /\ refs' = refs /\ log' = log /\ committed' = committed
      /\ holder' = [r \in Refs |-> IF holder[r] = p THEN NoPush ELSE holder[r]]
      /\ writes' = [writes EXCEPT ![p] = [r \in Refs |-> NoTarget]]
  BY DEF HistoryInv, TypeInv, Rollback, EndTx
<1>2. /\ pc'[p] = "done" /\ committed \subseteq Pushes
      /\ holder \in [Refs -> Pushes \cup {NoPush}]
      /\ writes \in [Pushes -> [Refs -> Targets \cup {NoTarget}]]
  BY <1>1 DEF TypeOK, Rollback
<1>3. /\ \A q \in Pushes, r \in Refs : holder'[r] = q <=> holder[r] = q /\ q # p
      /\ \A q \in Pushes \ {p}, r \in Refs : writes'[q][r] = writes[q][r]
      /\ \A r \in Refs : writes'[p][r] = NoTarget
  BY <1>1, <1>2, RefStoreAssumption
<1>4. \A q \in Pushes \ {p} : pc'[q] = "append" => OpName(q) \in Refs
  <2>1. ASSUME NEW q \in Pushes \ {p}, pc'[q] = "append" PROVE OpName(q) \in Refs
    <3>1. pc[q] = "append"
      BY <2>1 DEF OthersStay
    <3>2. item[q] <= Len(req[q].updates)
      BY <3>1 DEF HistoryInv, TypeInv, ItemInRange, ItemPCs
    <3> QED BY <1>1, <3>2, UpdType
  <2> QED BY <2>1
<1>5. LockInv'
  <2>1. ASSUME NEW q \in Pushes, NEW r \in Refs
        PROVE  /\ writes'[q][r] # NoTarget <=> holder'[r] = q
               /\ holder'[r] = q => pc'[q] \in TxPCs
    BY <1>1, <1>3 DEF LockInv, OthersStay
  <2>2. ASSUME NEW q \in committed PROVE pc'[q] \in {"notify", "done"}
    BY <1>1, <1>2 DEF LockInv, OthersStay
  <2>3. ASSUME NEW q \in Pushes, pc'[q] = "append"
        PROVE  holder'[OpName(q)'] = q /\ writes'[q][OpName(q)'] = Upd(q)'.new
    <3>1. q # p
      BY <1>2, <2>3
    <3> QED BY <1>1, <1>3, <1>4, <2>3, <3>1 DEF LockInv, OthersStay
  <2> QED BY <1>1, <2>1, <2>2, <2>3 DEF LockInv
<1>6. RowInv'
  <2>1. ASSUME NEW i \in 1..Len(log)
        PROVE  /\ pc'[log[i].push] # "idle"
               /\ pc'[log[i].push] \in TxPCs => holder'[log[i].ref] = log[i].push
    <3>1. log[i].push \in Pushes /\ log[i].ref \in Refs
      BY <1>1, LogFacts
    <3>2. CASE log[i].push # p
      BY <1>1, <1>3, <3>1, <3>2 DEF RowInv, OthersStay
    <3>3. CASE log[i].push = p
      BY <1>2, <3>3 DEF TxPCs
    <3> QED BY <3>2, <3>3
  <2> QED BY <1>1, <2>1 DEF RowInv
<1>7. PendingInv'
  <2>1. ASSUME NEW q \in Pushes, NEW r \in Refs, holder'[r] = q,
               ~(pc'[q] = "append" /\ OpName(q)' = r)
        PROVE  /\ holder[r] = q /\ writes'[q][r] = writes[q][r]
               /\ ~(pc[q] = "append" /\ OpName(q) = r)
    BY <1>3, <2>1 DEF OthersStay
  <2> QED BY <1>1, <2>1 DEF PendingInv, LastSeen
<1>8. HistoryMatchesRefs'
  BY <1>1, SameTables
<1> QED BY <1>5, <1>6, <1>7, <1>8 DEF HistoryInv

(* Taking a row lock keeps the invariant. *)
LEMMA UpsertHistory ==
    ASSUME HistoryInv, TypeInv', NEW p \in Pushes, OthersStay(p), Upsert(p)
    PROVE  HistoryInv'
<1> DEFINE o == OpName(p)
<1>1. /\ LockInv /\ RowInv /\ PendingInv /\ HistoryMatchesRefs /\ TypeOK
      /\ refs' = refs /\ log' = log /\ committed' = committed
      /\ holder' = [holder EXCEPT ![o] = p]
      /\ writes' = [writes EXCEPT ![p][o] = Upd(p).new]
      /\ holder[o] \in {NoPush, p} /\ pc[p] = "upsert" /\ pc'[p] = "append"
      /\ OpName(p)' = o /\ Upd(p)' = Upd(p)
  BY DEF HistoryInv, TypeInv, Upsert, OpName, Upd, TypeOK
<1>2. o \in Refs /\ Upd(p).new \in Targets
  <2>1. item[p] <= Len(req[p].updates) /\ Upd(p).new # NoTarget
    BY <1>1 DEF HistoryInv, TypeInv, ItemInRange, ItemPCs, TargetPCs
  <2> QED BY <1>1, <2>1, UpdType
<1>3. /\ committed \subseteq Pushes
      /\ holder \in [Refs -> Pushes \cup {NoPush}]
      /\ writes \in [Pushes -> [Refs -> Targets \cup {NoTarget}]]
  BY <1>1 DEF TypeOK
<1> HIDE DEF o
<1>4. /\ holder'[o] = p /\ writes'[p][o] = Upd(p).new
      /\ \A r \in Refs \ {o} : holder'[r] = holder[r]
      /\ \A q \in Pushes, r \in Refs : q # p \/ r # o => writes'[q][r] = writes[q][r]
  BY <1>1, <1>2, <1>3
<1>5. LockInv'
  <2>1. ASSUME NEW q \in Pushes, NEW r \in Refs
        PROVE  /\ writes'[q][r] # NoTarget <=> holder'[r] = q
               /\ holder'[r] = q => pc'[q] \in TxPCs
    <3>1. CASE r = o
      BY <1>1, <1>2, <1>4, <3>1, RefStoreAssumption DEF LockInv, TxPCs
    <3>2. CASE r # o
      BY <1>1, <1>4, <3>2 DEF LockInv, TxPCs, OthersStay
    <3> QED BY <3>1, <3>2
  <2>2. ASSUME NEW q \in committed PROVE pc'[q] \in {"notify", "done"}
    BY <1>1, <1>3 DEF LockInv, OthersStay
  <2>3. ASSUME NEW q \in Pushes, pc'[q] = "append"
        PROVE  holder'[OpName(q)'] = q /\ writes'[q][OpName(q)'] = Upd(q)'.new
    <3>1. CASE q = p
      BY <1>1, <1>4, <3>1
    <3>2. CASE q # p
      <4>1. pc[q] = "append" /\ OpName(q)' = OpName(q) /\ Upd(q)' = Upd(q)
        BY <2>3, <3>2 DEF OthersStay
      <4>2. holder[OpName(q)] = q /\ writes[q][OpName(q)] = Upd(q).new
        BY <1>1, <4>1 DEF LockInv
      <4>3. OpName(q) \in Refs
        <5>1. item[q] <= Len(req[q].updates)
          BY <4>1 DEF HistoryInv, TypeInv, ItemInRange, ItemPCs
        <5> QED BY <1>1, <5>1, UpdType
      <4>4. OpName(q) # o
        BY <1>1, <3>2, <4>2, RefStoreAssumption
      <4> QED BY <1>4, <3>2, <4>1, <4>2, <4>3, <4>4
    <3> QED BY <3>1, <3>2
  <2> QED BY <1>1, <2>1, <2>2, <2>3 DEF LockInv
<1>6. RowInv'
  <2>1. ASSUME NEW i \in 1..Len(log)
        PROVE  /\ pc'[log[i].push] # "idle"
               /\ pc'[log[i].push] \in TxPCs => holder'[log[i].ref] = log[i].push
    <3>1. log[i].push \in Pushes /\ log[i].ref \in Refs
      BY <1>1, LogFacts
    <3>2. CASE log[i].push # p
      <4>1. /\ pc[log[i].push] # "idle" /\ pc'[log[i].push] = pc[log[i].push]
            /\ pc[log[i].push] \in TxPCs => holder[log[i].ref] = log[i].push
        BY <1>1, <3>1, <3>2 DEF RowInv, OthersStay
      <4>2. pc[log[i].push] \in TxPCs => log[i].ref # o
        BY <1>1, <3>1, <3>2, <4>1, RefStoreAssumption
      <4> QED BY <1>4, <3>1, <4>1, <4>2
    <3>3. CASE log[i].push = p
      <4>1. holder[log[i].ref] = p
        BY <1>1, <3>3 DEF RowInv, TxPCs
      <4> QED BY <1>1, <1>4, <3>1, <3>3, <4>1
    <3> QED BY <3>2, <3>3
  <2> QED BY <1>1, <2>1 DEF RowInv
<1>7. PendingInv'
  <2>1. ASSUME NEW q \in Pushes, NEW r \in Refs, holder'[r] = q,
               ~(pc'[q] = "append" /\ OpName(q)' = r)
        PROVE  /\ holder[r] = q /\ writes'[q][r] = writes[q][r]
               /\ ~(pc[q] = "append" /\ OpName(q) = r)
    <3>1. r # o
      BY <1>1, <1>4, <2>1
    <3> QED BY <1>1, <1>4, <2>1, <3>1 DEF OthersStay
  <2> QED BY <1>1, <2>1 DEF PendingInv, LastSeen
<1>8. HistoryMatchesRefs'
  BY <1>1, SameTables
<1> QED BY <1>5, <1>6, <1>7, <1>8 DEF HistoryInv

(* Inserting the history row makes the pending write the last row. *)
LEMMA AppendHistoryInv ==
    ASSUME HistoryInv, TypeInv', NEW p \in Pushes, OthersStay(p), AppendHistory(p)
    PROVE  HistoryInv'
<1> DEFINE o == OpName(p)
           n == Len(log) + 1
<1>1. /\ LockInv /\ RowInv /\ PendingInv /\ HistoryMatchesRefs /\ TypeOK
      /\ refs' = refs /\ committed' = committed /\ holder' = holder /\ writes' = writes
      /\ pc[p] = "append" /\ pc'[p] \in TxPCs \ {"append"}
  BY DEF HistoryInv, TypeInv, AppendHistory, TypeOK, TxPCs
<1>2. o \in Refs /\ holder[o] = p /\ writes[p][o] = Upd(p).new
  <2>1. item[p] <= Len(req[p].updates)
    BY <1>1 DEF HistoryInv, TypeInv, ItemInRange, ItemPCs
  <2> QED BY <1>1, <2>1, UpdType DEF LockInv
<1>3. /\ log \in Seq(Entry) /\ Len(log) \in Nat
      /\ log' = Append(log, [push |-> p, ref |-> o, old |-> RecordedOld(p),
                             new |-> Upd(p).new, parent |-> par[p],
                             force |-> OpForce(p)])
  BY <1>1, LogFacts DEF TypeOK, AppendHistory
<1>4. /\ Len(log') = n /\ \A i \in 1..Len(log) : log'[i] = log[i]
      /\ log'[n].push = p /\ log'[n].ref = o /\ log'[n].new = Upd(p).new
  BY <1>3
<1>5. p \notin committed /\ committed \subseteq Pushes
  BY <1>1 DEF LockInv, TypeOK
<1> HIDE DEF o
<1>6. LockInv'
  <2>1. ASSUME NEW q \in Pushes, NEW r \in Refs, holder[r] = q PROVE pc'[q] \in TxPCs
    BY <1>1, <2>1 DEF LockInv, OthersStay
  <2>2. ASSUME NEW q \in committed PROVE pc'[q] \in {"notify", "done"}
    BY <1>1, <1>5 DEF LockInv, OthersStay
  <2>3. ASSUME NEW q \in Pushes, pc'[q] = "append"
        PROVE  holder[OpName(q)'] = q /\ writes[q][OpName(q)'] = Upd(q)'.new
    BY <1>1, <2>3 DEF LockInv, OthersStay
  <2> QED BY <1>1, <2>1, <2>2, <2>3 DEF LockInv
<1>7. RowInv'
  <2>1. ASSUME NEW i \in 1..n
        PROVE  /\ pc'[log'[i].push] # "idle"
               /\ pc'[log'[i].push] \in TxPCs => holder[log'[i].ref] = log'[i].push
    <3>1. CASE i = n
      BY <1>1, <1>2, <1>4, <3>1 DEF TxPCs
    <3>2. CASE i \in 1..Len(log)
      <4>1. log'[i] = log[i] /\ log[i].push \in Pushes
        BY <1>1, <1>4, <3>2, LogFacts
      <4>2. /\ pc[log[i].push] # "idle"
            /\ pc[log[i].push] \in TxPCs => holder[log[i].ref] = log[i].push
        BY <1>1, <3>2 DEF RowInv
      <4> QED BY <1>1, <4>1, <4>2 DEF OthersStay, TxPCs
    <3> QED BY <1>3, <3>1, <3>2
  <2> QED BY <1>1, <1>4, <2>1 DEF RowInv
<1>8. PendingInv'
  <2>1. ASSUME NEW q \in Pushes, NEW r \in Refs, holder[r] = q,
               ~(pc'[q] = "append" /\ OpName(q)' = r)
        PROVE  \E i \in 1..n : LastSeen(i, q, r)' /\ log'[i].new = writes[q][r]
    <3>1. CASE r = o
      <4>1. q = p
        BY <1>2, <2>1, <3>1
      <4>2. PICK k \in 1..n : k = n
        BY <1>3
      <4>3. LastSeen(k, q, r)'
        BY <1>3, <1>4, <3>1, <4>1, <4>2 DEF LastSeen
      <4> QED BY <1>2, <1>3, <1>4, <3>1, <4>1, <4>2, <4>3
    <3>2. CASE r # o
      <4>1. ~(pc[q] = "append" /\ OpName(q) = r)
        BY <2>1, <3>2 DEF OthersStay, o
      <4>2. PICK i \in 1..Len(log) : LastSeen(i, q, r) /\ log[i].new = writes[q][r]
        BY <1>1, <2>1, <4>1 DEF PendingInv
      <4>3. LastSeen(i, q, r)'
        BY <1>1, <1>3, <1>4, <3>2, <4>2 DEF LastSeen
      <4> QED BY <1>3, <1>4, <4>2, <4>3
    <3> QED BY <3>1, <3>2
  <2> QED BY <1>1, <1>4, <2>1 DEF PendingInv
<1>9. HistoryMatchesRefs'
  <2>1. ASSUME NEW r \in Refs PROVE VisibleRows(r)' = VisibleRows(r)
    BY <1>1, <1>3, <1>4, <1>5 DEF VisibleRows, Visible
  <2>2. \A r \in Refs : \A i \in VisibleRows(r) : log'[i] = log[i]
    BY <1>4 DEF VisibleRows
  <2> QED BY <1>1, <2>1, <2>2 DEF HistoryMatchesRefs, IsLast
<1> QED BY <1>6, <1>7, <1>8, <1>9 DEF HistoryInv

(* Committing makes the pending writes and their rows visible together. *)
LEMMA CommitHistory ==
    ASSUME HistoryInv, TypeInv', NEW p \in Pushes, OthersStay(p), pc[p] = "commit",
           ApplyWrites(p), pc'[p] \in {"notify", "done"}
    PROVE  HistoryInv'
<1>1. /\ LockInv /\ RowInv /\ PendingInv /\ HistoryMatchesRefs /\ TypeOK
      /\ refs' = [r \in Refs |-> SeenTarget(p, r)]
      /\ log' = log /\ committed' = committed \cup {p}
      /\ holder' = [r \in Refs |-> IF holder[r] = p THEN NoPush ELSE holder[r]]
      /\ writes' = [writes EXCEPT ![p] = [r \in Refs |-> NoTarget]]
  BY DEF HistoryInv, TypeInv, ApplyWrites, EndTx
<1>2. /\ committed \subseteq Pushes
      /\ holder \in [Refs -> Pushes \cup {NoPush}]
      /\ writes \in [Pushes -> [Refs -> Targets \cup {NoTarget}]]
  BY <1>1 DEF TypeOK
<1>3. /\ \A q \in Pushes, r \in Refs : holder'[r] = q <=> holder[r] = q /\ q # p
      /\ \A q \in Pushes \ {p}, r \in Refs : writes'[q][r] = writes[q][r]
      /\ \A r \in Refs : writes'[p][r] = NoTarget
  BY <1>1, <1>2, RefStoreAssumption
<1>4. \A q \in Pushes : pc'[q] = "append" => q # p /\ OpName(q) \in Refs
  <2>1. ASSUME NEW q \in Pushes, pc'[q] = "append" PROVE q # p /\ OpName(q) \in Refs
    <3>1. q # p /\ pc[q] = "append"
      BY <2>1 DEF OthersStay
    <3>2. item[q] <= Len(req[q].updates)
      BY <3>1 DEF HistoryInv, TypeInv, ItemInRange, ItemPCs
    <3> QED BY <1>1, <3>1, <3>2, UpdType
  <2> QED BY <2>1
<1>5. LockInv'
  <2>1. ASSUME NEW q \in Pushes, NEW r \in Refs
        PROVE  /\ writes'[q][r] # NoTarget <=> holder'[r] = q
               /\ holder'[r] = q => pc'[q] \in TxPCs
    BY <1>1, <1>3 DEF LockInv, OthersStay
  <2>2. ASSUME NEW q \in committed \cup {p} PROVE pc'[q] \in {"notify", "done"}
    BY <1>1, <1>2 DEF LockInv, OthersStay
  <2>3. ASSUME NEW q \in Pushes, pc'[q] = "append"
        PROVE  holder'[OpName(q)'] = q /\ writes'[q][OpName(q)'] = Upd(q)'.new
    BY <1>1, <1>3, <1>4, <2>3 DEF LockInv, OthersStay
  <2> QED BY <1>1, <2>1, <2>2, <2>3 DEF LockInv
<1>6. RowInv'
  <2>1. ASSUME NEW i \in 1..Len(log)
        PROVE  /\ pc'[log[i].push] # "idle"
               /\ pc'[log[i].push] \in TxPCs => holder'[log[i].ref] = log[i].push
    <3>1. log[i].push \in Pushes /\ log[i].ref \in Refs
      BY <1>1, LogFacts
    <3>2. CASE log[i].push # p
      BY <1>1, <1>3, <3>1, <3>2 DEF RowInv, OthersStay
    <3>3. CASE log[i].push = p
      BY <3>3 DEF TxPCs
    <3> QED BY <3>2, <3>3
  <2> QED BY <1>1, <2>1 DEF RowInv
<1>7. \A i \in 1..Len(log) : log[i].push = p => holder[log[i].ref] = p
  BY <1>1 DEF RowInv, TxPCs
<1>8. PendingInv'
  <2>1. ASSUME NEW q \in Pushes, NEW r \in Refs, holder'[r] = q,
               ~(pc'[q] = "append" /\ OpName(q)' = r)
        PROVE  \E i \in 1..Len(log) : LastSeen(i, q, r)' /\ log[i].new = writes'[q][r]
    <3>1. holder[r] = q /\ q # p /\ writes'[q][r] = writes[q][r]
      BY <1>3, <2>1
    <3>2. PICK i \in 1..Len(log) : LastSeen(i, q, r) /\ log[i].new = writes[q][r]
      BY <1>1, <2>1, <3>1 DEF PendingInv, OthersStay
    <3>3. LastSeen(i, q, r)'
      BY <1>1, <1>7, <3>1, <3>2 DEF LastSeen
    <3> QED BY <3>1, <3>2, <3>3
  <2> QED BY <1>1, <2>1 DEF PendingInv
<1>9. HistoryMatchesRefs'
  <2>1. ASSUME NEW r \in Refs, holder[r] = p
        PROVE  \E i \in VisibleRows(r)' :
                   IsLast(i, VisibleRows(r)') /\ log'[i].new = refs'[r]
    <3>1. PICK i \in 1..Len(log) : LastSeen(i, p, r) /\ log[i].new = writes[p][r]
      BY <1>1, <2>1 DEF PendingInv
    <3>2. refs'[r] = writes[p][r]
      BY <1>1, <2>1 DEF LockInv, SeenTarget
    <3>3. i \in VisibleRows(r)' /\ \A j \in VisibleRows(r)' : j <= i
      BY <1>1, <3>1 DEF LastSeen, VisibleRows, Visible
    <3> QED BY <1>1, <3>1, <3>2, <3>3 DEF IsLast
  <2>2. ASSUME NEW r \in Refs, holder[r] # p
        PROVE  VisibleRows(r)' = VisibleRows(r) /\ refs'[r] = refs[r]
    <3>1. refs'[r] = refs[r]
      BY <1>1, <2>2 DEF LockInv, SeenTarget
    <3>2. VisibleRows(r)' = VisibleRows(r)
      BY <1>1, <1>7, <2>2 DEF VisibleRows, Visible
    <3> QED BY <3>1, <3>2
  <2>3. ASSUME NEW r \in Refs
        PROVE  IF VisibleRows(r)' = {} THEN refs'[r] = NoTarget
               ELSE \E i \in VisibleRows(r)' :
                        IsLast(i, VisibleRows(r)') /\ log'[i].new = refs'[r]
    <3>1. CASE holder[r] = p
      BY <2>1, <3>1
    <3>2. CASE holder[r] # p
      BY <1>1, <2>2, <3>2 DEF HistoryMatchesRefs
    <3> QED BY <3>1, <3>2
  <2> QED BY <2>3 DEF HistoryMatchesRefs, IsLast
<1> QED BY <1>5, <1>6, <1>8, <1>9 DEF HistoryInv

(* Every step keeps the invariant. *)
LEMMA NextHistoryInv == HistoryInv /\ [Next]_vars => HistoryInv'
<1> SUFFICES ASSUME HistoryInv, [Next]_vars PROVE HistoryInv'
  OBVIOUS
<1>t. TypeInv'
  BY NextTypeInv DEF HistoryInv
<1>p. ASSUME NEW p \in Pushes PROVE pc \in [Pushes -> TxPCs \cup {"idle", "notify", "done"}]
                                    /\ item \in [Pushes -> Nat \ {0}]
                                    /\ mainToo \in [Pushes -> BOOLEAN]
  BY DEF HistoryInv, TypeInv, TypeOK
<1>1. ASSUME NEW p \in Pushes, RefuseRequest(p) \/ BeginTx(p) \/ NotifyPushCI(p)
                               \/ AnswerOK(p) \/ CheckItem(p) \/ ReadParent(p)
                               \/ Reread(p)
      PROVE  HistoryInv'
  <2>1. UNCHANGED dbVars /\ OthersStay(p)
    BY <1>1, <1>p DEF RefuseRequest, BeginTx, NotifyPushCI, AnswerOK, CheckItem,
       ReadParent, Reread, NextItem, OthersStay, OpName, Upd
  <2>2. /\ pc[p] # "append" /\ pc'[p] # "append" /\ pc'[p] # "idle"
        /\ pc[p] \in TxPCs => pc'[p] \in TxPCs
        /\ pc[p] \in {"notify", "done"} => pc'[p] \in {"notify", "done"}
    BY <1>1, <1>p DEF RefuseRequest, BeginTx, NotifyPushCI, AnswerOK, CheckItem,
       ReadParent, Reread, NextItem, TxPCs
  <2> QED BY <1>t, <2>1, <2>2, LocalStepHistory
<1>2. ASSUME NEW p \in Pushes, ReadTarget(p) PROVE HistoryInv'
  <2>1. OthersStay(p)
    BY <1>2, <1>p DEF ReadTarget, NextItem, Rollback, OthersStay, OpName, Upd
  <2>2. CASE Rollback(p, "conflict")
    BY <1>t, <2>1, <2>2, RollbackHistory
  <2>3. CASE UNCHANGED dbVars /\ pc'[p] \in {"parent", "item", "commit"}
    <3>1. pc[p] = "target"
      BY <1>2 DEF ReadTarget
    <3> QED BY <1>t, <2>1, <2>3, <3>1, LocalStepHistory DEF TxPCs
  <2> QED BY <1>2, <1>p, <2>2, <2>3 DEF ReadTarget, NextItem
<1>3. ASSUME NEW p \in Pushes, Upsert(p) PROVE HistoryInv'
  <2>1. OthersStay(p)
    BY <1>3, <1>p DEF Upsert, OthersStay, OpName, Upd
  <2> QED BY <1>t, <1>3, <2>1, UpsertHistory
<1>4. ASSUME NEW p \in Pushes, AppendHistory(p) PROVE HistoryInv'
  <2>1. OthersStay(p)
    BY <1>4, <1>p DEF AppendHistory, OthersStay, OpName, Upd
  <2> QED BY <1>t, <1>4, <2>1, AppendHistoryInv
<1>5. ASSUME NEW p \in Pushes, Commit(p) \/ CommitUnacknowledged(p) PROVE HistoryInv'
  <2>1. OthersStay(p) /\ ApplyWrites(p) /\ pc[p] = "commit" /\ pc'[p] \in {"notify", "done"}
    BY <1>5, <1>p DEF Commit, CommitUnacknowledged, OthersStay, OpName, Upd
  <2> QED BY <1>t, <2>1, CommitHistory
<1>6. ASSUME NEW p \in Pushes, StatementFails(p) \/ DeadlockVictim(p) \/ Crash(p)
      PROVE  HistoryInv'
  <2>1. OthersStay(p)
    BY <1>6, <1>p DEF StatementFails, DeadlockVictim, Crash, Rollback, OthersStay,
       OpName, Upd
  <2>2. PICK a \in {"none", "error"} : Rollback(p, a)
    BY <1>6 DEF StatementFails, DeadlockVictim, Crash
  <2> QED BY <1>t, <2>1, <2>2, RollbackHistory
<1>7. CASE AllDone \/ UNCHANGED vars
  <2>1. UNCHANGED <<dbVars, handlerVars>>
    BY <1>7 DEF AllDone, vars
  <2>2. LockInv'
    BY <2>1 DEF dbVars, handlerVars, HistoryInv, LockInv, OpName, Upd
  <2>3. RowInv'
    BY <2>1 DEF dbVars, handlerVars, HistoryInv, RowInv
  <2>4. PendingInv'
    BY <2>1 DEF dbVars, handlerVars, HistoryInv, PendingInv, LastSeen, OpName, Upd
  <2>5. HistoryMatchesRefs'
    BY <2>1, SameTables DEF dbVars, HistoryInv
  <2> QED BY <1>t, <2>2, <2>3, <2>4, <2>5 DEF HistoryInv
<1> QED
  BY <1>1, <1>2, <1>3, <1>4, <1>5, <1>6, <1>7 DEF Next, HandlerStep, Failure

(* However transactions interleave, fail or die, a ref points to the new   *)
(* value of its last visible history row (postgres.go, PgSetRefFF and      *)
(* PgForceSetRef).                                                         *)
THEOREM HistoryAgrees == Spec => []HistoryMatchesRefs
<1>1. HistoryInv => HistoryMatchesRefs
  BY DEF HistoryInv
<1> QED BY <1>1, InitHistoryInv, NextHistoryInv, PTL DEF Spec
-----------------------------------------------------------------------------
(* The chain of parents.                                                   *)

(* What is committed stays committed, and no history row is ever changed   *)
(* or taken away.                                                          *)
HistoryGrows ==
    /\ committed \subseteq committed'
    /\ Len(log') \in Nat /\ Len(log) <= Len(log')
    /\ \A i \in 1..Len(log) : log'[i] = log[i]

(* A step leaves the history alone, or inserts one row.                    *)
LEMMA LogSteps ==
    ASSUME TypeOK, [Next]_vars
    PROVE  /\ committed \subseteq committed'
           /\ log' = log \/ \E p \in Pushes : AppendHistory(p)
<1>1. ASSUME NEW p \in Pushes, HandlerStep(p), ~AppendHistory(p)
      PROVE  committed \subseteq committed' /\ log' = log
  BY <1>1 DEF HandlerStep, RefuseRequest, BeginTx, CheckItem, ReadTarget, ReadParent,
     Upsert, Reread, Commit, ApplyWrites, NotifyPushCI, AnswerOK, Rollback, dbVars
<1>2. ASSUME NEW p \in Pushes, Failure(p) \/ DeadlockVictim(p)
      PROVE  committed \subseteq committed' /\ log' = log
  BY <1>2 DEF Failure, CommitUnacknowledged, ApplyWrites, StatementFails, Crash,
     DeadlockVictim, Rollback
<1>3. ASSUME NEW p \in Pushes, AppendHistory(p) PROVE committed \subseteq committed'
  BY <1>3 DEF AppendHistory
<1>4. CASE AllDone \/ UNCHANGED vars
  BY <1>4 DEF AllDone, vars, dbVars
<1> QED BY <1>1, <1>2, <1>3, <1>4 DEF Next

(* The row that AppendHistory inserts. *)
LEMMA NewRow ==
    ASSUME TypeOK, NEW p \in Pushes, AppendHistory(p)
    PROVE  /\ Len(log') = Len(log) + 1
           /\ \A i \in 1..Len(log) : log'[i] = log[i]
           /\ log'[Len(log) + 1] =
                [push |-> p, ref |-> OpName(p), old |-> RecordedOld(p),
                 new |-> Upd(p).new, parent |-> par[p], force |-> OpForce(p)]
<1>1. log \in Seq(Entry)
  BY DEF TypeOK
<1>2. log' = Append(log, [push |-> p, ref |-> OpName(p), old |-> RecordedOld(p),
                          new |-> Upd(p).new, parent |-> par[p], force |-> OpForce(p)])
  BY DEF AppendHistory
<1> QED BY <1>1, <1>2

(* Every step lets the history grow. *)
LEMMA StepsGrowHistory ==
    ASSUME TypeOK, [Next]_vars PROVE HistoryGrows
<1>1. committed \subseteq committed' /\ Len(log) \in Nat
  BY LogSteps, LogFacts
<1>2. CASE log' = log
  BY <1>1, <1>2 DEF HistoryGrows
<1>3. ASSUME NEW p \in Pushes, AppendHistory(p) PROVE HistoryGrows
  <2>1. Len(log') = Len(log) + 1 /\ \A i \in 1..Len(log) : log'[i] = log[i]
    BY <1>3, NewRow
  <2> QED BY <1>1, <2>1 DEF HistoryGrows
<1> QED BY <1>2, <1>3, LogSteps

(* A row's parent is an earlier row of its ref, visible as soon as the row *)
(* is, and so is the parent a handler has read and not yet recorded.       *)
ParentInv ==
    /\ \A i \in 1..Len(log) : log[i].parent # 0 =>
           /\ log[i].parent \in 1..(i - 1)
           /\ log[log[i].parent].ref = log[i].ref
           /\ log[log[i].parent].push \in committed \cup {log[i].push}
    /\ \A p \in Pushes : pc[p] \in {"upsert", "append"} /\ par[p] # 0 =>
           par[p] \in SeenRows(p, OpName(p))

(* What a handler has seen stays in its sight. *)
LEMMA SeenRowsGrow ==
    ASSUME TypeOK, HistoryGrows, NEW p \in Pushes, NEW r \in Refs
    PROVE  SeenRows(p, r) \subseteq SeenRows(p, r)'
<1>1. Len(log) \in Nat
  BY LogFacts
<1> QED BY <1>1 DEF SeenRows, HistoryGrows

(* A handler that is about to insert a row is on its way there since       *)
(* ReadParent, in whose state it saw the parent.                           *)
LEMMA ParentSteps ==
    ASSUME TypeOK, [Next]_vars, NEW q \in Pushes, pc'[q] \in {"upsert", "append"}
    PROVE  /\ OpName(q)' = OpName(q)
           /\ \/ pc[q] \in {"upsert", "append"} /\ par'[q] = par[q]
              \/ pc[q] = "parent" /\ par'[q] = Last(SeenRows(q, OpName(q)))
<1>t. /\ pc \in [Pushes -> TxPCs \cup {"idle", "notify", "done"}]
      /\ item \in [Pushes -> Nat \ {0}] /\ mainToo \in [Pushes -> BOOLEAN]
      /\ par \in [Pushes -> Nat]
  BY DEF TypeOK
<1>1. ASSUME NEW p \in Pushes,
             RefuseRequest(p) \/ BeginTx(p) \/ CheckItem(p) \/ ReadTarget(p)
             \/ AppendHistory(p) \/ Reread(p) \/ Commit(p) \/ AnswerOK(p)
             \/ DeadlockVictim(p) \/ Failure(p)
      PROVE  pc[q] \in {"upsert", "append"} /\ par'[q] = par[q] /\ OpName(q)' = OpName(q)
  <2>1. q # p
    BY <1>1, <1>t DEF RefuseRequest, BeginTx, CheckItem, ReadTarget, AppendHistory, Reread,
       Commit, AnswerOK, DeadlockVictim, Failure, CommitUnacknowledged, StatementFails,
       Crash, Rollback, NextItem
  <2> QED
    BY <1>1, <1>t, <2>1 DEF RefuseRequest, BeginTx, CheckItem, ReadTarget, AppendHistory,
       Reread, Commit, AnswerOK, DeadlockVictim, Failure, CommitUnacknowledged,
       StatementFails, Crash, Rollback, NextItem, OpName, Upd
<1>2. ASSUME NEW p \in Pushes, ReadParent(p)
      PROVE  /\ OpName(q)' = OpName(q)
             /\ \/ pc[q] \in {"upsert", "append"} /\ par'[q] = par[q]
                \/ pc[q] = "parent" /\ par'[q] = Last(SeenRows(q, OpName(q)))
  BY <1>2, <1>t DEF ReadParent, OpName, Upd
<1>3. ASSUME NEW p \in Pushes, Upsert(p) \/ NotifyPushCI(p)
      PROVE  pc[q] \in {"upsert", "append"} /\ par'[q] = par[q] /\ OpName(q)' = OpName(q)
  BY <1>3, <1>t DEF Upsert, NotifyPushCI, OpName, Upd
<1>4. CASE AllDone \/ UNCHANGED vars
  BY <1>4 DEF AllDone, vars, handlerVars, OpName, Upd
<1> QED BY <1>1, <1>2, <1>3, <1>4 DEF Next, HandlerStep

(* Every step keeps the chain. *)
LEMMA NextParentInv == TypeInv /\ ParentInv /\ [Next]_vars => ParentInv'
<1> SUFFICES ASSUME TypeInv, ParentInv, [Next]_vars PROVE ParentInv'
  OBVIOUS
<1>1. TypeOK /\ HistoryGrows /\ Len(log) \in Nat
  BY StepsGrowHistory, LogFacts DEF TypeInv
<1>2. ASSUME NEW q \in Pushes, pc'[q] \in {"upsert", "append"}, par'[q] # 0
      PROVE  par'[q] \in SeenRows(q, OpName(q))'
  <2>1. pc[q] \in {"parent", "upsert", "append"} /\ OpName(q)' = OpName(q)
    BY <1>1, <1>2, ParentSteps
  <2>2. OpName(q) \in Refs
    <3>1. item[q] <= Len(req[q].updates)
      BY <2>1 DEF TypeInv, ItemInRange, ItemPCs
    <3> QED BY <1>1, <3>1, UpdType
  <2>3. par'[q] \in SeenRows(q, OpName(q))
    <3>1. CASE pc[q] \in {"upsert", "append"} /\ par'[q] = par[q]
      BY <1>2, <3>1 DEF ParentInv
    <3>2. CASE par'[q] = Last(SeenRows(q, OpName(q)))
      <4>1. SeenRows(q, OpName(q)) \in SUBSET (1..Len(log))
        BY DEF SeenRows
      <4> QED BY <1>1, <1>2, <3>2, <4>1, LastIsGreatest
    <3> QED BY <1>1, <1>2, <3>1, <3>2, ParentSteps
  <2>4. par'[q] \in SeenRows(q, OpName(q))'
    <3>1. SeenRows(q, OpName(q)) \subseteq
             {i \in 1..Len(log') : log'[i].ref = OpName(q)
                                   /\ log'[i].push \in committed' \cup {q}}
      BY <1>1, <2>2 DEF SeenRows, HistoryGrows
    <3> QED BY <2>1, <2>3, <3>1 DEF SeenRows
  <2> QED BY <2>4
<1>3. ASSUME NEW i \in 1..Len(log), log[i].parent # 0
      PROVE  /\ log'[i].parent \in 1..(i - 1)
             /\ log'[log'[i].parent].ref = log'[i].ref
             /\ log'[log'[i].parent].push \in committed' \cup {log'[i].push}
  <2>1. /\ log[i].parent \in 1..(i - 1)
        /\ log[log[i].parent].ref = log[i].ref
        /\ log[log[i].parent].push \in committed \cup {log[i].push}
    BY <1>3 DEF ParentInv
  <2>2. log[i].parent \in 1..Len(log)
    BY <1>1, <2>1
  <2> QED BY <1>1, <2>1, <2>2 DEF HistoryGrows
<1>4. CASE log' = log
  BY <1>2, <1>3, <1>4 DEF ParentInv
<1>5. ASSUME NEW p \in Pushes, AppendHistory(p) PROVE ParentInv'
  <2> DEFINE n == Len(log) + 1
  <2>1. /\ Len(log') = n /\ \A i \in 1..Len(log) : log'[i] = log[i]
        /\ log'[n].push = p /\ log'[n].ref = OpName(p) /\ log'[n].parent = par[p]
    <3>1. /\ Len(log') = n /\ \A i \in 1..Len(log) : log'[i] = log[i]
          /\ log'[n] = [push |-> p, ref |-> OpName(p), old |-> RecordedOld(p),
                        new |-> Upd(p).new, parent |-> par[p], force |-> OpForce(p)]
      BY <1>1, <1>5, NewRow
    <3> QED BY <3>1
  <2>2. pc[p] = "append" /\ committed \subseteq committed'
    BY <1>1, <1>5 DEF AppendHistory, HistoryGrows
  <2>3. ASSUME par[p] # 0
        PROVE  /\ par[p] \in 1..(n - 1)
               /\ log'[par[p]].ref = log'[n].ref
               /\ log'[par[p]].push \in committed' \cup {p}
    <3>1. par[p] \in SeenRows(p, OpName(p))
      BY <2>2, <2>3 DEF ParentInv
    <3> QED BY <1>1, <2>1, <2>2, <3>1 DEF SeenRows
  <2>4. ASSUME NEW i \in 1..n, log'[i].parent # 0
        PROVE  /\ log'[i].parent \in 1..(i - 1)
               /\ log'[log'[i].parent].ref = log'[i].ref
               /\ log'[log'[i].parent].push \in committed' \cup {log'[i].push}
    <3>1. CASE i = n
      BY <2>1, <2>3, <2>4, <3>1
    <3>2. CASE i \in 1..Len(log)
      BY <1>3, <2>1, <2>4, <3>2
    <3> QED BY <1>1, <3>1, <3>2
  <2> QED BY <1>2, <2>1, <2>4 DEF ParentInv
<1> QED BY <1>1, <1>4, <1>5, LogSteps

(* The chain of parents that a client follows from a visible row never     *)
(* leaves the visible rows of its ref, and goes back in time (postgres.go, *)
(* PgSetRefFF and PgForceSetRef).                                          *)
THEOREM ParentsAlwaysResolve == Spec => []ParentsResolve
<1>1. Init => ParentInv
  BY DEF Init, ParentInv
<1>2. ParentInv /\ TypeInv => ParentsResolve
  <2> SUFFICES ASSUME ParentInv, TypeInv, NEW i \in 1..Len(log), Visible(i),
                      log[i].parent # 0
               PROVE  /\ log[i].parent < i
                      /\ log[log[i].parent].ref = log[i].ref
                      /\ Visible(log[i].parent)
    BY DEF ParentsResolve
  <2> QED BY LogFacts DEF ParentInv, Visible, TypeInv
<1> QED BY <1>1, <1>2, InitTypeInv, NextTypeInv, NextParentInv, PTL DEF Spec

-----------------------------------------------------------------------------
(* What is answered and what is notified.                                  *)

(* Push p has inserted a row that gives r the target t; and the rows that  *)
(* its update u stands for.                                                *)
HasRow(p, r, t) == \E i \in RowsOf(p, r) : log[i].new = t
HasRowsFor(p, u) == /\ HasRow(p, u.name, u.new)
                    /\ IsBatch(p) /\ u.name = Latest => HasRow(p, Main, u.new)

(* A single update never leaves the first item, and its row is there when  *)
(* its transaction is to be committed.                                     *)
SingleInv(p) ==
    ~IsBatch(p) =>
        /\ item[p] = 1 /\ ~mainToo[p] /\ pc[p] \notin {"item", "reread"}
        /\ pc[p] \in {"commit", "notify"} \/ answer[p] = "ok" =>
               HasRowsFor(p, req[p].updates[1])

(* A batch that is at the snap.main of an update has the row of            *)
(* snap.latest, one that re-reads a ref has all rows of the update, and so *)
(* it has for the updates whose success is recorded.                       *)
BatchInv(p) ==
    /\ pc[p] \in {"idle", "item"} => ~mainToo[p]
    /\ pc[p] \in TargetPCs /\ mainToo[p] =>
           Upd(p).name = Latest /\ HasRow(p, Latest, Upd(p).new)
    /\ pc[p] = "reread" => HasRowsFor(p, Upd(p))
    /\ \A k \in okItems[p] :
           k \in 1..Len(req[p].updates) /\ HasRowsFor(p, req[p].updates[k])

(* An answer is given once, after the commit if it is a success.           *)
AnswerInv(p) ==
    /\ p \in committed => pc[p] \in {"notify", "done"}
    /\ pc[p] = "notify" => p \in committed
    /\ answer[p] # "none" => pc[p] = "done"
    /\ answer[p] = "ok" => p \in committed
    /\ answer[p] \in {"conflict", "bad"} => p \notin committed

PushInv(p)  == SingleInv(p) /\ BatchInv(p) /\ AnswerInv(p)
DurableInv  == \A p \in Pushes : PushInv(p)

(* Rows stay, so what a push has it keeps. *)
LEMMA RowsStay ==
    ASSUME TypeOK, HistoryGrows, req' = req, NEW p, NEW r, NEW t, HasRow(p, r, t)
    PROVE  HasRow(p, r, t)'
<1>1. PICK i \in 1..Len(log) : log[i].push = p /\ log[i].ref = r /\ log[i].new = t
  BY DEF HasRow, RowsOf
<1>2. i \in 1..Len(log') /\ log'[i] = log[i]
  BY LogFacts DEF HistoryGrows
<1> QED BY <1>1, <1>2 DEF HasRow, RowsOf

LEMMA RowsForStay ==
    ASSUME TypeOK, HistoryGrows, req' = req, NEW p, NEW u, HasRowsFor(p, u)
    PROVE  HasRowsFor(p, u)'
BY RowsStay DEF HasRowsFor, IsBatch

(* A push that does not move keeps its part of the invariant. *)
LEMMA OthersDurable ==
    ASSUME TypeOK, HistoryGrows, req' = req, NEW q \in Pushes, PushInv(q),
           pc'[q] = pc[q], item'[q] = item[q], mainToo'[q] = mainToo[q],
           okItems'[q] = okItems[q], answer'[q] = answer[q],
           q \in committed' <=> q \in committed
    PROVE  PushInv(q)'
<1>1. SingleInv(q)'
  BY RowsForStay DEF PushInv, SingleInv, IsBatch
<1>2. BatchInv(q)'
  <2>1. Upd(q)' = Upd(q)
    BY DEF Upd
  <2>2. ASSUME NEW k \in okItems[q]
        PROVE  k \in 1..Len(req[q].updates) /\ HasRowsFor(q, req[q].updates[k])'
    BY RowsForStay DEF PushInv, BatchInv
  <2>3. pc[q] = "reread" => HasRowsFor(q, Upd(q))'
    BY <2>1, RowsForStay DEF PushInv, BatchInv
  <2>4. pc[q] \in TargetPCs /\ mainToo[q] =>
            Upd(q)'.name = Latest /\ HasRow(q, Latest, Upd(q).new)'
    BY <2>1, RowsStay DEF PushInv, BatchInv
  <2>5. pc[q] \in {"idle", "item"} => ~mainToo[q]
    BY DEF PushInv, BatchInv
  <2> QED
    BY <2>1, <2>2, <2>3, <2>4, <2>5 DEF BatchInv, HasRowsFor, HasRow, RowsOf, IsBatch
<1>3. AnswerInv(q)'
  BY DEF PushInv, AnswerInv
<1> QED BY <1>1, <1>2, <1>3 DEF PushInv

(* The steps of push p leave the other pushes where they are. *)
LEMMA StepsAreLocal ==
    ASSUME TypeOK, NEW p \in Pushes, NEW q \in Pushes, q # p,
           HandlerStep(p) \/ DeadlockVictim(p) \/ Failure(p)
    PROVE  /\ pc'[q] = pc[q] /\ item'[q] = item[q] /\ mainToo'[q] = mainToo[q]
           /\ okItems'[q] = okItems[q] /\ answer'[q] = answer[q]
           /\ q \in committed' <=> q \in committed
<1> USE DEF TypeOK
<1>1. CASE RefuseRequest(p) \/ BeginTx(p) \/ CheckItem(p) \/ ReadParent(p) \/ Upsert(p)
           \/ AppendHistory(p) \/ Reread(p) \/ NotifyPushCI(p) \/ AnswerOK(p)
  BY <1>1 DEF RefuseRequest, BeginTx, CheckItem, ReadParent, Upsert, AppendHistory,
     Reread, NotifyPushCI, AnswerOK, NextItem, dbVars
<1>2. CASE ReadTarget(p)
  <2>1. UNCHANGED <<committed, okItems>>
    BY <1>2 DEF ReadTarget, Rollback, dbVars
  <2>2. CASE pc' = [pc EXCEPT ![p] = "parent"] /\ UNCHANGED <<item, mainToo, answer>>
    BY <2>1, <2>2
  <2>3. CASE NextItem(p) /\ UNCHANGED answer
    BY <2>1, <2>3 DEF NextItem
  <2>4. CASE Rollback(p, "conflict") /\ UNCHANGED <<item, mainToo>>
    BY <2>1, <2>4 DEF Rollback
  <2> QED BY <1>2, <2>2, <2>3, <2>4 DEF ReadTarget
<1>3. CASE DeadlockVictim(p) \/ StatementFails(p) \/ Crash(p)
  BY <1>3 DEF DeadlockVictim, StatementFails, Crash, Rollback
<1>4. CASE Commit(p) \/ CommitUnacknowledged(p)
  BY <1>4 DEF Commit, CommitUnacknowledged, ApplyWrites
<1> QED BY <1>1, <1>2, <1>3, <1>4 DEF HandlerStep, Failure

(* The end of a transaction without a commit: no success is answered. *)
LEMMA RollbackDurable ==
    ASSUME TypeOK, HistoryGrows, NEW p \in Pushes, PushInv(p),
           NEW a \in {"none", "conflict", "error"}, Rollback(p, a),
           a = "conflict" => p \notin committed,
           UNCHANGED <<req, item, mainToo, okItems>>
    PROVE  PushInv(p)'
<1>1. /\ pc'[p] = "done" /\ answer'[p] = a /\ committed' = committed
      /\ req' = req /\ item'[p] = item[p] /\ mainToo'[p] = mainToo[p]
      /\ okItems'[p] = okItems[p]
  BY DEF TypeOK, Rollback
<1>2. SingleInv(p)'
  BY <1>1 DEF PushInv, SingleInv, IsBatch
<1>3. BatchInv(p)'
  BY <1>1, RowsForStay DEF PushInv, BatchInv, TargetPCs
<1>4. AnswerInv(p)'
  BY <1>1 DEF PushInv, AnswerInv
<1> QED BY <1>2, <1>3, <1>4 DEF PushInv

(* Steps before the commit that record no success and insert no row. *)
LEMMA QuietDurable ==
    ASSUME TypeOK, HistoryGrows, NEW p \in Pushes, PushInv(p),
           UNCHANGED <<req, committed, answer, okItems>>,
           pc[p] \notin {"notify", "done"},
           pc'[p] \notin {"notify", "done", "reread"},
           pc'[p] \in TargetPCs /\ mainToo'[p] =>
               pc[p] \in TargetPCs /\ mainToo[p] /\ item'[p] = item[p],
           pc'[p] \in {"idle", "item"} => ~mainToo'[p],
           ~IsBatch(p) => /\ pc'[p] \notin {"item", "commit"}
                          /\ item'[p] = item[p] /\ ~mainToo'[p]
    PROVE  PushInv(p)'
<1>1. p \notin committed /\ answer[p] = "none"
  BY DEF PushInv, AnswerInv
<1>2. SingleInv(p)'
  BY <1>1 DEF PushInv, SingleInv, IsBatch
<1>3. BatchInv(p)'
  <2>1. ASSUME NEW k \in okItems[p]
        PROVE  k \in 1..Len(req[p].updates) /\ HasRowsFor(p, req[p].updates[k])'
    BY RowsForStay DEF PushInv, BatchInv
  <2>2. ASSUME pc'[p] \in TargetPCs, mainToo'[p]
        PROVE  Upd(p)'.name = Latest /\ HasRow(p, Latest, Upd(p).new)'
    <3>1. Upd(p)' = Upd(p) /\ Upd(p).name = Latest /\ HasRow(p, Latest, Upd(p).new)
      BY <2>2 DEF PushInv, BatchInv, Upd
    <3> QED BY <3>1, RowsStay
  <2> QED BY <2>1, <2>2 DEF BatchInv, HasRowsFor, HasRow, RowsOf, IsBatch
<1>4. AnswerInv(p)'
  BY <1>1 DEF PushInv, AnswerInv
<1> QED BY <1>2, <1>3, <1>4 DEF PushInv

(* The inserted row is the one the invariant asks for next. *)
LEMMA AppendDurable ==
    ASSUME TypeInv, HistoryGrows, NEW p \in Pushes, PushInv(p), AppendHistory(p)
    PROVE  PushInv(p)'
<1>1. /\ pc[p] = "append" /\ UNCHANGED <<req, committed, answer, okItems, item>>
      /\ TypeOK /\ Len(log) \in Nat
      /\ p \notin committed /\ answer[p] = "none"
  BY LogFacts DEF TypeInv, AppendHistory, PushInv, AnswerInv
<1>2. Upd(p)' = Upd(p)
  BY <1>1 DEF Upd
<1>o. PICK o \in Refs : o = OpName(p)
  <2>1. item[p] <= Len(req[p].updates)
    BY <1>1 DEF TypeInv, ItemInRange, ItemPCs
  <2> QED BY <1>1, <2>1, UpdType
<1>3. HasRow(p, o, Upd(p).new)'
  <2>1. /\ Len(log') = Len(log) + 1
        /\ log'[Len(log) + 1] =
             [push |-> p, ref |-> OpName(p), old |-> RecordedOld(p),
              new |-> Upd(p).new, parent |-> par[p], force |-> OpForce(p)]
    BY <1>1, NewRow
  <2>2. \E i \in 1..Len(log') : log'[i].push = p /\ log'[i].ref = o
                                /\ log'[i].new = Upd(p).new
    BY <1>o, <1>1, <2>1
  <2> QED BY <1>2, <2>2 DEF HasRow, RowsOf
<1>4. IsBatch(p)' <=> IsBatch(p)
  BY <1>1 DEF IsBatch
<1>5. \A k \in okItems[p] :
          k \in 1..Len(req[p].updates) /\ HasRowsFor(p, req[p].updates[k])'
  BY <1>1, RowsForStay DEF PushInv, BatchInv
<1>6. CASE ~IsBatch(p)
  <2>1. item[p] = 1 /\ ~mainToo[p] /\ OpName(p) = Upd(p).name
    BY <1>6 DEF PushInv, SingleInv, OpName
  <2>2. pc'[p] = "commit" /\ ~mainToo'[p]
    BY <1>6 DEF AppendHistory, TypeInv, TypeOK
  <2>3. HasRow(p, Upd(p).name, Upd(p).new)'
    <3>1. o = Upd(p).name
      BY <1>o, <2>1
    <3> QED BY <1>2, <1>3, <3>1
  <2>4. SingleInv(p)'
    BY <1>1, <1>4, <1>6, <2>1, <2>2, <2>3 DEF SingleInv, HasRowsFor, Upd
  <2>5. BatchInv(p)'
    BY <1>1, <1>5, <2>2 DEF BatchInv, TargetPCs
  <2>6. AnswerInv(p)'
    BY <1>1, <2>2 DEF AnswerInv
  <2> QED BY <2>4, <2>5, <2>6 DEF PushInv
<1>7. CASE IsBatch(p) /\ OpName(p) = Latest
  <2>1. ~mainToo[p] /\ Upd(p).name = Latest
    BY <1>7, RefStoreAssumption DEF OpName
  <2>2. pc'[p] = "target"
    BY <1>7 DEF AppendHistory, TypeInv, TypeOK
  <2>3. HasRow(p, Latest, Upd(p).new)'
    <3>1. o = Latest
      BY <1>o, <1>7
    <3> QED BY <1>3, <3>1
  <2>4. SingleInv(p)'
    BY <1>4, <1>7 DEF SingleInv
  <2>5. BatchInv(p)'
    BY <1>1, <1>2, <1>5, <2>1, <2>2, <2>3 DEF BatchInv
  <2>6. AnswerInv(p)'
    BY <1>1, <2>2 DEF AnswerInv
  <2> QED BY <2>4, <2>5, <2>6 DEF PushInv
<1>8. CASE IsBatch(p) /\ OpName(p) # Latest
  <2>1. pc'[p] = "reread" /\ ~mainToo'[p]
    BY <1>8 DEF AppendHistory, TypeInv, TypeOK
  <2>2. HasRowsFor(p, Upd(p))'
    <3>1. CASE mainToo[p]
      <4>1. Upd(p).name = Latest /\ HasRow(p, Latest, Upd(p).new) /\ OpName(p) = Main
        BY <1>1, <3>1 DEF PushInv, BatchInv, TargetPCs, OpName
      <4>2. HasRow(p, Latest, Upd(p).new)'
        BY <1>1, <1>2, <4>1, RowsStay
      <4>3. HasRow(p, Main, Upd(p).new)'
        <5>1. o = Main
          BY <1>o, <4>1
        <5> QED BY <1>3, <5>1
      <4> QED BY <1>2, <4>1, <4>2, <4>3 DEF HasRowsFor
    <3>2. CASE ~mainToo[p]
      <4>1. OpName(p) = Upd(p).name /\ Upd(p).name # Latest
        BY <1>8, <3>2 DEF OpName
      <4>2. HasRow(p, Upd(p).name, Upd(p).new)'
        <5>1. o = Upd(p).name
          BY <1>o, <4>1
        <5> QED BY <1>2, <1>3, <5>1
      <4> QED BY <1>2, <4>1, <4>2 DEF HasRowsFor
    <3> QED BY <3>1, <3>2
  <2>3. SingleInv(p)'
    BY <1>4, <1>8 DEF SingleInv
  <2>4. BatchInv(p)'
    BY <1>1, <1>2, <1>5, <2>1, <2>2 DEF BatchInv, TargetPCs
  <2>5. AnswerInv(p)'
    BY <1>1, <2>1 DEF AnswerInv
  <2> QED BY <2>3, <2>4, <2>5 DEF PushInv
<1> QED BY <1>6, <1>7, <1>8

(* A step of push p keeps its part of the invariant. *)
LEMMA OwnDurable ==
    ASSUME TypeInv, HistoryGrows, NEW p \in Pushes, PushInv(p),
           HandlerStep(p) \/ DeadlockVictim(p) \/ Failure(p)
    PROVE  PushInv(p)'
<1>t. /\ TypeOK /\ HistoryGrows
      /\ pc \in [Pushes -> TxPCs \cup {"idle", "notify", "done"}]
      /\ item \in [Pushes -> Nat \ {0}] /\ mainToo \in [Pushes -> BOOLEAN]
      /\ okItems \in [Pushes -> SUBSET Nat]
      /\ answer \in [Pushes -> {"none", "ok", "bad", "conflict", "error"}]
  BY DEF TypeInv, TypeOK
<1>1. CASE RefuseRequest(p)
  <2>1. /\ pc[p] = "idle" /\ pc'[p] = "done" /\ answer'[p] = "bad"
        /\ UNCHANGED <<committed, req, item, mainToo, okItems>>
    BY <1>1, <1>t DEF RefuseRequest, dbVars
  <2>2. SingleInv(p)'
    BY <2>1 DEF PushInv, SingleInv, IsBatch
  <2>3. BatchInv(p)'
    BY <1>t, <2>1, RowsForStay DEF PushInv, BatchInv, TargetPCs
  <2>4. AnswerInv(p)'
    BY <2>1 DEF PushInv, AnswerInv
  <2> QED BY <2>2, <2>3, <2>4 DEF PushInv
<1>2. CASE BeginTx(p) \/ ReadParent(p) \/ Upsert(p)
  <2>1. /\ UNCHANGED <<req, committed, answer, okItems, item, mainToo>>
        /\ \/ pc[p] = "idle" /\ pc'[p] = IF IsBatch(p) THEN "item" ELSE "target"
           \/ pc[p] = "parent" /\ pc'[p] = "upsert"
           \/ pc[p] = "upsert" /\ pc'[p] = "append"
    BY <1>2, <1>t DEF BeginTx, ReadParent, Upsert, dbVars
  <2>2. ~IsBatch(p) => ~mainToo[p] /\ pc'[p] \notin {"item", "commit"}
    BY <2>1 DEF PushInv, SingleInv
  <2>3. /\ pc'[p] \in TargetPCs /\ mainToo'[p] => pc[p] \in TargetPCs /\ mainToo[p]
        /\ pc'[p] \in {"idle", "item"} => ~mainToo'[p]
    BY <2>1, <2>2 DEF TargetPCs, PushInv, BatchInv
  <2>4. pc[p] \notin {"notify", "done"} /\ pc'[p] \notin {"notify", "done", "reread"}
    BY <2>1
  <2> QED BY <1>t, <2>1, <2>2, <2>3, <2>4, QuietDurable
<1>3. CASE CheckItem(p)
  <2>1. pc[p] = "item" /\ IsBatch(p) /\ UNCHANGED <<req, committed, answer, okItems>>
    BY <1>3 DEF CheckItem, PushInv, SingleInv, dbVars
  <2>2. \/ pc'[p] \in {"item", "commit"} /\ ~mainToo'[p]
        \/ pc'[p] = "target" /\ mainToo'[p] = mainToo[p]
    BY <1>3, <1>t DEF CheckItem, NextItem
  <2>3. ~mainToo[p]
    BY <2>1 DEF PushInv, BatchInv
  <2> QED BY <1>t, <2>1, <2>2, <2>3, QuietDurable DEF TargetPCs
<1>4. CASE ReadTarget(p)
  <2>1. pc[p] = "target" /\ UNCHANGED <<req, okItems>>
    BY <1>4 DEF ReadTarget
  <2>2. p \notin committed
    BY <2>1 DEF PushInv, AnswerInv
  <2>3. CASE pc' = [pc EXCEPT ![p] = "parent"] /\ UNCHANGED <<dbVars, item, mainToo, answer>>
    <3>1. pc'[p] = "parent" /\ UNCHANGED <<req, committed, answer, okItems, item, mainToo>>
      BY <1>t, <2>1, <2>3 DEF dbVars
    <3>2. ~IsBatch(p) => ~mainToo[p]
      BY DEF PushInv, SingleInv
    <3> QED BY <1>t, <2>1, <3>1, <3>2, QuietDurable DEF TargetPCs
  <2>4. CASE IsBatch(p) /\ NextItem(p) /\ UNCHANGED <<dbVars, answer>>
    <3>1. /\ pc'[p] \in {"item", "commit"} /\ ~mainToo'[p]
          /\ UNCHANGED <<req, committed, answer, okItems>>
      BY <1>t, <2>1, <2>4 DEF NextItem, dbVars
    <3> QED BY <1>t, <2>1, <2>4, <3>1, QuietDurable DEF TargetPCs
  <2>5. CASE Rollback(p, "conflict") /\ UNCHANGED <<item, mainToo>>
    BY <1>t, <2>1, <2>2, <2>5, RollbackDurable
  <2> QED BY <1>4, <2>3, <2>4, <2>5 DEF ReadTarget
<1>5. CASE AppendHistory(p)
  BY <1>5, AppendDurable
<1>6. CASE Reread(p)
  <2>1. /\ pc[p] = "reread" /\ IsBatch(p) /\ UNCHANGED <<req, committed, answer>>
        /\ okItems'[p] = okItems[p] \cup {item[p]}
        /\ pc'[p] \in {"item", "commit"} /\ ~mainToo'[p]
    BY <1>6, <1>t DEF Reread, NextItem, PushInv, SingleInv, dbVars
  <2>2. item[p] \in 1..Len(req[p].updates)
    BY <1>t, <2>1, UpdLen DEF TypeInv, ItemInRange, ItemPCs
  <2>3. HasRowsFor(p, req[p].updates[item[p]])
    BY <2>1 DEF PushInv, BatchInv, Upd
  <2>4. \A k \in okItems'[p] :
            k \in 1..Len(req[p].updates) /\ HasRowsFor(p, req[p].updates[k])
    BY <2>1, <2>2, <2>3 DEF PushInv, BatchInv
  <2>5. \A k \in okItems'[p] : HasRowsFor(p, req[p].updates[k])'
    BY <1>t, <2>1, <2>4, RowsForStay
  <2>6. SingleInv(p)'
    BY <2>1 DEF SingleInv, IsBatch
  <2>7. BatchInv(p)'
    BY <2>1, <2>4, <2>5 DEF BatchInv, TargetPCs
  <2>8. AnswerInv(p)'
    BY <2>1 DEF PushInv, AnswerInv
  <2> QED BY <2>6, <2>7, <2>8 DEF PushInv
<1>7. CASE Commit(p) \/ CommitUnacknowledged(p)
  <2>1. /\ pc[p] = "commit" /\ committed' = committed \cup {p}
        /\ UNCHANGED <<req, mainToo, okItems>>
        /\ \/ pc'[p] = "notify" /\ item'[p] = 1 /\ answer'[p] = answer[p]
           \/ pc'[p] = "done" /\ item'[p] = item[p] /\ answer'[p] = "error"
    BY <1>7, <1>t DEF Commit, CommitUnacknowledged, ApplyWrites
  <2>2. answer[p] = "none"
    BY <2>1 DEF PushInv, AnswerInv
  <2>3. ~IsBatch(p) => HasRowsFor(p, req[p].updates[1])'
    BY <1>t, <2>1, RowsForStay DEF PushInv, SingleInv
  <2>4. SingleInv(p)'
    BY <2>1, <2>3 DEF PushInv, SingleInv, IsBatch
  <2>5. BatchInv(p)'
    BY <1>t, <2>1, RowsForStay DEF PushInv, BatchInv, TargetPCs
  <2>6. AnswerInv(p)'
    BY <2>1, <2>2 DEF AnswerInv
  <2> QED BY <2>4, <2>5, <2>6 DEF PushInv
<1>8. CASE NotifyPushCI(p)
  <2>1. /\ pc[p] = "notify" /\ pc'[p] = "notify" /\ IsBatch(p)
        /\ UNCHANGED <<req, mainToo, okItems, committed, answer>>
    BY <1>8 DEF NotifyPushCI, dbVars
  <2>2. SingleInv(p)'
    BY <2>1 DEF SingleInv, IsBatch
  <2>3. BatchInv(p)'
    BY <1>t, <2>1, RowsForStay DEF PushInv, BatchInv, TargetPCs
  <2>4. AnswerInv(p)'
    BY <2>1 DEF PushInv, AnswerInv
  <2> QED BY <2>2, <2>3, <2>4 DEF PushInv
<1>9. CASE AnswerOK(p)
  <2>1. /\ pc[p] = "notify" /\ pc'[p] = "done" /\ answer'[p] = "ok"
        /\ UNCHANGED <<req, item, mainToo, okItems, committed>>
    BY <1>9, <1>t DEF AnswerOK, dbVars
  <2>2. ~IsBatch(p) => HasRowsFor(p, req[p].updates[1])'
    BY <1>t, <2>1, RowsForStay DEF PushInv, SingleInv
  <2>3. SingleInv(p)'
    BY <2>1, <2>2 DEF PushInv, SingleInv, IsBatch
  <2>4. BatchInv(p)'
    BY <1>t, <2>1, RowsForStay DEF PushInv, BatchInv, TargetPCs
  <2>5. AnswerInv(p)'
    BY <2>1 DEF PushInv, AnswerInv
  <2> QED BY <2>3, <2>4, <2>5 DEF PushInv
<1>10. CASE DeadlockVictim(p) \/ StatementFails(p) \/ Crash(p)
  <2>1. PICK a \in {"none", "error"} : Rollback(p, a)
    BY <1>10 DEF DeadlockVictim, StatementFails, Crash
  <2>2. UNCHANGED <<req, item, mainToo, okItems>>
    BY <1>10 DEF DeadlockVictim, StatementFails, Crash
  <2> QED BY <1>t, <2>1, <2>2, RollbackDurable
<1> QED
  BY <1>1, <1>2, <1>3, <1>4, <1>5, <1>6, <1>7, <1>8, <1>9, <1>10 DEF HandlerStep, Failure

(* Every step keeps the invariant. *)
LEMMA NextDurableInv == TypeInv /\ DurableInv /\ [Next]_vars => DurableInv'
<1> SUFFICES ASSUME TypeInv, DurableInv, [Next]_vars, NEW q \in Pushes PROVE PushInv(q)'
  BY DEF DurableInv
<1>1. TypeOK /\ HistoryGrows /\ PushInv(q)
  BY StepsGrowHistory DEF TypeInv, DurableInv
<1>2. req' = req
  BY DEF Next, HandlerStep, Failure, RefuseRequest, BeginTx, CheckItem, ReadTarget,
     ReadParent, Upsert, AppendHistory, Reread, Commit, NotifyPushCI, AnswerOK,
     CommitUnacknowledged, StatementFails, Crash, DeadlockVictim, AllDone, vars,
     handlerVars
<1>3. ASSUME NEW p \in Pushes, HandlerStep(p) \/ DeadlockVictim(p) \/ Failure(p)
      PROVE  PushInv(q)'
  <2>1. CASE p = q
    BY <1>1, <1>3, <2>1, OwnDurable
  <2>2. CASE p # q
    <3>1. /\ pc'[q] = pc[q] /\ item'[q] = item[q] /\ mainToo'[q] = mainToo[q]
          /\ okItems'[q] = okItems[q] /\ answer'[q] = answer[q]
          /\ q \in committed' <=> q \in committed
      BY <1>1, <1>3, <2>2, StepsAreLocal
    <3> QED BY <1>1, <1>2, <3>1, OthersDurable
  <2> QED BY <2>1, <2>2
<1>4. CASE AllDone \/ UNCHANGED vars
  <2>1. UNCHANGED <<pc, item, mainToo, okItems, answer, committed>>
    BY <1>4 DEF AllDone, vars, dbVars, handlerVars
  <2> QED BY <1>1, <1>2, <2>1, OthersDurable
<1> QED BY <1>3, <1>4 DEF Next

LEMMA InitDurableInv == Init => DurableInv
BY DEF Init, DurableInv, PushInv, SingleInv, BatchInv, AnswerInv, TargetPCs

(* Whatever fails around it, a push that is answered with success has left *)
(* every row it reports, and one that is refused has left none (ref.go,    *)
(* UpdateRef and BatchUpdateRefs).                                         *)
THEOREM AnswersStayDurable == Spec => []AnswersAreDurable
<1>1. DurableInv => AnswersAreDurable
  BY DEF DurableInv, PushInv, SingleInv, BatchInv, AnswerInv, AnswersAreDurable, Applied,
     HasRowsFor, HasRow
<1> QED BY <1>1, InitTypeInv, NextTypeInv, InitDurableInv, NextDurableInv, PTL DEF Spec

-----------------------------------------------------------------------------
(* What a notification says stays the target of a visible row, the         *)
(* notifying push's own or a later one.                                    *)
LEMMA FreshStays ==
    ASSUME TypeOK, HistoryGrows, NEW n,
           \E i \in VisibleRows(n.ref), k \in RowsOf(n.push, n.ref) :
               k <= i /\ log[i].new = n.sha
    PROVE  (\E i \in VisibleRows(n.ref), k \in RowsOf(n.push, n.ref) :
               k <= i /\ log[i].new = n.sha)'
<1>1. PICK i \in VisibleRows(n.ref), k \in RowsOf(n.push, n.ref) :
          k <= i /\ log[i].new = n.sha
  OBVIOUS
<1>2. Len(log) \in Nat /\ i \in 1..Len(log) /\ k \in 1..Len(log)
  BY LogFacts DEF VisibleRows, RowsOf
<1>3. i \in VisibleRows(n.ref)' /\ log'[i] = log[i]
  BY <1>2 DEF VisibleRows, Visible, HistoryGrows
<1>4. k \in RowsOf(n.push, n.ref)'
  BY <1>2 DEF RowsOf, HistoryGrows
<1> QED BY <1>1, <1>3, <1>4

(* A notification is sent for a ref of which the push has a visible row,   *)
(* with the ref's target, which is that of its last visible row.           *)
LEMMA NextNotified ==
    HistoryInv /\ DurableInv /\ NotifiedShaIsFresh /\ [Next]_vars => NotifiedShaIsFresh'
<1> SUFFICES ASSUME HistoryInv, DurableInv, NotifiedShaIsFresh, [Next]_vars,
                    NEW n \in notified'
             PROVE  (\E i \in VisibleRows(n.ref), k \in RowsOf(n.push, n.ref) :
                        k <= i /\ log[i].new = n.sha)'
  BY DEF NotifiedShaIsFresh
<1>1. TypeOK /\ HistoryMatchesRefs /\ HistoryGrows
  BY StepsGrowHistory DEF HistoryInv, TypeInv
<1>2. CASE n \in notified
  BY <1>1, <1>2, FreshStays DEF NotifiedShaIsFresh
<1>3. CASE n \notin notified
  <2>1. PICK p \in Pushes : NotifyPushCI(p)
    BY <1>3 DEF Next, HandlerStep, Failure, RefuseRequest, BeginTx, CheckItem, ReadTarget,
       ReadParent, Upsert, AppendHistory, Reread, Commit, AnswerOK,
       CommitUnacknowledged, StatementFails, Crash, DeadlockVictim, AllDone, vars, ciVars
  <2>2. /\ item[p] \in okItems[p] /\ pc[p] = "notify" /\ IsBatch(p)
        /\ n = [push |-> p, ref |-> Upd(p).name, sha |-> refs[Upd(p).name]]
    BY <1>3, <2>1 DEF NotifyPushCI, ciVars
  <2>3. p \in committed /\ HasRow(p, Upd(p).name, Upd(p).new) /\ Upd(p).name \in Refs
    <3>1. p \in committed /\ HasRow(p, Upd(p).name, Upd(p).new)
      BY <2>2 DEF DurableInv, PushInv, AnswerInv, BatchInv, HasRowsFor, Upd
    <3>2. item[p] <= Len(req[p].updates)
      BY <2>1 DEF NotifyPushCI
    <3> QED BY <1>1, <3>1, <3>2, UpdType
  <2>4. PICK k \in RowsOf(p, Upd(p).name) : TRUE
    BY <2>3 DEF HasRow
  <2>5. k \in VisibleRows(Upd(p).name)
    BY <2>3, <2>4 DEF RowsOf, VisibleRows, Visible
  <2>6. PICK i \in VisibleRows(Upd(p).name) :
            IsLast(i, VisibleRows(Upd(p).name)) /\ log[i].new = refs[Upd(p).name]
    BY <1>1, <2>3, <2>5 DEF HistoryMatchesRefs
  <2>7. k <= i
    BY <2>5, <2>6 DEF IsLast
  <2>8. \E a \in VisibleRows(n.ref), b \in RowsOf(n.push, n.ref) :
            b <= a /\ log[a].new = n.sha
    BY <2>2, <2>4, <2>6, <2>7
  <2> QED BY <1>1, <2>8, FreshStays
<1> QED BY <1>2, <1>3

(* CI never builds a state older than the push that asked for it, although *)
(* the ref is read again after the commit (ref.go, notifyPushCI).          *)
THEOREM NotificationsAreFresh == Spec => []NotifiedShaIsFresh
<1>1. Init => NotifiedShaIsFresh
  BY DEF Init, NotifiedShaIsFresh
<1> QED
  BY <1>1, InitHistoryInv, NextHistoryInv, InitTypeInv, NextTypeInv, InitDurableInv,
     NextDurableInv, NextNotified, PTL DEF Spec

===============================================================================
