-------------------------------- MODULE Objects --------------------------------
(* The object store of one repository in the data plane (kailab/pack,       *)
(* kailab/store on Postgres, kailab/blobstore), the push protocol that      *)
(* fills it, the handlers that read snapshots out of it and the enrichment  *)
(* queue (kailab/background).                                               *)
(*                                                                          *)
(* An object is identified with its digest. A pack is a sequence of         *)
(* entries, each naming a digest and carrying a body; a body is the digest  *)
(* it hashes to, so an entry is honest when the two are equal. A segment is *)
(* the sequence of the bodies, and an object's row names a segment and a    *)
(* position in it. Zstd framing, the JSON header and its size limits are    *)
(* left out: a pack that cannot be decoded is refused before any statement. *)
EXTENDS Naturals, Sequences, FiniteSets, SequencesExt

CONSTANTS Procs,        \* requests of kai push in flight
          Workers,      \* enrichment workers
          Node,         \* what each digest is the digest of
          Wants,        \* the sets of objects a client pushes
          External,     \* blobstore.IsExternal()
          MaxSegs,      \* bound: segment ids handed out
          MaxCrashes    \* bound: failures of a transaction or a worker

VARIABLES segments,     \* committed rows of segments: id -> bodies
          nextSeg,      \* the BIGSERIAL of segments
          objects,      \* committed rows of objects: digest -> [seg, off]
          blobs,        \* the external store: id -> bodies
          queue,        \* committed rows of enrich_queue
          push,         \* one kai push and its open transaction, per request
          working,      \* the queue item each worker has, or 0
          crashes

vars == <<segments, nextSeg, objects, blobs, queue, push, working, crashes>>

Digests   == DOMAIN Node
Empty     == [x \in {} |-> x]
Put(f, k, v) == [x \in DOMAIN f \cup {k} |-> IF x = k THEN v ELSE f[x]]
OfKind(k) == {d \in Digests : Node[d].kind = k}

(* A client asks for finitely many objects, and a snapshot names File       *)
(* objects and, in its inline entries, what is in them if anything.         *)
ASSUME ObjectsAssumption ==
    /\ IsFiniteSet(Procs) /\ MaxSegs \in Nat /\ MaxCrashes \in Nat
    /\ \A want \in Wants : want \subseteq Digests /\ IsFiniteSet(want)
    /\ \A s \in OfKind("Snapshot") :
           /\ \A f \in Node[s].fileDigests : f \in OfKind("File")
           /\ \A e \in Node[s].files :
                  e.digest \in OfKind("File") /\ e.content \in {"", Node[e.digest].content}

IdlePush == [pc |-> "idle", want |-> {}, pack |-> <<>>, seg |-> 0, i |-> 0,
             rows |-> {}, items |-> <<>>]

Init ==
    /\ segments = Empty /\ nextSeg = 1 /\ objects = Empty /\ blobs = Empty
    /\ queue = <<>>
    /\ push = [p \in Procs |-> IdlePush]
    /\ working = [w \in Workers |-> 0]
    /\ crashes = 0

-----------------------------------------------------------------------------
(* Reading an object. *)

PgHasObjects(ds) == ds \cap DOMAIN objects

PgGetObjectInfo(d) == objects[d]

PgGetSegmentBlobByID(id) ==
    {segments[id]} \cup (IF External /\ id \in DOMAIN blobs THEN {blobs[id]} ELSE {})

(* A range read of the external store is tried first and may fail; the      *)
(* bytes of the row's position in the inline copy are then returned. The    *)
(* set holds every result some outcome of the external call produces.       *)
PgExtractObjectFromDB(d) ==
    LET r == PgGetObjectInfo(d)
        RangeRead == IF External /\ r.seg \in DOMAIN blobs /\ r.off <= Len(blobs[r.seg])
                     THEN {blobs[r.seg][r.off]} ELSE {}
    IN  RangeRead \cup {b[r.off] : b \in {x \in PgGetSegmentBlobByID(r.seg) : r.off <= Len(x)}}

(* The digests found, each with the same choice of reads. *)
PgBatchGetObjects(ds) == [d \in PgHasObjects(ds) |-> PgExtractObjectFromDB(d)]

-----------------------------------------------------------------------------
(* Reading a snapshot. Node[s].files are the inline entries of a snapshot,  *)
(* whose content may be missing ("") in those of an older client, and       *)
(* Node[s].fileDigests the File objects of the oldest ones.                 *)

Stored(d) == d \in DOMAIN objects

ListSnapshotFiles(s) ==
    IF Node[s].files # {}
    THEN Node[s].files
    ELSE {[path |-> Node[f].path, digest |-> f, content |-> Node[f].content] :
              f \in {g \in Node[s].fileDigests : Stored(g) /\ Node[g].kind = "File"}}

(* The content a File object's digest leads to: {} is a 404. *)
GetFileContent(f) ==
    IF Stored(f) /\ Node[f].kind = "File" /\ Stored(Node[f].content)
    THEN {Node[f].content} ELSE {}

(* The files of the archive: those whose content digest can be found, then  *)
(* those whose content object is there.                                     *)
ArchiveRefs(s) ==
    IF Node[s].files # {}
    THEN {<<e.path, e.content>> : e \in {x \in Node[s].files : x.content # ""}}
         \cup {<<e.path, Node[e.digest].content>> :
                   e \in {x \in Node[s].files : x.content = "" /\ Stored(x.digest)}}
    ELSE {<<Node[f].path, Node[f].content>> :
              f \in {g \in Node[s].fileDigests : Stored(g) /\ Node[g].kind = "File"}}

GetSnapshotArchive(s) == {r \in ArchiveRefs(s) : Stored(r[2])}

-----------------------------------------------------------------------------
(* Pushing. A client negotiates the digests it wants stored, sends a pack   *)
(* of the missing ones and starts again when the ingest fails.              *)

(* An honest pack of ds in some order, or one with a body swapped.          *)
Packs(ds) ==
    LET honest == {[i \in DOMAIN q |-> [digest |-> q[i], body |-> q[i]]] : q \in SetToSeqs(ds)}
    IN  honest \cup {[q EXCEPT ![Len(q)].body = q[1].body] : q \in honest}

Negotiate(p, want) ==
    LET missing == want \ PgHasObjects(want) IN
    /\ push[p].pc \in {"idle", "refused", "error"}
    /\ push[p].pc # "idle" => want = push[p].want
    /\ IF missing = {}
       THEN push' = [push EXCEPT ![p] = [IdlePush EXCEPT !.pc = "stored", !.want = want]]
       ELSE /\ nextSeg + Cardinality({q \in Procs : push[q].pc = "send"}) <= MaxSegs
            /\ \E q \in Packs(missing) :
                 push' = [push EXCEPT ![p] = [IdlePush EXCEPT !.pc = "send", !.want = want, !.pack = q]]
    /\ UNCHANGED <<segments, nextSeg, objects, blobs, queue, working, crashes>>

Answers(p, told) == [IdlePush EXCEPT !.pc = told, !.want = push[p].want]

(* The answer of an ingest that returns an error: defer tx.Rollback(). The  *)
(* segment id stays consumed and an uploaded blob stays where it is. All    *)
(* errors have one status code; "refused" is the one that says a digest     *)
(* does not match, "error" any other.                                       *)
Rollback(p, told) == push' = [push EXCEPT ![p] = Answers(p, told)]

(* A bug to catch: ids numbered from the committed rows. *)
MaxPlusOne == 1 + Max({0} \cup DOMAIN segments)

(* The sequence is not part of the transaction: an id is never given twice. *)
NextSegmentID == nextSeg

(* Insert the segment inline; the upload to the external store is tried     *)
(* inside the transaction and its failure is only logged.                   *)
PgInsertSegmentTx(p) ==
    /\ push[p].pc = "send"
    /\ nextSeg' = nextSeg + 1
    /\ push' = [push EXCEPT ![p].pc = "index", ![p].seg = NextSegmentID, ![p].i = 1]
    /\ \/ External /\ blobs' = Put(blobs, NextSegmentID, [i \in DOMAIN push[p].pack |-> push[p].pack[i].body])
       \/ UNCHANGED blobs
    /\ UNCHANGED <<segments, objects, queue, working, crashes>>

Verified(e) == e.body = e.digest

(* ON CONFLICT DO NOTHING waits for the transaction that has inserted the   *)
(* same key and has not ended.                                              *)
Holder(d) == {q \in Procs : push[q].pc = "index" /\ \E r \in push[q].rows : r[1] = d}
WaitsFor(p) ==
    IF push[p].pc = "index" /\ push[p].i <= Len(push[p].pack)
    THEN Holder(push[p].pack[push[p].i].digest) \ {p} ELSE {}

(* A bug to catch: a row someone else is inserting is taken as stored. *)
SkipLocked(p) == TRUE

MayInsert(p) == WaitsFor(p) = {}

IndexObject(p) ==
    LET e == push[p].pack[push[p].i] IN
    /\ push[p].pc = "index" /\ push[p].i <= Len(push[p].pack)
    /\ \/ ~Verified(e) /\ Rollback(p, "refused")
       \/ /\ Verified(e) /\ MayInsert(p)
          /\ push' = [push EXCEPT
                ![p].i = @ + 1,
                ![p].rows = IF Stored(e.digest) \/ Holder(e.digest) # {}
                            THEN @ ELSE @ \cup {<<e.digest, push[p].i>>},
                ![p].items = IF Node[e.digest].kind = "Snapshot" THEN Append(@, e.digest) ELSE @]
    /\ UNCHANGED <<segments, nextSeg, objects, blobs, queue, working, crashes>>

(* Postgres ends a cycle of waiting transactions by failing one of them.    *)
DeadlockVictim(p) ==
    /\ \E S \in SUBSET Procs : p \in S /\ S = UNION {WaitsFor(q) : q \in S}
    /\ Rollback(p, "error")
    /\ UNCHANGED <<segments, nextSeg, objects, blobs, queue, working, crashes>>

(* The transaction takes effect; whether the handler and its client come to *)
(* know of it is another matter.                                            *)
IngestCommit(p) ==
    /\ push[p].pc = "index" /\ push[p].i > Len(push[p].pack)
    /\ segments' = Put(segments, push[p].seg, [i \in DOMAIN push[p].pack |-> push[p].pack[i].body])
    /\ objects' = [d \in DOMAIN objects \cup {r[1] : r \in push[p].rows} |->
                      IF Stored(d) THEN objects[d]
                      ELSE [seg |-> push[p].seg, off |-> (CHOOSE r \in push[p].rows : r[1] = d)[2]]]
    /\ queue' = queue \o [i \in DOMAIN push[p].items |->
                             [node |-> push[p].items[i], status |-> "pending"]]
    /\ push' = [push EXCEPT ![p] = Answers(p, "committed")]
    /\ UNCHANGED <<nextSeg, blobs, working, crashes>>

AnswerIngested(p) ==
    /\ push[p].pc = "committed"
    /\ push' = [push EXCEPT ![p] = Answers(p, "stored")]
    /\ UNCHANGED <<segments, nextSeg, objects, blobs, queue, working, crashes>>

(* The acknowledgement of the COMMIT is lost, or the answer is: the client  *)
(* sees an error although its objects are stored.                           *)
CommitUnacknowledged(p) ==
    /\ push[p].pc = "committed" /\ crashes < MaxCrashes
    /\ crashes' = crashes + 1
    /\ push' = [push EXCEPT ![p] = Answers(p, "error")]
    /\ UNCHANGED <<segments, nextSeg, objects, blobs, queue, working>>

(* The connection, the database or the process fails before the commit.     *)
IngestFails(p) ==
    /\ push[p].pc \in {"send", "index"} /\ crashes < MaxCrashes
    /\ crashes' = crashes + 1
    /\ Rollback(p, "error")
    /\ UNCHANGED <<segments, nextSeg, objects, blobs, queue, working>>

-----------------------------------------------------------------------------
(* The enrichment queue. *)

(* A bug to catch: a claim that does not look at the status. *)
Unfinished == {i \in DOMAIN queue : queue[i].status \in {"pending", "processing"}}

(* The oldest pending row, locked and marked in one transaction; rows       *)
(* another claim has locked are skipped.                                    *)
Claimable == {i \in DOMAIN queue : queue[i].status = "pending"}
ClaimEnrichmentItem(w) ==
    /\ working[w] = 0 /\ Claimable # {}
    /\ working' = [working EXCEPT ![w] = Min(Claimable)]
    /\ queue' = [queue EXCEPT ![Min(Claimable)].status = "processing"]
    /\ UNCHANGED <<segments, nextSeg, objects, blobs, push, crashes>>

CompleteEnrichmentItem(i, status) == queue' = [queue EXCEPT ![i].status = status]

(* enrichSnapshot fails only when the object cannot be read.                *)
enrichSnapshot(d) == IF Stored(d) THEN "done" ELSE "failed"

processOne(w) ==
    /\ working[w] # 0
    /\ CompleteEnrichmentItem(working[w], enrichSnapshot(queue[working[w]].node))
    /\ working' = [working EXCEPT ![w] = 0]
    /\ UNCHANGED <<segments, nextSeg, objects, blobs, push, crashes>>

(* A worker that dies between its claim and its completion.                 *)
WorkerDies(w) ==
    /\ crashes < MaxCrashes /\ working[w] # 0
    /\ working' = [working EXCEPT ![w] = 0]
    /\ crashes' = crashes + 1
    /\ UNCHANGED <<segments, nextSeg, objects, blobs, queue, push>>

-----------------------------------------------------------------------------
Handler(p) ==
    \/ PgInsertSegmentTx(p) \/ IndexObject(p) \/ IngestCommit(p) \/ AnswerIngested(p)
    \/ DeadlockVictim(p)

Next ==
    \/ \E p \in Procs : Handler(p) \/ IngestFails(p) \/ CommitUnacknowledged(p)
    \/ \E p \in Procs, want \in Wants : Negotiate(p, want)
    \/ \E w \in Workers : ClaimEnrichmentItem(w) \/ processOne(w) \/ WorkerDies(w)

(* A handler's goroutine keeps running, and the database ends a deadlock.   *)
Fairness == \A p \in Procs : WF_vars(Handler(p))

Spec == Init /\ [][Next]_vars /\ Fairness

-----------------------------------------------------------------------------
(* The types of the variables. *)
TypeOK ==
    /\ nextSeg \in 1 .. MaxSegs + 1 /\ crashes \in 0 .. MaxCrashes
    /\ DOMAIN segments \cup DOMAIN blobs \subseteq 1 .. nextSeg - 1
    /\ DOMAIN objects \subseteq Digests
    /\ \A d \in DOMAIN objects : objects[d].seg \in DOMAIN segments /\ objects[d].off \in Nat
    /\ \A i \in DOMAIN queue : queue[i].status \in {"pending", "processing", "done", "failed"}
    /\ \A p \in Procs :
         push[p].pc \in {"idle", "send", "index", "committed", "stored", "refused", "error"}

(* Single and batch reads answer the bytes of the digests, whichever of     *)
(* the two copies of the segment serves the read and whatever uploads,      *)
(* rollbacks and dishonest packs came before (postgres.go:867, segment.go). *)
ReadsReturnTheObject ==
    PgBatchGetObjects(DOMAIN objects) = [d \in DOMAIN objects |-> {d}]

(* When everything a snapshot refers to is stored, the archive holds the    *)
(* very files that the listing leads to, for the three forms of a snapshot. *)
Complete(s) ==
    /\ Stored(s)
    /\ \A f \in Node[s].fileDigests \cup {e.digest : e \in Node[s].files} :
           Stored(f) /\ Stored(Node[f].content)
ArchiveMatchesListing ==
    \A s \in OfKind("Snapshot") : Complete(s) =>
        GetSnapshotArchive(s) =
            UNION {{<<e.path, c>> : c \in GetFileContent(e.digest)} : e \in ListSnapshotFiles(s)}

(* What is read out of the store is what was put into it, object by object  *)
(* and as an archive.                                                       *)
ReadsAreTrue == TypeOK /\ ReadsReturnTheObject /\ ArchiveMatchesListing

(* A snapshot that is stored is in the enrichment queue, an item is with    *)
(* one worker at most, and the items in processing that no worker has are   *)
(* as many as the workers that died over one (postgres.go:634).             *)
EnrichmentAccounted ==
    LET held == {working[w] : w \in {v \in Workers : working[v] # 0}} IN
    /\ \A s \in OfKind("Snapshot") : Stored(s) => \E i \in DOMAIN queue : queue[i].node = s
    /\ \A v, w \in Workers : working[v] = working[w] => v = w \/ working[w] = 0
    /\ \A i \in held : queue[i].status = "processing"
    /\ Cardinality({i \in DOMAIN queue \ held : queue[i].status = "processing"}) <= crashes

(* What a client has been told, as ContentStore has it. *)
Answer(p) ==
    [state |-> CASE push[p].pc = "idle" -> "none"
                 [] push[p].pc \in {"send", "index"} -> "open"
                 [] OTHER -> push[p].pc,
     want  |-> push[p].want]

Promise == INSTANCE ContentStore WITH
    Clients <- Procs, Requests <- Wants,
    stored <- DOMAIN objects, asked <- [p \in Procs |-> Answer(p)]

(* The store implements ContentStore: transactions, packs, segments and     *)
(* failed uploads are invisible; a client's objects appear at once and      *)
(* before it is told so, also those another push was storing when           *)
(* IngestPack met their rows (postgres.go:895); an ingest that is refused   *)
(* has stored nothing, and one that fails otherwise either nothing or all,  *)
(* a commit whose acknowledgement is lost being of the second kind          *)
(* (segment.go:458); nothing that was seen disappears, and pushes that wait *)
(* for each other's rows do not hang (segment.go:433).                      *)
ImplementsContentStore == Promise!Spec
=============================================================================
