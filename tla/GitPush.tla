-------------------------------- MODULE GitPush --------------------------------
(* git push and git clone over SSH on one repository (kailab/sshserver) and *)
(* the Git mirror. A push is stored as one ChangeSet object that names its  *)
(* pack and the refs it updates and whose head is what snap.main pointed to *)
(* when the push began; a clone follows the heads from a ref's changeset    *)
(* and gathers the objects of the packs it meets.                           *)
(*                                                                          *)
(* A commit stands for itself and for the trees and blobs it introduces. An *)
(* entry of a pack is whole or a REF_DELTA against the objects of the       *)
(* commit's parent, which a thin pack leaves out. Branches are the heads;   *)
(* MapGitRefName makes them snap.<branch>.                                  *)
EXTENDS Naturals, Sequences, SequencesExt

CONSTANTS Sessions,       \* SSH sessions
          Branches, Main,
          Commits, Zero,
          Parent,      \* [Commits -> Commits \cup {Zero}]
          MaxPushes,   \* bound: changesets stored
          MaxChain     \* resolveGitPackObjects follows 20 heads

ASSUME GitPushAssumption ==
    /\ Main \in Branches /\ Zero \notin Commits
    /\ Parent \in [Commits -> Commits \cup {Zero}]
    /\ MaxPushes \in Nat /\ MaxChain \in Nat

VARIABLES css,         \* the ChangeSet objects, in the order they were stored
          refs,        \* snap.<branch> -> a changeset, 0 if there is none
          csLatest,    \* the target of cs.latest
          history,     \* the targets each ref has had, oldest first
          mirror,      \* the refs of the Git mirror
          missed,      \* the refs whose last sync failed or was left out
          sess,        \* the sessions
          overlapped   \* two sessions have been open at once

gitVars == <<css, refs, csLatest, history, mirror, missed, sess, overlapped>>

NoSess == [pc |-> "idle"]

GitInit ==
    /\ css = <<>> /\ refs = [b \in Branches |-> 0] /\ csLatest = 0
    /\ history = [b \in Branches |-> <<>>]
    /\ mirror = [b \in Branches |-> 0] /\ missed = {}
    /\ sess = [p \in Sessions |-> NoSess]
    /\ overlapped = FALSE

(* What a walk from c along the parents meets, as long as it finds them     *)
(* within a set of commits: the least set closed under the steps.           *)
Walk(c, within) ==
    LET Closed(S) == (c \in within => c \in S) /\ \A x \in S : Parent[x] \in within => Parent[x] \in S
    IN  {d \in Commits : \A S \in SUBSET Commits : Closed(S) => d \in S}

Ancestors(c) == Walk(c, Commits)

-----------------------------------------------------------------------------
(* What a clone is given. *)

(* The changesets met from i on, newest first, at most n of them; a head of *)
(* 0 is a snapshot, where the walk stops.                                   *)
Chain(i, n) ==
    LET at[k \in 0 .. n] == IF k = 0 THEN i ELSE IF at[k - 1] = 0 THEN 0 ELSE css[at[k - 1]].head
    IN  [k \in {j \in 1 .. n : at[j - 1] # 0} |-> at[k - 1]]

(* The whole entries of a pack and, in one pass, the deltas whose base is   *)
(* one of them or among the objects already known; the others are dropped.  *)
parseGitPackWithBases(pack, known) ==
    LET Whole == {e.oid : e \in {x \in pack : x.base = Zero}}
    IN  Whole \cup {e.oid : e \in {x \in pack : x.base \in Whole \cup known}}

(* A bug to catch: the packs are parsed from the newest to the oldest. *)
PackOrderNewestFirst(chain) == chain

PackOrder(chain) == Reverse(chain)

AllObjects(chain) ==
    LET order == PackOrder(chain)
        known[k \in 0 .. Len(order)] ==
            IF k = 0 THEN {} ELSE known[k - 1] \cup parseGitPackWithBases(css[order[k]].pack, known[k - 1])
    IN  known[Len(order)]

(* The commit the newest changeset of the chain that has one gives for the  *)
(* branch.                                                                  *)
CommitOIDs(chain, b) ==
    LET Names(j) == b \in DOMAIN css[chain[j]].updates /\ css[chain[j]].updates[b] # Zero
    IN  {css[chain[k]].updates[b] : k \in {j \in DOMAIN chain : Names(j) /\ \A i \in 1 .. j - 1 : ~Names(i)}}

(* The objects served for a ref and its commit; a commit that is not among  *)
(* the objects makes buildRef serve a synthetic commit of the snapshot.     *)
Synthetic == [commit |-> Zero, objects |-> {}]
resolveGitPackObjects(i, b) ==
    LET chain == Chain(i, MaxChain)
        found == AllObjects(chain)
    IN  IF CommitOIDs(chain, b) = {} THEN Synthetic
        ELSE LET c == CHOOSE x \in CommitOIDs(chain, b) : TRUE
             IN  [commit |-> c, objects |-> found]

(* Parents that are not there end the walk without an error.                *)
collectCommitObjects(objects, c) == Walk(c, objects)

buildRef(b) ==
    LET r == resolveGitPackObjects(refs[b], b)
    IN  IF refs[b] # 0 /\ r.commit \in r.objects
        THEN [commit |-> r.commit, objects |-> collectCommitObjects(r.objects, r.commit)]
        ELSE Synthetic

advertised == {buildRef(b).commit : b \in {x \in Branches : refs[x] # 0}} \ {Zero}

-----------------------------------------------------------------------------
(* A push. The client has every commit it updates a branch to; it sends     *)
(* what the advertised commits do not reach.                                *)

Lacking(ups) ==
    (UNION {Ancestors(ups[b]) : b \in DOMAIN ups}) \ (UNION {Ancestors(c) : c \in advertised})
ThinPack(cs) == {[oid |-> c, base |-> IF Parent[c] \in cs THEN Zero ELSE Parent[c]] : c \in cs}

ReceivePack(p, ups) ==
    /\ sess[p] = NoSess /\ Len(css) < MaxPushes
    /\ overlapped' = (overlapped \/ \E q \in Sessions : sess[q] # NoSess)
    /\ sess' = [sess EXCEPT ![p] = [pc |-> "base", ups |-> ups, pack |-> ThinPack(Lacking(ups)),
                  new |-> {b \in DOMAIN ups : refs[b] = 0}, base |-> 0, cs |-> 0, todo |-> {}, read |-> <<Main, 0>>]]
    /\ UNCHANGED <<css, refs, csLatest, history, mirror, missed>>

(* Read outside any transaction; a read that fails is taken for no ref. *)
resolveBaseSnapshot(p) ==
    /\ sess[p].pc = "base"
    /\ \E i \in {refs[Main], 0} :
           sess' = [sess EXCEPT ![p] = [@ EXCEPT !.pc = "store", !.base = i]]
    /\ UNCHANGED <<css, refs, csLatest, history, mirror, missed, overlapped>>

(* The pack and the changeset are stored by transactions of their own.      *)
storeNodeObject(p) ==
    /\ sess[p].pc = "store" /\ Len(css) < MaxPushes
    /\ css' = Append(css, [head |-> sess[p].base, pack |-> sess[p].pack, updates |-> sess[p].ups])
    /\ sess' = [sess EXCEPT ![p] = [@ EXCEPT !.pc = "refs", !.cs = Len(css) + 1]]
    /\ UNCHANGED <<refs, csLatest, history, mirror, missed, overlapped>>

(* SetRefFF for a branch the client saw as new, DeleteRef for a new id of   *)
(* zeros, ForceSetRef otherwise: one refusal rolls back the whole push.     *)
SetRefFF(b)  == refs[b] = 0
DeleteRef(b) == refs[b] # 0
UpdateAllowed(p, b) ==
    IF sess[p].ups[b] = Zero THEN DeleteRef(b)
    ELSE b \in sess[p].new => SetRefFF(b)

ApplyUpdates(p, bs) ==
    LET q == sess[p]
        Target(b) == IF q.ups[b] = Zero THEN 0 ELSE q.cs
    IN  /\ refs' = [b \in Branches |-> IF b \in bs THEN Target(b) ELSE refs[b]]
        /\ history' = [b \in Branches |-> IF b \in bs THEN Append(history[b], Target(b)) ELSE history[b]]
        /\ csLatest' = q.cs
        /\ sess' = [sess EXCEPT ![p] = [@ EXCEPT !.pc = "mirror", !.todo = DOMAIN q.ups]]
        /\ UNCHANGED <<css, mirror, missed, overlapped>>

createChangeSetFromPack(p) ==
    /\ sess[p].pc = "refs"
    /\ \A b \in DOMAIN sess[p].ups : UpdateAllowed(p, b)
    /\ ApplyUpdates(p, DOMAIN sess[p].ups)

(* A push that ends uncommitted: a refused update, SQLite answering busy,   *)
(* another error on its way, or the end of the server.                      *)
PushFails(p) ==
    /\ sess[p].pc \in {"base", "store", "refs"}
    /\ sess' = [sess EXCEPT ![p] = NoSess]
    /\ UNCHANGED <<css, refs, csLatest, history, mirror, missed, overlapped>>

-----------------------------------------------------------------------------
(* The mirror, once the status of the push has been written: each updated   *)
(* ref is read and then written with git update-ref.                        *)

(* A bug to catch: refs that are gone are skipped. *)
SyncExistingOnly(p, b) == refs[b] # 0

SyncRead(p, b) == TRUE

SyncRefs(p) ==
    /\ sess[p].pc = "mirror"
    /\ IF \E b \in sess[p].todo : SyncRead(p, b)
       THEN \E b \in sess[p].todo :
                /\ SyncRead(p, b)
                /\ sess' = [sess EXCEPT ![p] =
                      [@ EXCEPT !.pc = "update-ref", !.todo = sess[p].todo \ {b}, !.read = <<b, refs[b]>>]]
       ELSE sess' = [sess EXCEPT ![p] = NoSess]
    /\ UNCHANGED <<css, refs, csLatest, history, mirror, missed, overlapped>>

updateRef(p) ==
    /\ sess[p].pc = "update-ref"
    /\ mirror' = [mirror EXCEPT ![sess[p].read[1]] = sess[p].read[2]]
    /\ missed' = missed \ {sess[p].read[1]}
    /\ sess' = [sess EXCEPT ![p] = [@ EXCEPT !.pc = "mirror"]]
    /\ UNCHANGED <<css, refs, csLatest, history, overlapped>>

(* A ref that cannot be read, built or deleted is logged and passed over.   *)
RefSkipped(p) ==
    /\ sess[p].pc = "update-ref"
    /\ missed' = missed \cup {sess[p].read[1]}
    /\ sess' = [sess EXCEPT ![p] = [@ EXCEPT !.pc = "mirror"]]
    /\ UNCHANGED <<css, refs, csLatest, history, mirror, overlapped>>

(* The rest of the refs is left out: the status of the push cannot be       *)
(* written, a git command that writes fails, or the server ends.            *)
Left(r) == r.todo \cup IF r.pc = "update-ref" THEN {r.read[1]} ELSE {}
SyncAbandoned(p) ==
    /\ sess[p].pc \in {"mirror", "update-ref"}
    /\ missed' = missed \cup Left(sess[p])
    /\ sess' = [sess EXCEPT ![p] = NoSess]
    /\ UNCHANGED <<css, refs, csLatest, history, mirror, overlapped>>

-----------------------------------------------------------------------------
(* The updates clients send: one or two branches, moved forward from what   *)
(* they were given, created, or deleted.                                    *)
Forward(b) ==
    IF refs[b] = 0 THEN Commits
    ELSE LET given == buildRef(b).commit
         IN  {Zero} \cup {c \in Commits : given # Zero /\ given \in Ancestors(Parent[c])}

GitNext == \E p \in Sessions :
    \/ \E b \in Branches : \E c \in Forward(b) : ReceivePack(p, [x \in {b} |-> c])
    \/ \E c \in Commits : (\A b \in Branches : c \in Forward(b)) /\ ReceivePack(p, [x \in Branches |-> c])
    \/ resolveBaseSnapshot(p) \/ storeNodeObject(p)
    \/ createChangeSetFromPack(p) \/ PushFails(p)
    \/ SyncRefs(p) \/ updateRef(p) \/ RefSkipped(p) \/ SyncAbandoned(p)

GitSpec == GitInit /\ [][GitNext]_gitVars

-----------------------------------------------------------------------------
(* The types of the variables. *)
GitTypeOK ==
    /\ refs \in [Branches -> 0 .. Len(css)] /\ csLatest \in 0 .. Len(css)
    /\ mirror \in [Branches -> 0 .. Len(css)] /\ missed \subseteq Branches
    /\ \A i \in DOMAIN css : css[i].head \in 0 .. i - 1

(* A clone of a branch is complete while the chain of heads is the history  *)
(* of the branch: every push of it began after the one before had ended and *)
(* was a push of the branch snap.main stands for, no other branch carries   *)
(* part of it, and there have not been more pushes than the walk follows    *)
(* (gitpack.go:397, receive_pack.go:91).                                    *)
Linear(b) ==
    LET h == history[b]
    IN  /\ Len(h) <= MaxChain /\ \A k \in DOMAIN h : h[k] # 0
        /\ \A d \in Branches \ {b} : history[d] = <<>>
        /\ \A k \in DOMAIN h : css[h[k]].head = (IF k = 1 THEN 0 ELSE h[k - 1])
LinearClonesAreComplete ==
    \A b \in Branches : refs[b] # 0 /\ Linear(b) =>
        buildRef(b).objects = Ancestors(css[refs[b]].updates[b])

(* No ref points to a changeset that does not name it: an id read from one  *)
(* branch is never served under another, and a push in which one update is  *)
(* refused moves none (receive_pack.go:131, one transaction for all).       *)
RefsNameTheirUpdate ==
    /\ \A b \in Branches : refs[b] # 0 => b \in DOMAIN css[refs[b]].updates /\ css[refs[b]].updates[b] # Zero
    /\ \A i \in DOMAIN css : \A b, d \in DOMAIN css[i].updates :
           i \in Range(history[b]) /\ css[i].updates[d] # Zero => i \in Range(history[d])

(* Whatever overlaps or fails, the mirror shows of a ref nothing but what   *)
(* the ref has been. When the pushes never overlapped it shows, once the    *)
(* sessions are over, the refs as they are, deleted ones included, but for  *)
(* those whose last sync failed or was left out (mirror.go:43).             *)
MirrorShowsThePast == \A b \in Branches : mirror[b] \in {0} \cup Range(history[b])
MirrorCatchesUp ==
    (~overlapped /\ \A p \in Sessions : sess[p] = NoSess) =>
        \A b \in Branches \ missed : mirror[b] = refs[b]
MirrorFollows == MirrorShowsThePast /\ MirrorCatchesUp

(* What is served for a branch is the branch's: the changeset its ref points*)
(* to is one that names it, and a clone of a linear history is whole.       *)
ClonesAreComplete == GitTypeOK /\ RefsNameTheirUpdate /\ LinearClonesAreComplete
=============================================================================
