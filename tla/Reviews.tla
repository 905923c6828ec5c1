-------------------------------- MODULE Reviews --------------------------------
(* Reviews, their comments and the notifications about them: the handlers   *)
(* of kailab/api/routes.go on one repository, the notifier of the data      *)
(* plane (kailab/sshserver/webhooks.go) and the control plane's handlers    *)
(* that turn a notice into mail (api/notifications.go).                     *)
(*                                                                          *)
(* A review is the ref review.<id>; its target is an immutable Review       *)
(* object. Every update writes a new object and moves the ref, so a version *)
(* is named by its place in versions and remembers the one it was made      *)
(* from. A person is named in a payload by an e-mail address or by an       *)
(* account id; Account resolves the names that belong to an account.        *)
EXTENDS Naturals, Sequences, FiniteSets, SequencesExt

CONSTANTS Requests,          \* requests in flight
          Ids,            \* review ids
          Authors,        \* the names authors and actors come under
          NameLists,      \* lists of assignees and of mentions
          Account,        \* [names of accounts -> e-mail address of the account]
          HeadOf,           \* [Ids -> the head snapshot of the target changeset, or NoSnap]
          NoSnap,
          Pushed,         \* the states of the reviews clients push
          MaxVersions,    \* bound: review objects
          MaxComments,    \* bound: comments
          MaxNotices      \* bound: goroutines that have a notice to deliver

VARIABLES versions,       \* the Review objects, in the order of their commits
          ref,            \* [Ids -> the version review.<id> points to, 0 if none]
          snapMain,       \* the target of snap.main
          mainLog,        \* the versions whose merge has moved snap.main
          unread,         \* the versions whose merge could not read the changeset or its head
          comments,       \* the HAS_COMMENT edges with their comments
          req,            \* [Requests -> the request between its read and its commit]
          notices,        \* notices the goroutines have not delivered yet
          mails           \* the mails of the last notice the control plane handled

mains      == <<snapMain, mainLog, unread>>
reviewVars == <<versions, ref, mains, comments, req, notices, mails>>

Idle == [op |-> "idle"]

ReviewsInit ==
    /\ versions = <<>> /\ ref = [r \in Ids |-> 0]
    /\ snapMain = NoSnap /\ mainLog = {} /\ unread = {}
    /\ comments = {} /\ req = [p \in Requests |-> Idle]
    /\ notices = {} /\ mails = <<>>

States == {"draft", "open", "approved", "changes_requested", "merged", "abandoned"}

ASSUME ReviewsAssumption ==
    /\ \A names \in NameLists : names \in Seq({names[i] : i \in DOMAIN names})
    /\ Pushed \subseteq States

validTransitions(s) ==
    CASE s = "draft"             -> {"open", "abandoned"}
      [] s = "open"              -> {"approved", "changes_requested", "merged", "abandoned"}
      [] s = "approved"          -> {"merged", "changes_requested", "abandoned"}
      [] s = "changes_requested" -> {"open", "approved", "abandoned"}
      [] OTHER                   -> {}

-----------------------------------------------------------------------------
(* Writing a version: the segment, the object and the ref in one commit.    *)

StoreVersion(r, v) ==
    /\ Len(versions) < MaxVersions
    /\ versions' = Append(versions, v)
    /\ ref' = [ref EXCEPT ![r] = Len(versions) + 1]

(* The goroutine that tells the control plane, started after the commit.    *)
Notify(n) == Cardinality(notices) < MaxNotices /\ notices' = notices \cup {n}

CreateReview(r, author) ==
    /\ ref[r] = 0
    /\ StoreVersion(r, [rev |-> r, state |-> "draft", author |-> author, assignees |-> <<>>, from |-> 0])
    /\ UNCHANGED <<mains, comments, req, notices, mails>>

(* A review ref pushed by a client through BatchUpdateRefs: the object      *)
(* comes with the push, and the handler calls notifyReviewCreated after it. *)
PushReview(r, author, state) ==
    /\ StoreVersion(r, [rev |-> r, state |-> state, author |-> author, assignees |-> <<>>, from |-> 0])
    /\ Notify([kind |-> "pushed", rev |-> r])
    /\ UNCHANGED <<mains, comments, req, mails>>

(* The three handlers read the ref and the object outside any transaction.  *)
UpdateReviewState(p, r, state, actor) ==
    /\ req[p] = Idle /\ ref[r] # 0
    /\ state \in validTransitions(versions[ref[r]].state)
    /\ req' = [req EXCEPT ![p] = [op |-> "state", rev |-> r, read |-> ref[r], state |-> state, actor |-> actor]]
    /\ UNCHANGED <<versions, ref, mains, comments, notices, mails>>

UpdateReview(p, r, assignees) ==
    /\ req[p] = Idle /\ ref[r] # 0
    /\ req' = [req EXCEPT ![p] = [op |-> "update", rev |-> r, read |-> ref[r], assignees |-> assignees]]
    /\ UNCHANGED <<versions, ref, mains, comments, notices, mails>>

CreateReviewComment(p, r, author, parent, mentions) ==
    /\ req[p] = Idle /\ ref[r] # 0
    /\ req' = [req EXCEPT ![p] = [op |-> "comment", rev |-> r, read |-> ref[r], actor |-> author,
                                  parent |-> parent, mentions |-> mentions]]
    /\ UNCHANGED <<versions, ref, mains, comments, notices, mails>>

(* snap.main follows a merge that can read the changeset and its head; what  *)
(* cannot be read is skipped without a word, and the merge is committed. The *)
(* error of the second ForceSetRef is dropped too, but then Postgres aborts  *)
(* the transaction and the commit fails.                                     *)
MergeMovesMain(r, state) ==
    IF state = "merged" /\ HeadOf[r] # NoSnap
    THEN \/ /\ snapMain' = HeadOf[r] /\ mainLog' = mainLog \cup {Len(versions) + 1}
            /\ UNCHANGED unread
         \/ /\ unread' = unread \cup {Len(versions) + 1}
            /\ UNCHANGED <<snapMain, mainLog>>
    ELSE UNCHANGED mains

StateNotice(q) ==
    LET v == versions[q.read] IN
    [kind |-> IF q.state = "changes_requested" THEN "changes" ELSE "state",
     rev |-> q.rev, state |-> IF q.state = "open" THEN "ready" ELSE q.state,
     author |-> v.author, actor |-> q.actor, reviewers |-> v.assignees]

UpdateReviewStateCommit(p) ==
    LET q == req[p] IN
    /\ q.op = "state"
    /\ StoreVersion(q.rev, [versions[q.read] EXCEPT !.state = q.state, !.from = q.read])
    /\ MergeMovesMain(q.rev, q.state)
    /\ Notify(StateNotice(q))
    /\ req' = [req EXCEPT ![p] = Idle]
    /\ UNCHANGED <<comments, mails>>

UpdateReviewCommit(p) ==
    LET q == req[p] IN
    /\ q.op = "update"
    /\ StoreVersion(q.rev, [versions[q.read] EXCEPT !.assignees = q.assignees, !.from = q.read])
    /\ req' = [req EXCEPT ![p] = Idle]
    /\ UNCHANGED <<mains, comments, notices, mails>>

(* The edge hangs off the version the handler read, not off the review.     *)
CreateReviewCommentCommit(p) ==
    LET q == req[p] IN
    /\ q.op = "comment" /\ Cardinality(comments) < MaxComments
    /\ comments' = comments \cup {[id |-> Cardinality(comments) + 1, rev |-> q.rev, on |-> q.read, author |-> q.actor]}
    /\ Notify([kind |-> "comment", rev |-> q.rev, on |-> q.read, author |-> versions[q.read].author,
               actor |-> q.actor, parent |-> q.parent, mentions |-> q.mentions])
    /\ req' = [req EXCEPT ![p] = Idle]
    /\ UNCHANGED <<versions, ref, mains, mails>>

(* A bug to catch: the refs are set on the connection, not in the           *)
(* transaction that is then rolled back.                                    *)
RollbackKeepsRefs(p) ==
    IF req[p].op = "state" THEN MergeMovesMain(req[p].rev, req[p].state) ELSE UNCHANGED mains

ReviewRollback(p) == UNCHANGED mains

(* A bug to catch: the notice is sent before the commit. *)
CommitFailsNotified(p) ==
    /\ req[p] # Idle
    /\ notices' = notices \cup (IF req[p].op = "state" THEN {StateNotice(req[p])} ELSE {})
    /\ req' = [req EXCEPT ![p] = Idle]
    /\ UNCHANGED <<versions, ref, mains, comments, mails>>

CommitFails(p) ==
    /\ req[p] # Idle
    /\ ReviewRollback(p)
    /\ req' = [req EXCEPT ![p] = Idle]
    /\ UNCHANGED <<versions, ref, comments, notices, mails>>

-----------------------------------------------------------------------------
(* "" when the parent is not among the comments of that version.            *)
findCommentAuthor(on, id) ==
    LET found == {c \in comments : c.on = on /\ c.id = id}
    IN  IF found = {} THEN "" ELSE (CHOOSE c \in found : TRUE).author

-----------------------------------------------------------------------------
(* Notices. The goroutine of notifyReviewCreated reads the ref again.       *)

notifyReviewCreated(n) ==
    LET v == versions[ref[n.rev]] IN
    /\ n.kind = "pushed"
    /\ notices' = (notices \ {n}) \cup
          (IF v.state \in {"draft", "open"}
           THEN {[kind |-> "review", rev |-> n.rev, author |-> v.author, reviewers |-> v.assignees]} ELSE {})
    /\ UNCHANGED <<versions, ref, mains, comments, req, mails>>

(* The call to the control plane is not repeated when it fails.             *)
NoticeLost(n) ==
    /\ notices' = notices \ {n}
    /\ UNCHANGED <<versions, ref, mains, comments, req, mails>>

Known(name) == name \in DOMAIN Account

(* One recipient of the loop: names already notified, names without an      *)
(* account and addresses already notified are skipped.                      *)
SendOnce(acc, name) ==
    IF name \in acc.notified \/ ~Known(name) THEN acc
    ELSE IF Account[name] \in acc.notified THEN acc
    ELSE [notified |-> acc.notified \cup {name, Account[name]}, sent |-> Append(acc.sent, Account[name])]

SendEach(start, names) ==
    LET after[i \in 0 .. Len(names)] == IF i = 0 THEN start ELSE SendOnce(after[i - 1], names[i])
    IN  after[Len(names)].sent

SendAll(names, self) == SendEach([notified |-> {self}, sent |-> <<>>], names)

NotifyReview(n) == SendAll(n.reviewers, n.author)

(* The reply's or the review's author first, without the address check.     *)
NotifyComment(n) ==
    LET parent  == findCommentAuthor(n.on, n.parent)
        primary == IF parent # "" THEN parent ELSE n.author
        first   == IF primary # n.actor /\ Known(primary)
                   THEN [notified |-> {n.actor, primary, Account[primary]}, sent |-> <<Account[primary]>>]
                   ELSE [notified |-> {n.actor}, sent |-> <<>>]
    IN  SendEach(first, n.mentions)

NotifyRequestChanges(n) == IF Known(n.author) THEN <<Account[n.author]>> ELSE <<>>

NotifyReviewState(n) ==
    CASE n.state \in {"merged", "abandoned"} -> SendAll(<<n.author>> \o n.reviewers, n.actor)
      [] n.state = "approved"                -> SendAll(<<n.author>>, n.actor)
      [] n.state = "ready"                   -> SendAll(n.reviewers, n.actor)

Deliver(n) ==
    /\ n.kind # "pushed"
    /\ mails' = CASE n.kind = "review"  -> NotifyReview(n)
                  [] n.kind = "comment" -> NotifyComment(n)
                  [] n.kind = "changes" -> NotifyRequestChanges(n)
                  [] n.kind = "state"   -> NotifyReviewState(n)
    /\ notices' = notices \ {n}
    /\ UNCHANGED <<versions, ref, mains, comments, req>>

-----------------------------------------------------------------------------
ReviewsNext ==
    \/ \E r \in Ids, a \in Authors : CreateReview(r, a) \/ \E s \in Pushed : PushReview(r, a, s)
    \/ \E p \in Requests, r \in Ids :
         \/ \E s \in States, a \in Authors : UpdateReviewState(p, r, s, a)
         \/ \E as \in NameLists : UpdateReview(p, r, as)
         \/ \E a \in Authors, parent \in 0 .. MaxComments, ms \in NameLists :
                CreateReviewComment(p, r, a, parent, ms)
    \/ \E p \in Requests :
         \/ UpdateReviewStateCommit(p) \/ UpdateReviewCommit(p)
         \/ CreateReviewCommentCommit(p) \/ CommitFails(p)
    \/ \E n \in notices : notifyReviewCreated(n) \/ NoticeLost(n) \/ Deliver(n)

ReviewsSpec == ReviewsInit /\ [][ReviewsNext]_reviewVars

-----------------------------------------------------------------------------
(* The types of the variables. *)
ReviewsTypeOK ==
    /\ \A i \in DOMAIN versions : versions[i].state \in States /\ versions[i].from \in 0 .. i - 1
    /\ ref \in [Ids -> 0 .. Len(versions)]
    /\ \A r \in Ids : ref[r] # 0 => versions[ref[r]].rev = r
    /\ \A c \in comments : c.on \in DOMAIN versions
    /\ unread \subseteq DOMAIN versions

(* The version j replaced the head that its request had read.               *)
Replaces(i, j) ==
    /\ i < j /\ versions[i].rev = versions[j].rev
    /\ \A k \in i + 1 .. j - 1 : versions[k].rev # versions[j].rev
Undisputed(j) == \A i \in DOMAIN versions : Replaces(i, j) => versions[j].from = i

(* What review.<id> points to stays merged, or abandoned, from the commit   *)
(* that ended the review on, until a version replaces a head it was not     *)
(* made from: one whose request read before another's commit, or one that a *)
(* client pushes (routes.go:2525; the read is not in the transaction).      *)
EndingsLast ==
    \A i, j \in DOMAIN versions :
        /\ i < j /\ versions[i].rev = versions[j].rev
        /\ versions[i].state \in {"merged", "abandoned"}
        /\ \A k \in i + 1 .. j : versions[k].rev = versions[i].rev => Undisputed(k)
        => versions[j].state = versions[i].state

(* The versions with which a request turned a review into a merged one whose *)
(* changeset has a head.                                                     *)
Merges ==
    {i \in DOMAIN versions :
        LET v == versions[i] IN
        /\ v.from # 0 /\ v.state = "merged" /\ versions[v.from].state # "merged"
        /\ HeadOf[v.rev] # NoSnap}

(* A merge that is committed has moved snap.main, except those that could   *)
(* not read the changeset; no merge that is not committed has; and          *)
(* snap.main is the head of the last that did (routes.go:2603-2627).        *)
MergeIsAtomic ==
    /\ mainLog = Merges \ unread
    /\ mainLog = {} => snapMain = NoSnap
    /\ \A i \in mainLog :
          (\A j \in mainLog : j <= i) => snapMain = HeadOf[versions[i].rev]

(* The goroutines speak of committed updates only: the state in a notice is *)
(* the state of some version of that review.                                *)
NoticesAreCommitted ==
    \A n \in notices : n.kind \in {"state", "changes"} =>
        \E i \in DOMAIN versions : versions[i].rev = n.rev /\
            versions[i].state = (IF n.state = "ready" THEN "open" ELSE n.state)

(* An account gets one mail about an event, however many of its names are   *)
(* among the recipients (notifications.go: notified).                       *)
OneMailPerAccount == IsInjective(mails)

(* A review ends once, unless requests overlap, and a merge happens as a    *)
(* whole or not at all, unless its changeset cannot be read.                *)
MergesAreFinal == ReviewsTypeOK /\ EndingsLast /\ MergeIsAtomic

(* What people are told is true, and they are told once.                    *)
NoticesAreSound == NoticesAreCommitted /\ OneMailPerAccount
=============================================================================
