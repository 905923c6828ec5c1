----------------------------- MODULE RepoRegistry -----------------------------
(***************************************************************************)
(* The registry of open repositories (kailab/repo/registry.go): a map from *)
(* repository to handle, a least-recently-used list, the write lock r.mu   *)
(* and one handle lock each, used by the middleware that wraps every       *)
(* repository request, by the create and delete requests, and by the       *)
(* goroutine that closes idle handles.                                     *)
(*                                                                         *)
(* A critical section is one action, except the two that walk the list:    *)
(* they hold r.mu throughout and take a handle's lock only to look at it,  *)
(* so an Acquire, which does not need r.mu, gets in between.  A handle     *)
(* nobody refers to any more is garbage and its identity is used again.    *)
(***************************************************************************)
EXTENDS Integers, Sequences, FiniteSets, SequencesExt

CONSTANTS
    Repos,      \* repositories
    Requests,   \* goroutines serving one request at a time
    Reaper,     \* the goroutine of reapLoop
    Handles,    \* identities of handles
    NoHandle, NoRepo, Nobody,
    MaxOpen     \* capacity of the list

(* The identities are told apart, and a server has finitely many requests  *)
(* in flight and room for a repository.                                    *)
RegistryAssumption ==
    /\ Reaper \notin Requests /\ Nobody \notin Requests \cup {Reaper}
    /\ NoHandle \notin Handles /\ NoRepo \notin Repos
    /\ IsFiniteSet(Requests)
    /\ MaxOpen \in Nat \ {0}

VARIABLES
    disk,     \* repositories with a database file
    dirs,     \* repositories with a directory
    repos,    \* the map of open handles
    lru,      \* the list of keys, most recently used first
    handle,   \* the handles
    mu,       \* who holds r.mu for longer than one action
    req       \* what each goroutine does

vars == <<disk, dirs, repos, lru, handle, mu, req>>

Actors == Requests \cup {Reaper}

Closed == [repo |-> NoRepo, active |-> 0, open |-> FALSE, idle |-> FALSE]
Ready  == [pc |-> "ready", op |-> "none", repo |-> NoRepo, h |-> NoHandle, at |-> 0]

Init ==
    /\ disk   \in SUBSET Repos
    /\ dirs   = disk
    /\ repos  = [r \in Repos |-> NoHandle]
    /\ lru    = <<>>
    /\ handle = [h \in Handles |-> Closed]
    /\ mu     = Nobody
    /\ req    = [a \in Actors |-> Ready]

-----------------------------------------------------------------------------
(* Helpers.                                                                *)

OpenRepos == {r \in Repos : repos[r] # NoHandle}
At(a, p)  == req[a].pc = p
Goto(a, p) == req' = [req EXCEPT ![a] = [@ EXCEPT !.pc = p]]
Have(a, h) == req' = [req EXCEPT ![a] = [@ EXCEPT !.pc = "acquire", !.h = h]]
Done(a)    == req' = [req EXCEPT ![a] = Ready]

(* list.Element of a closed handle is in no list: moving it does nothing. *)
Touch(h) ==
    /\ handle' = [handle EXCEPT ![h] = [@ EXCEPT !.idle = FALSE]]
    /\ lru' = IF handle[h].open
              THEN <<handle[h].repo>> \o RemoveFirst(lru, handle[h].repo) ELSE lru

(* closeRepoLocked.  The requests that have the handle keep counting on it. *)
CloseRepo(h) ==
    /\ handle' = [handle EXCEPT ![h] = [Closed EXCEPT !.active = handle[h].active]]
    /\ repos'  = [repos EXCEPT ![handle[h].repo] = NoHandle]
    /\ lru'    = RemoveFirst(lru, handle[h].repo)

(* No goroutine and no map entry refers to the handle. *)
Garbage(h) == ~handle[h].open /\ \A a \in Actors : req[a].h # h

-----------------------------------------------------------------------------
(* WithRepo: Get, Acquire, the request itself, Release.                    *)

BeginRequest(a) ==
    /\ At(a, "ready")
    /\ \E r \in Repos :
          \/ req' = [req EXCEPT ![a] = [Ready EXCEPT !.pc = "get", !.repo = r, !.op = "get"]]
          \/ req' = [req EXCEPT ![a] = [Ready EXCEPT !.pc = "stat", !.repo = r,
                                                     !.op = "create"]]
          \/ req' = [req EXCEPT ![a] = [Ready EXCEPT !.pc = "delete", !.repo = r,
                                                     !.op = "delete"]]
    /\ UNCHANGED <<disk, dirs, repos, lru, handle, mu>>

(* The fast path reads the map under the read lock. *)
GetFast(a) ==
    /\ At(a, "get") /\ mu = Nobody
    /\ LET h == repos[req[a].repo] IN
       req' = [req EXCEPT ![a] = [@ EXCEPT !.pc = IF h # NoHandle THEN "touch" ELSE "slow",
                                           !.h = h]]
    /\ UNCHANGED <<disk, dirs, repos, lru, handle, mu>>

TouchFound(a) ==
    /\ At(a, "touch") /\ mu = Nobody
    /\ Touch(req[a].h)
    /\ Goto(a, "acquire")
    /\ UNCHANGED <<disk, dirs, repos, mu>>

GetSlow_noDoubleCheck(a) ==  \* slip: the map is not read again
    /\ At(a, "slow") /\ mu = Nobody
    /\ IF req[a].repo \in disk THEN mu' = a /\ Goto(a, "evict")
                               ELSE Done(a) /\ UNCHANGED mu
    /\ UNCHANGED <<disk, dirs, repos, lru, handle>>

(* The slow path, with r.mu: found after all, no such file, or to be       *)
(* opened, for which the lock is kept.                                     *)
GetSlow(a) ==
    /\ At(a, "slow") /\ mu = Nobody
    /\ LET r == req[a].repo IN
       \/ /\ repos[r] # NoHandle
          /\ Touch(repos[r]) /\ Have(a, repos[r]) /\ UNCHANGED mu
       \/ /\ repos[r] = NoHandle /\ r \notin disk
          /\ Done(a) /\ UNCHANGED <<lru, handle, mu>>
       \/ /\ repos[r] = NoHandle /\ r \in disk
          /\ mu' = a /\ Goto(a, "evict") /\ UNCHANGED <<lru, handle>>
    /\ UNCHANGED <<disk, dirs, repos>>

Acquire(a) ==
    /\ At(a, "acquire")
    /\ handle' = [handle EXCEPT ![req[a].h].active = @ + 1, ![req[a].h].idle = FALSE]
    /\ Goto(a, "use")
    /\ UNCHANGED <<disk, dirs, repos, lru, mu>>

(* The request is over. *)
Release(a) ==
    /\ At(a, "use")
    /\ handle' = [handle EXCEPT ![req[a].h].active = @ - 1, ![req[a].h].idle = FALSE]
    /\ Done(a)
    /\ UNCHANGED <<disk, dirs, repos, lru, mu>>

-----------------------------------------------------------------------------
(* Create.                                                                 *)

StatNew(a) ==
    /\ At(a, "stat")
    /\ IF req[a].repo \in disk THEN Done(a) ELSE Goto(a, "mkdir")
    /\ UNCHANGED <<disk, dirs, repos, lru, handle, mu>>

MakeDirs(a) ==
    /\ At(a, "mkdir")
    /\ dirs' = dirs \cup {req[a].repo}
    /\ Goto(a, "create")
    /\ UNCHANGED <<disk, repos, lru, handle, mu>>

CreateLocked(a) ==
    /\ At(a, "create") /\ mu = Nobody
    /\ IF repos[req[a].repo] # NoHandle THEN Done(a) /\ UNCHANGED mu
                                        ELSE mu' = a /\ Goto(a, "evict")
    /\ UNCHANGED <<disk, dirs, repos, lru, handle>>

-----------------------------------------------------------------------------
(* openRepoLocked and evictOneLocked, with r.mu held.                      *)

EvictLoop(a) ==
    /\ At(a, "evict")
    /\ req' = [req EXCEPT ![a] = [@ EXCEPT !.at = Len(lru),
                 !.pc = IF Cardinality(OpenRepos) >= MaxOpen THEN "scan" ELSE "open"]]
    /\ UNCHANGED <<disk, dirs, repos, lru, handle, mu>>

ScanOne_tailOnly(a) ==  \* slip: only the last element is looked at
    /\ At(a, "scan")
    /\ IF req[a].at > 0 /\ handle[repos[lru[req[a].at]]].active = 0
         THEN Goto(a, "close") ELSE Goto(a, "open")
    /\ UNCHANGED <<disk, dirs, repos, lru, handle, mu>>

(* One element, from the back; when all are active the loop gives up. *)
ScanOne(a) ==
    /\ At(a, "scan")
    /\ \/ req[a].at = 0 /\ Goto(a, "open")
       \/ /\ req[a].at > 0
          /\ IF handle[repos[lru[req[a].at]]].active = 0
               THEN Goto(a, "close")
               ELSE req' = [req EXCEPT ![a].at = @ - 1]
    /\ UNCHANGED <<disk, dirs, repos, lru, handle, mu>>

CloseVictim(a) ==
    /\ At(a, "close") /\ a # Reaper
    /\ CloseRepo(repos[lru[req[a].at]])
    /\ Goto(a, "evict")
    /\ UNCHANGED <<disk, dirs, mu>>

(* The database is opened, which creates its file, unless the directory    *)
(* has been renamed since Create made it.  Handles bounds the identities   *)
(* in use at once.                                                         *)
OpenRepo(a) ==
    /\ At(a, "open")
    /\ \E g \in Handles : Garbage(g)
    /\ LET r == req[a].repo IN
       /\ r \in dirs
       /\ LET h == CHOOSE g \in Handles : Garbage(g) IN
            /\ handle' = [handle EXCEPT ![h] = [Closed EXCEPT !.repo = r, !.open = TRUE]]
            /\ repos'  = [repos EXCEPT ![r] = h]
            /\ IF req[a].op = "get" THEN Have(a, h) ELSE Done(a)
       /\ lru'  = <<r>> \o lru
       /\ disk' = disk \cup {r}
    /\ mu' = Nobody
    /\ UNCHANGED dirs

(* sql.Open, the pragmas or the schema fail. *)
OpenFails(a) ==
    /\ At(a, "open")
    /\ Done(a)
    /\ mu' = Nobody
    /\ UNCHANGED <<disk, dirs, repos, lru, handle>>

-----------------------------------------------------------------------------
(* Delete and Close.                                                       *)

Delete_keepsOpen(a) ==  \* slip: the directory is renamed under an open handle
    /\ At(a, "delete") /\ mu = Nobody
    /\ disk' = disk \ {req[a].repo}
    /\ dirs' = dirs \ {req[a].repo}
    /\ Done(a)
    /\ UNCHANGED <<repos, lru, handle, mu>>

(* The handle is closed even when it is in use; the rename may fail. *)
Delete(a) ==
    /\ At(a, "delete") /\ mu = Nobody
    /\ LET r == req[a].repo IN
       /\ IF repos[r] # NoHandle THEN CloseRepo(repos[r])
                                 ELSE UNCHANGED <<repos, lru, handle>>
       /\ \/ /\ r \in dirs
             /\ disk' = disk \ {r} /\ dirs' = dirs \ {r}
          \/ UNCHANGED <<disk, dirs>>
    /\ Done(a)
    /\ UNCHANGED mu

(* Close at the end of the process; goroutines may outlive it a while. *)
CloseAll ==
    /\ mu     = Nobody /\ lru # <<>>
    /\ handle' = [h \in Handles |-> [Closed EXCEPT !.active = handle[h].active]]
    /\ repos'  = [r \in Repos |-> NoHandle]
    /\ lru'    = <<>>
    /\ UNCHANGED <<disk, dirs, mu, req>>

-----------------------------------------------------------------------------
(* reapIdle.                                                               *)

(* lastUsed falls behind the cutoff. *)
GrowIdle(h) ==
    /\ handle[h].open /\ ~handle[h].idle
    /\ handle' = [handle EXCEPT ![h] = [@ EXCEPT !.idle = TRUE]]
    /\ UNCHANGED <<disk, dirs, repos, lru, mu, req>>

ReapBegin ==
    /\ At(Reaper, "ready") /\ mu = Nobody
    /\ lru # <<>>
    /\ mu' = Reaper
    /\ req' = [req EXCEPT ![Reaper] = [Ready EXCEPT !.pc = "reap", !.at = Len(lru)]]
    /\ UNCHANGED <<disk, dirs, repos, lru, handle>>

ReapOne ==
    /\ At(Reaper, "reap") /\ req[Reaper].at > 0
    /\ LET h == handle[repos[lru[req[Reaper].at]]] IN
       IF h.active = 0 /\ h.idle
         THEN Goto(Reaper, "close")
         ELSE req' = [req EXCEPT ![Reaper].at = @ - 1]
    /\ UNCHANGED <<disk, dirs, repos, lru, handle, mu>>

ReapClose ==
    /\ At(Reaper, "close")
    /\ CloseRepo(repos[lru[req[Reaper].at]])
    /\ req' = [req EXCEPT ![Reaper].pc = "reap", ![Reaper].at = @ - 1]
    /\ UNCHANGED <<disk, dirs, mu>>

ReapEnd ==
    /\ At(Reaper, "reap") /\ req[Reaper].at = 0
    /\ mu' = Nobody
    /\ Done(Reaper)
    /\ UNCHANGED <<disk, dirs, repos, lru, handle>>

-----------------------------------------------------------------------------
RequestStep(a) ==
    \/ GetFast(a) \/ TouchFound(a) \/ GetSlow(a) \/ Acquire(a) \/ Release(a)
    \/ StatNew(a) \/ MakeDirs(a) \/ CreateLocked(a)
    \/ EvictLoop(a) \/ ScanOne(a) \/ CloseVictim(a) \/ OpenRepo(a) \/ OpenFails(a)
    \/ Delete(a)

ReaperStep == ReapBegin \/ ReapOne \/ ReapClose \/ ReapEnd

Next ==
    \/ \E a \in Requests : BeginRequest(a) \/ RequestStep(a)
    \/ ReaperStep
    \/ CloseAll
    \/ \E h \in Handles : GrowIdle(h)

Spec == Init /\ [][Next]_vars

-----------------------------------------------------------------------------
(* Properties.                                                             *)

PCs == {"ready", "get", "touch", "slow", "acquire", "use", "stat", "mkdir", "create",
        "evict", "scan", "close", "open", "delete", "reap"}

TypeOK ==
    /\ disk \subseteq dirs /\ dirs \subseteq Repos
    /\ repos  \in [Repos -> Handles \cup {NoHandle}]
    /\ lru    \in Seq(Repos)
    /\ handle \in [Handles -> [repo : Repos \cup {NoRepo}, active : Nat,
                               open : BOOLEAN, idle : BOOLEAN]]
    /\ mu     \in Actors \cup {Nobody}
    /\ req    \in [Actors -> [pc : PCs, op : {"none", "get", "create", "delete"},
                              repo : Repos \cup {NoRepo}, h : Handles \cup {NoHandle},
                              at : Nat]]

(* The map, the list and the open databases tell the same story at every   *)
(* moment: each key is once in the list iff it is in the map (eviction     *)
(* looks up every listed key without a test), a mapped handle is an open   *)
(* one of that repository (closing it twice would panic), and an open one  *)
(* is mapped (nothing else would ever close it).                           *)
MapAgreesWithList ==
    /\ ToSet(lru) = OpenRepos /\ Len(lru) = Cardinality(OpenRepos)
    /\ \A r \in OpenRepos : handle[repos[r]].open /\ handle[repos[r]].repo = r
    /\ \A h \in Handles : handle[h].open => repos[handle[h].repo] = h

(* registry.go: MaxOpen is the capacity of the list.  Only handles pinned  *)
(* by requests make the registry exceed it, so the number of open          *)
(* databases is bounded by the larger of MaxOpen and the requests.         *)
CapacityBound ==
    Cardinality(OpenRepos) <= IF MaxOpen > Cardinality(Requests) THEN MaxOpen
                              ELSE Cardinality(Requests)

(* No request can get a handle on a repository whose directory has been    *)
(* renamed away: an open repository is on disk.                            *)
OpenReposExist == OpenRepos \subseteq disk

-----------------------------------------------------------------------------
(* What the repository says of the registry and concurrent requests        *)
(* contradict.                                                             *)

(* registry.go: Acquire marks a handle as in-use (prevents eviction).      *)
(* Neither an eviction nor the reaper closes a handle that is in use.      *)
AcquirePreventsEviction ==
    \A a \in Actors : At(a, "close") => handle[repos[lru[req[a].at]]].active = 0
=============================================================================
