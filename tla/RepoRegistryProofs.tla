-------------------------- MODULE RepoRegistryProofs --------------------------
(***************************************************************************)
(* Proofs about RepoRegistry for every set of repositories, requests and   *)
(* handles and every capacity: the map, the list and the open databases    *)
(* agree, an open repository is on disk, and the number of open            *)
(* repositories is bounded although pinned ones are not evicted.           *)
(***************************************************************************)
EXTENDS RepoRegistry, FiniteSetTheorems, TLAPS

-----------------------------------------------------------------------------
(* Lists without repetitions.                                              *)

(* The list s names each repository of S once. *)
Lists(s, S) ==
    /\ s \in Seq(Repos)
    /\ \A i, j \in 1..Len(s) : s[i] = s[j] => i = j
    /\ S = {s[i] : i \in 1..Len(s)}

(* list.Remove: the elements after the removed one move up. *)
LEMMA RemoveAtElements ==
    ASSUME NEW s \in Seq(Repos), NEW k \in 1..Len(s)
    PROVE  /\ RemoveAt(s, k) \in Seq(Repos)
           /\ Len(RemoveAt(s, k)) = Len(s) - 1
           /\ \A i \in 1..(Len(s) - 1) : /\ i < k => RemoveAt(s, k)[i] = s[i]
                                         /\ i >= k => RemoveAt(s, k)[i] = s[i + 1]
<1> DEFINE a == SubSeq(s, 1, k - 1)
           b == SubSeq(s, k + 1, Len(s))
<1>0. Len(s) \in Nat /\ k \in Nat
  OBVIOUS
<1>1. a \in Seq(Repos) /\ Len(a) = k - 1 /\ \A i \in 1..(k - 1) : a[i] = s[i]
  OBVIOUS
<1>2. b \in Seq(Repos) /\ Len(b) = Len(s) - k /\ \A i \in 1..(Len(s) - k) : b[i] = s[i + k]
  OBVIOUS
<1>3. RemoveAt(s, k) = a \o b
  BY DEF RemoveAt
<1>4. a \in Seq(Repos) /\ b \in Seq(Repos)
  BY <1>1, <1>2
<1> HIDE DEF a, b
<1>5. /\ a \o b \in Seq(Repos) /\ Len(a \o b) = Len(a) + Len(b)
      /\ \A i \in 1..(Len(a) + Len(b)) :
             (a \o b)[i] = IF i <= Len(a) THEN a[i] ELSE b[i - Len(a)]
  BY <1>4
<1>6. Len(a) + Len(b) = Len(s) - 1
  BY <1>0, <1>1, <1>2
<1>7. ASSUME NEW i \in 1..(Len(s) - 1), i < k PROVE (a \o b)[i] = s[i]
  <2>1. i <= Len(a) /\ i \in 1..(k - 1)
    BY <1>0, <1>1, <1>7
  <2> QED BY <1>1, <1>5, <1>6, <2>1
<1>8. ASSUME NEW i \in 1..(Len(s) - 1), i >= k PROVE (a \o b)[i] = s[i + 1]
  <2>1. ~(i <= Len(a)) /\ i - Len(a) = i - k + 1 /\ i - k + 1 \in 1..(Len(s) - k)
    BY <1>0, <1>1, <1>8
  <2>2. (a \o b)[i] = b[i - k + 1]
    BY <1>5, <1>6, <2>1
  <2>3. b[i - k + 1] = s[(i - k + 1) + k] /\ (i - k + 1) + k = i + 1
    BY <1>0, <1>2, <2>1
  <2> QED BY <2>2, <2>3
<1>9. a \o b \in Seq(Repos) /\ Len(a \o b) = Len(s) - 1
  BY <1>5, <1>6
<1> QED BY <1>3, <1>7, <1>8, <1>9

(* Removing an element of a list. *)
LEMMA ListRemove ==
    ASSUME NEW s, NEW S, Lists(s, S), NEW r \in S
    PROVE  /\ Lists(RemoveFirst(s, r), S \ {r})
           /\ Len(RemoveFirst(s, r)) = Len(s) - 1
<1>1. PICK k \in 1..Len(s) : r = s[k]
  BY DEF Lists
<1>2. /\ s \in Seq(Repos) /\ Len(s) \in Nat
      /\ \A i, j \in 1..Len(s) : s[i] = s[j] => i = j
  BY DEF Lists
<1>3. RemoveFirst(s, r) = RemoveAt(s, k)
  <2>1. {i \in 1..Len(s) : s[i] = r} = {k}
    BY <1>1, <1>2
  <2>2. Min({k}) = k
    BY DEF Min
  <2> QED BY <1>1, <2>1, <2>2 DEF RemoveFirst, SelectInSeq
<1> DEFINE t == RemoveAt(s, k)
<1>4. /\ t \in Seq(Repos) /\ Len(t) = Len(s) - 1
      /\ \A i \in 1..(Len(s) - 1) : /\ i < k => t[i] = s[i]
                                    /\ i >= k => t[i] = s[i + 1]
  BY <1>2, RemoveAtElements
<1> HIDE DEF t
<1>5. \A i, j \in 1..Len(t) : t[i] = t[j] => i = j
  BY <1>1, <1>2, <1>4
<1>6. ASSUME NEW x \in S, x # r PROVE \E i \in 1..Len(t) : t[i] = x
  <2>1. PICK j \in 1..Len(s) : s[j] = x
    BY DEF Lists
  <2>2. j # k
    BY <1>1, <1>6, <2>1
  <2>3. CASE j < k
    <3>1. j \in 1..Len(t) /\ t[j] = s[j]
      BY <1>1, <1>2, <1>4, <2>3
    <3> QED BY <2>1, <3>1
  <2>4. CASE j > k
    <3>1. j - 1 \in 1..Len(t) /\ t[j - 1] = s[(j - 1) + 1]
      BY <1>1, <1>2, <1>4, <2>4
    <3>2. (j - 1) + 1 = j
      OBVIOUS
    <3> QED BY <2>1, <3>1, <3>2
  <2> QED BY <2>2, <2>3, <2>4
<1>7. ASSUME NEW i \in 1..Len(t) PROVE t[i] \in S \ {r}
  <2> DEFINE n == IF i < k THEN i ELSE i + 1
  <2>0. n \in 1..Len(s) /\ n # k /\ t[i] = s[n]
    BY <1>1, <1>2, <1>4
  <2>1. PICK m \in 1..Len(s) : t[i] = s[m] /\ m # k
    BY <2>0
  <2> QED BY <1>1, <1>2, <2>1 DEF Lists
<1>8. Lists(t, S \ {r})
  <2>1. S \ {r} = {t[i] : i \in 1..Len(t)}
    BY <1>6, <1>7
  <2> QED BY <1>4, <1>5, <2>1 DEF Lists
<1> QED BY <1>3, <1>4, <1>8 DEF t

(* Putting a new element at the front. *)
LEMMA ListPushFront ==
    ASSUME NEW s, NEW S, Lists(s, S), NEW r \in Repos, r \notin S
    PROVE  Lists(<<r>> \o s, S \cup {r}) /\ Len(<<r>> \o s) = Len(s) + 1
<1> DEFINE t == <<r>> \o s
<1>1. /\ s \in Seq(Repos) /\ Len(s) \in Nat
      /\ \A i, j \in 1..Len(s) : s[i] = s[j] => i = j
  BY DEF Lists
<1>2. t \in Seq(Repos) /\ Len(t) = Len(s) + 1 /\ t[1] = r
  BY <1>1
<1>3. \A i \in 1..Len(s) : t[i + 1] = s[i]
  BY <1>1
<1> HIDE DEF t
<1>4. ASSUME NEW i \in 2..Len(t) PROVE t[i] = s[i - 1] /\ i - 1 \in 1..Len(s)
  <2>1. i - 1 \in 1..Len(s) /\ (i - 1) + 1 = i
    BY <1>1, <1>2
  <2> QED BY <1>3, <2>1
<1>5. \A i \in 2..Len(t) : t[i] \in S
  BY <1>4 DEF Lists
<1>6. ASSUME NEW i \in 1..Len(t), NEW j \in 1..Len(t), t[i] = t[j] PROVE i = j
  <2>1. CASE i = 1 \/ j = 1
    BY <1>1, <1>2, <1>5, <1>6, <2>1
  <2>2. CASE i \in 2..Len(t) /\ j \in 2..Len(t)
    <3>1. s[i - 1] = s[j - 1] /\ i - 1 \in 1..Len(s) /\ j - 1 \in 1..Len(s)
      BY <1>4, <1>6, <2>2
    <3>2. i - 1 = j - 1
      BY <1>1, <3>1
    <3> QED BY <1>1, <1>2, <3>2
  <2> QED BY <1>1, <1>2, <2>1, <2>2
<1>7. S \cup {r} = {t[i] : i \in 1..Len(t)}
  <2>1. ASSUME NEW x \in S PROVE \E i \in 1..Len(t) : t[i] = x
    <3>1. PICK j \in 1..Len(s) : s[j] = x
      BY DEF Lists
    <3>2. j + 1 \in 1..Len(t) /\ t[j + 1] = x
      BY <1>1, <1>2, <1>3, <3>1
    <3> QED BY <3>2
  <2>2. 1 \in 1..Len(t)
    BY <1>1, <1>2
  <2>3. \A i \in 1..Len(t) : t[i] \in S \cup {r}
    BY <1>1, <1>2, <1>5
  <2> QED BY <1>2, <2>1, <2>2, <2>3
<1> QED BY <1>2, <1>6, <1>7 DEF Lists, t

(* Moving an element to the front. *)
LEMMA ListMoveToFront ==
    ASSUME NEW s, NEW S, Lists(s, S), NEW r \in S
    PROVE  /\ Lists(<<r>> \o RemoveFirst(s, r), S)
           /\ Len(<<r>> \o RemoveFirst(s, r)) = Len(s)
<1> DEFINE t == RemoveFirst(s, r)
<1>1. Lists(t, S \ {r}) /\ Len(t) = Len(s) - 1
  BY ListRemove
<1>2. r \in Repos /\ r \notin S \ {r} /\ (S \ {r}) \cup {r} = S /\ Len(s) \in Nat
  BY DEF Lists
<1> HIDE DEF t
<1>3. Lists(<<r>> \o t, (S \ {r}) \cup {r}) /\ Len(<<r>> \o t) = Len(t) + 1
  BY <1>1, <1>2, ListPushFront
<1>4. Lists(<<r>> \o t, S)
  BY <1>2, <1>3, Zenon
<1>5. Len(<<r>> \o t) = Len(s)
  BY <1>1, <1>2, <1>3
<1> QED BY <1>4, <1>5 DEF t

(* A list is as long as its set is large. *)
LEMMA ListLength ==
    ASSUME NEW s, NEW S, Lists(s, S)
    PROVE  IsFiniteSet(S) /\ Cardinality(S) = Len(s) /\ ToSet(s) = S
<1>1. s \in Seq(Repos) /\ Len(s) \in Nat /\ DOMAIN s = 1..Len(s)
  BY DEF Lists
<1>2. s \in Bijection(1..Len(s), S)
  BY <1>1 DEF Lists, Bijection, Injection, Surjection, IsInjective
<1>3. ExistsBijection(1..Len(s), S)
  BY <1>2 DEF ExistsBijection
<1>4. Cardinality(S) = Len(s)
  BY <1>1, <1>3, FS_CountingElements
<1>5. IsFiniteSet(S)
  <2>1. \E n \in Nat : ExistsBijection(1..n, S)
    BY <1>1, <1>3
  <2> QED BY <2>1, FS_NatBijection
<1> QED BY <1>1, <1>4, <1>5 DEF Lists, ToSet
-----------------------------------------------------------------------------
(* The invariant.                                                          *)

HandleRec == [repo : Repos \cup {NoRepo}, active : Nat, open : BOOLEAN, idle : BOOLEAN]
ReqRec    == [pc : PCs, op : {"none", "get", "create", "delete"},
              repo : Repos \cup {NoRepo}, h : Handles \cup {NoHandle}, at : Nat]

LockPCs   == {"evict", "scan", "close", "open", "reap"}
NewPCs    == {"evict", "scan", "close", "open"}
HandlePCs == {"touch", "acquire", "use"}

(* r.mu is held exactly at these places, by one goroutine; a request that  *)
(* is past the map has a handle, and one that has begun a repository.      *)
ReqInv ==
    /\ \A a \in Actors : mu = a <=> req[a].pc \in LockPCs
    /\ req[Reaper].pc \in {"ready", "reap", "close"}
    /\ \A a \in Requests : /\ req[a].pc # "reap"
                           /\ req[a].pc \in HandlePCs => req[a].h \in Handles
                           /\ req[a].pc # "ready" => req[a].repo \in Repos

(* Where a walk over the list is, the list has an element. *)
PosInv ==
    \A a \in Actors : /\ req[a].pc \in {"scan", "reap"} => req[a].at <= Len(lru)
                      /\ req[a].pc = "close" => req[a].at \in 1..Len(lru)

(* What is about to be opened is not open. *)
NewInv ==
    \A a \in Requests : req[a].pc \in NewPCs => repos[req[a].repo] = NoHandle

(* The map, the list and the handles agree. *)
ListInv == Lists(lru, OpenRepos)
HandleInv ==
    /\ \A r \in OpenRepos : handle[repos[r]].open /\ handle[repos[r]].repo = r
    /\ \A h \in Handles : handle[h].open =>
           handle[h].repo \in Repos /\ repos[handle[h].repo] = h

(* A handle's counter counts the requests that use it. *)
Users(h) == {a \in Requests : req[a].pc = "use" /\ req[a].h = h}
UseInv   == \A h \in Handles : handle[h].active = Cardinality(Users(h))

RegInv ==
    /\ RegistryAssumption /\ TypeOK
    /\ ReqInv /\ PosInv /\ NewInv /\ ListInv /\ HandleInv /\ UseInv /\ OpenReposExist

LEMMA InitRegInv == RegistryAssumption /\ Init => RegInv
<1> SUFFICES ASSUME RegistryAssumption, Init PROVE RegInv
  OBVIOUS
<1>1. TypeOK
  BY DEF Init, TypeOK, RegistryAssumption, Closed, Ready, Actors, PCs
<1>2. OpenRepos = {} /\ Len(lru) = 0
  BY DEF Init, OpenRepos
<1>3. ReqInv /\ PosInv /\ NewInv
  BY DEF Init, ReqInv, PosInv, NewInv, RegistryAssumption, Ready, Actors, LockPCs, NewPCs,
     HandlePCs
<1>4. ListInv
  BY <1>2 DEF Init, ListInv, Lists
<1>5. HandleInv
  BY <1>2 DEF Init, HandleInv, Closed
<1>6. UseInv
  <2>1. \A h \in Handles : Users(h) = {} /\ handle[h].active = 0
    BY DEF Init, Users, Ready, Closed, Actors
  <2> QED BY <2>1, FS_EmptySet DEF UseInv
<1> QED BY <1>1, <1>2, <1>3, <1>4, <1>5, <1>6 DEF RegInv, OpenReposExist

(* A step of goroutine a that puts v for what it does. *)
StepsTo(a, v) ==
    /\ v \in ReqRec /\ req' = [req EXCEPT ![a] = v]
    /\ mu' = mu \/ (mu \in {Nobody, a} /\ mu' \in {Nobody, a})
    /\ mu' = a <=> v.pc \in LockPCs
    /\ a = Reaper => v.pc \in {"ready", "reap", "close"}
    /\ a # Reaper => /\ v.pc # "reap"
                     /\ v.pc \in HandlePCs => v.h \in Handles
                     /\ v.pc # "ready" => v.repo \in Repos
                     /\ v.pc \in NewPCs => repos'[v.repo] = NoHandle
    /\ v.pc \in {"scan", "reap"} => v.at <= Len(lru')
    /\ v.pc = "close" => v.at \in 1..Len(lru')

(* Others look at the list and the map only while they hold r.mu. *)
LEMMA ReqStep ==
    ASSUME RegInv, NEW a \in Actors, NEW v, StepsTo(a, v),
           UNCHANGED <<lru, repos>> \/ mu \in {Nobody, a}
    PROVE  /\ ReqInv' /\ PosInv' /\ NewInv'
           /\ req' \in [Actors -> ReqRec] /\ mu' \in Actors \cup {Nobody}
<1>1. /\ req \in [Actors -> ReqRec] /\ mu \in Actors \cup {Nobody}
      /\ ReqInv /\ PosInv /\ NewInv /\ RegistryAssumption
  BY DEF RegInv, TypeOK, ReqRec
<1> USE DEF StepsTo
<1>2. req'[a] = v /\ \A b \in Actors \ {a} : req'[b] = req[b]
  BY <1>1
<1>3. ReqInv'
  <2>1. ASSUME NEW b \in Actors PROVE mu' = b <=> req'[b].pc \in LockPCs
    <3>1. CASE b = a
      BY <1>2, <3>1
    <3>2. CASE b # a
      <4>1. mu' = b <=> mu = b
        BY <1>1, <3>2 DEF RegistryAssumption, Actors
      <4> QED BY <1>1, <1>2, <3>2, <4>1 DEF ReqInv
    <3> QED BY <3>1, <3>2
  <2>2. req'[Reaper].pc \in {"ready", "reap", "close"}
    BY <1>1, <1>2 DEF ReqInv, Actors
  <2>3. ASSUME NEW b \in Requests
        PROVE  /\ req'[b].pc # "reap"
               /\ req'[b].pc \in HandlePCs => req'[b].h \in Handles
               /\ req'[b].pc # "ready" => req'[b].repo \in Repos
    BY <1>1, <1>2 DEF ReqInv, Actors, RegistryAssumption
  <2> QED BY <2>1, <2>2, <2>3 DEF ReqInv
<1>4. ASSUME NEW b \in Actors, b # a, req[b].pc \in LockPCs
      PROVE  lru' = lru /\ repos' = repos
  BY <1>1, <1>4 DEF ReqInv, RegistryAssumption, Actors
<1>5. PosInv'
  <2>1. ASSUME NEW b \in Actors
        PROVE  /\ req'[b].pc \in {"scan", "reap"} => req'[b].at <= Len(lru')
               /\ req'[b].pc = "close" => req'[b].at \in 1..Len(lru')
    BY <1>1, <1>2, <1>4 DEF PosInv, LockPCs
  <2> QED BY <2>1 DEF PosInv
<1>6. NewInv'
  <2>1. ASSUME NEW b \in Requests, req'[b].pc \in NewPCs
        PROVE  repos'[req'[b].repo] = NoHandle
    BY <1>1, <1>2, <1>4, <2>1 DEF NewInv, NewPCs, LockPCs, Actors, RegistryAssumption
  <2> QED BY <2>1 DEF NewInv
<1>7. req' \in [Actors -> ReqRec] /\ mu' \in Actors \cup {Nobody}
  BY <1>1
<1> QED BY <1>3, <1>5, <1>6, <1>7

(* A handle whose owner and state stay. *)
LEMMA KeepHandles ==
    ASSUME RegInv, repos' = repos,
           \A h \in Handles : /\ handle'[h].open = handle[h].open
                              /\ handle'[h].repo = handle[h].repo
    PROVE  HandleInv' /\ OpenRepos' = OpenRepos
<1>1. OpenRepos' = OpenRepos /\ \A r \in OpenRepos : repos[r] \in Handles
  BY DEF RegInv, TypeOK, OpenRepos
<1> QED BY <1>1 DEF RegInv, HandleInv

(* Counters that stay while nobody comes or goes. *)
LEMMA KeepUsers ==
    ASSUME RegInv, NEW a \in Actors, NEW v, req' = [req EXCEPT ![a] = v],
           req[a].pc # "use", v.pc # "use",
           \A h \in Handles : handle'[h].active = handle[h].active
    PROVE  UseInv'
<1>1. req \in [Actors -> ReqRec] /\ UseInv
  BY DEF RegInv, TypeOK, ReqRec
<1>2. req'[a] = v /\ \A b \in Actors \ {a} : req'[b] = req[b]
  BY <1>1
<1>3. ASSUME NEW h \in Handles PROVE Users(h)' = Users(h)
  BY <1>2 DEF Users, Actors
<1> QED BY <1>1, <1>3 DEF UseInv

(* Steps that leave the map, the list and the handles alone. *)
LEMMA QuietStep ==
    ASSUME RegInv, NEW a \in Actors, NEW v, StepsTo(a, v),
           UNCHANGED <<repos, lru, handle>>,
           disk' = disk, dirs \subseteq dirs', dirs' \subseteq Repos,
           req[a].pc # "use", v.pc # "use"
    PROVE  RegInv'
<1>1. ReqInv' /\ PosInv' /\ NewInv' /\ req' \in [Actors -> ReqRec] /\ mu' \in Actors \cup {Nobody}
  BY ReqStep
<1>2. HandleInv' /\ OpenRepos' = OpenRepos
  BY KeepHandles
<1>3. UseInv'
  BY KeepUsers DEF StepsTo
<1>4. TypeOK'
  BY <1>1 DEF RegInv, TypeOK, ReqRec
<1>5. ListInv' /\ OpenReposExist'
  BY <1>2 DEF RegInv, ListInv, OpenReposExist
<1> QED BY <1>1, <1>2, <1>3, <1>4, <1>5 DEF RegInv
-----------------------------------------------------------------------------
(* The steps.                                                              *)

(* What the invariant says of the records. *)
LEMMA Types ==
    ASSUME RegInv
    PROVE  /\ req \in [Actors -> ReqRec] /\ mu \in Actors \cup {Nobody}
           /\ handle \in [Handles -> HandleRec]
           /\ repos \in [Repos -> Handles \cup {NoHandle}]
           /\ lru \in Seq(Repos) /\ Len(lru) \in Nat
           /\ disk \subseteq dirs /\ dirs \subseteq Repos
           /\ NoHandle \notin Handles /\ Requests \subseteq Actors /\ Reaper \in Actors
           /\ Reaper \notin Requests /\ Nobody \notin Actors
           /\ Actors = Requests \cup {Reaper}
BY DEF RegInv, TypeOK, ReqRec, HandleRec, RegistryAssumption, Actors

(* Every listed key is mapped to an open handle of that repository. *)
LEMMA Listed ==
    ASSUME RegInv, NEW i \in 1..Len(lru)
    PROVE  lru[i] \in OpenRepos /\ repos[lru[i]] \in Handles
BY DEF RegInv, ListInv, Lists, OpenRepos, TypeOK

LEMMA OpenFacts ==
    ASSUME RegInv, NEW r \in OpenRepos
    PROVE  /\ r \in Repos /\ repos[r] \in Handles
           /\ handle[repos[r]].open /\ handle[repos[r]].repo = r
BY DEF RegInv, HandleInv, OpenRepos, TypeOK

(* Going on to another place with the same record. *)
LEMMA GotoRec ==
    ASSUME RegInv, NEW a \in Actors, NEW p \in PCs
    PROVE  LET v == [req[a] EXCEPT !.pc = p] IN
           v \in ReqRec /\ v.pc = p /\ v.repo = req[a].repo /\ v.h = req[a].h
           /\ v.at = req[a].at
<1>1. req[a] \in ReqRec
  BY Types
<1> QED BY <1>1 DEF ReqRec

LEMMA ReadyRec == Ready \in ReqRec /\ Ready.pc = "ready"
BY DEF Ready, ReqRec, PCs

(* The steps of a request that only read. *)
LEMMA ReadingSteps ==
    ASSUME RegInv, NEW a \in Requests,
           BeginRequest(a) \/ GetFast(a) \/ StatNew(a) \/ MakeDirs(a) \/ CreateLocked(a)
           \/ EvictLoop(a) \/ ScanOne(a) \/ OpenFails(a)
    PROVE  RegInv'
<1>t. /\ req \in [Actors -> ReqRec] /\ a \in Actors /\ a # Reaper /\ a # Nobody
      /\ req[a] \in ReqRec /\ Len(lru) \in Nat
      /\ dirs \subseteq Repos /\ repos \in [Repos -> Handles \cup {NoHandle}]
  BY Types
<1>r. /\ req[a].pc # "ready" => req[a].repo \in Repos
      /\ mu = a <=> req[a].pc \in LockPCs
      /\ req[a].pc \in {"scan", "reap"} => req[a].at <= Len(lru)
      /\ req[a].pc \in NewPCs => repos[req[a].repo] = NoHandle
  BY <1>t DEF RegInv, ReqInv, PosInv, NewInv
<1> USE DEF ReqRec, PCs, LockPCs, NewPCs, HandlePCs
<1>1. CASE BeginRequest(a)
  <2>1. PICK v \in ReqRec : /\ req' = [req EXCEPT ![a] = v]
                            /\ v.pc \in {"get", "stat", "delete"} /\ v.repo \in Repos
    <3>1. PICK r \in Repos, p \in {"get", "stat", "delete"}, o \in {"get", "create", "delete"} :
              req' = [req EXCEPT ![a] = [Ready EXCEPT !.pc = p, !.repo = r, !.op = o]]
      BY <1>1 DEF BeginRequest
    <3> DEFINE w == [Ready EXCEPT !.pc = p, !.repo = r, !.op = o]
    <3>2. w \in ReqRec /\ w.pc = p /\ w.repo = r
      BY DEF Ready
    <3> HIDE DEF w
    <3> QED BY <3>1, <3>2 DEF w
  <2>2. req[a].pc = "ready" /\ UNCHANGED <<disk, dirs, repos, lru, handle, mu>>
    BY <1>1 DEF BeginRequest, At
  <2>9. StepsTo(a, v) /\ req[a].pc # "use" /\ v.pc # "use"
    BY <1>t, <1>r, <2>1, <2>2 DEF StepsTo
  <2> QED BY <1>t, <2>2, <2>9, QuietStep
<1>2. CASE GetFast(a)
  <2> DEFINE v == [req[a] EXCEPT !.pc = IF repos[req[a].repo] # NoHandle THEN "touch"
                                        ELSE "slow",
                                 !.h = repos[req[a].repo]]
  <2>1. req[a].pc = "get" /\ UNCHANGED <<disk, dirs, repos, lru, handle, mu>>
    BY <1>2 DEF GetFast, At
  <2>2. req' = [req EXCEPT ![a] = v]
    BY <1>2 DEF GetFast
  <2>3. /\ v \in ReqRec /\ v.pc \in {"touch", "slow"} /\ v.repo \in Repos
        /\ v.pc = "touch" => v.h \in Handles
    BY <1>t, <1>r, <2>1
  <2> HIDE DEF v
  <2>9. StepsTo(a, v) /\ req[a].pc # "use" /\ v.pc # "use"
    BY <1>t, <1>r, <2>1, <2>2, <2>3 DEF StepsTo
  <2> QED BY <1>t, <2>1, <2>9, QuietStep
<1>3. CASE StatNew(a) \/ CreateLocked(a) \/ OpenFails(a) \/ MakeDirs(a)
  <2>1. /\ req[a].pc \in {"stat", "create", "open", "mkdir"}
        /\ UNCHANGED <<disk, repos, lru, handle>> /\ dirs \subseteq dirs' /\ dirs' \subseteq Repos
    BY <1>t, <1>r, <1>3 DEF StatNew, CreateLocked, OpenFails, MakeDirs, At
  <2>2. CASE Done(a) /\ mu' \in {mu, Nobody} /\ mu' # a /\ (mu' = mu \/ mu = a)
    <3>1. req' = [req EXCEPT ![a] = Ready]
      BY <2>2 DEF Done
    <3>2. StepsTo(a, Ready) /\ req[a].pc # "use" /\ Ready.pc # "use"
      BY <1>t, <2>1, <2>2, <3>1, ReadyRec DEF StepsTo
    <3> QED BY <1>t, <2>1, <3>2, QuietStep
  <2>3. ASSUME NEW p \in {"mkdir", "create", "evict"}, Goto(a, p),
               p = "evict" => repos[req[a].repo] = NoHandle /\ mu = Nobody /\ mu' = a,
               p # "evict" => mu' = mu /\ mu # a
        PROVE  RegInv'
    <3> DEFINE v == [req[a] EXCEPT !.pc = p]
    <3>1. req' = [req EXCEPT ![a] = v]
      BY <2>3 DEF Goto
    <3>2. v \in ReqRec /\ v.pc = p /\ v.repo = req[a].repo
      BY <1>t
    <3> HIDE DEF v
    <3>9. StepsTo(a, v) /\ req[a].pc # "use" /\ v.pc # "use"
      BY <1>t, <1>r, <2>1, <2>3, <3>1, <3>2 DEF StepsTo
    <3> QED BY <1>t, <2>1, <3>9, QuietStep
  <2>4. CASE StatNew(a)
    BY <1>r, <2>2, <2>3, <2>4 DEF StatNew, At
  <2>5. CASE MakeDirs(a)
    BY <1>r, <2>3, <2>5 DEF MakeDirs, At
  <2>6. CASE CreateLocked(a)
    BY <1>t, <2>2, <2>3, <2>6 DEF CreateLocked
  <2>7. CASE OpenFails(a)
    BY <1>t, <1>r, <2>2, <2>7 DEF OpenFails, At
  <2> QED BY <1>3, <2>4, <2>5, <2>6, <2>7
<1>4. CASE EvictLoop(a)
  <2>1. PICK v \in ReqRec : /\ req' = [req EXCEPT ![a] = v]
                            /\ v.pc \in {"scan", "open"} /\ v.repo = req[a].repo
                            /\ v.at = Len(lru)
    <3> DEFINE v == [req[a] EXCEPT !.at = Len(lru),
                       !.pc = IF Cardinality(OpenRepos) >= MaxOpen THEN "scan" ELSE "open"]
    <3>1. req' = [req EXCEPT ![a] = v]
      BY <1>4 DEF EvictLoop
    <3>2. v \in ReqRec /\ v.pc \in {"scan", "open"} /\ v.repo = req[a].repo /\ v.at = Len(lru)
      BY <1>t
    <3> HIDE DEF v
    <3>3. \E w \in ReqRec : /\ req' = [req EXCEPT ![a] = w]
                             /\ w.pc \in {"scan", "open"} /\ w.repo = req[a].repo
                             /\ w.at = Len(lru)
      BY <3>1, <3>2
    <3> QED BY <3>3
  <2>2. req[a].pc = "evict" /\ UNCHANGED <<disk, dirs, repos, lru, handle, mu>>
    BY <1>4 DEF EvictLoop, At
  <2>9. StepsTo(a, v) /\ req[a].pc # "use" /\ v.pc # "use"
    BY <1>t, <1>r, <2>1, <2>2 DEF StepsTo
  <2> QED BY <1>t, <2>2, <2>9, QuietStep
<1>5. CASE ScanOne(a)
  <2>1. req[a].pc = "scan" /\ UNCHANGED <<disk, dirs, repos, lru, handle, mu>>
    BY <1>5 DEF ScanOne, At
  <2>2. ASSUME NEW p \in {"open", "close"}, Goto(a, p), p = "close" => req[a].at > 0
        PROVE  RegInv'
    <3> DEFINE v == [req[a] EXCEPT !.pc = p]
    <3>1. req' = [req EXCEPT ![a] = v]
      BY <2>2 DEF Goto
    <3>2. v \in ReqRec /\ v.pc = p /\ v.repo = req[a].repo /\ v.at = req[a].at
      BY <1>t
    <3>3. v.pc = "close" => v.at \in 1..Len(lru)
      BY <1>t, <1>r, <2>1, <2>2, <3>2
    <3> HIDE DEF v
    <3>9. StepsTo(a, v) /\ req[a].pc # "use" /\ v.pc # "use"
      BY <1>t, <1>r, <2>1, <2>2, <3>1, <3>2, <3>3 DEF StepsTo
    <3> QED BY <1>t, <2>1, <3>9, QuietStep
  <2>3. ASSUME req[a].at > 0, req' = [req EXCEPT ![a].at = @ - 1]
        PROVE  RegInv'
    <3> DEFINE v == [req[a] EXCEPT !.at = req[a].at - 1]
    <3>1. req' = [req EXCEPT ![a] = v]
      BY <2>3
    <3>2. req[a].at - 1 \in Nat /\ req[a].at - 1 <= Len(lru)
      BY <1>t, <1>r, <2>1, <2>3
    <3>3. v \in ReqRec /\ v.pc = req[a].pc /\ v.repo = req[a].repo /\ v.at = req[a].at - 1
      BY <1>t, <3>2
    <3> HIDE DEF v
    <3>9. StepsTo(a, v) /\ req[a].pc # "use" /\ v.pc # "use"
      BY <1>t, <1>r, <2>1, <3>1, <3>2, <3>3 DEF StepsTo
    <3> QED BY <1>t, <2>1, <3>9, QuietStep
  <2> QED BY <1>5, <2>2, <2>3 DEF ScanOne
<1> QED BY <1>1, <1>2, <1>3, <1>4, <1>5
(* Steps with r.mu that alter the list. *)
LEMMA LockedStep ==
    ASSUME RegInv, NEW a \in Actors, NEW v, StepsTo(a, v), mu \in {Nobody, a},
           req[a].pc # "use", v.pc # "use",
           ListInv', HandleInv', OpenReposExist',
           repos' \in [Repos -> Handles \cup {NoHandle}],
           handle' \in [Handles -> HandleRec],
           \A h \in Handles : handle'[h].active = handle[h].active,
           disk' \subseteq dirs', dirs' \subseteq Repos
    PROVE  RegInv'
<1>1. ReqInv' /\ PosInv' /\ NewInv' /\ req' \in [Actors -> ReqRec] /\ mu' \in Actors \cup {Nobody}
  BY ReqStep
<1>2. UseInv'
  BY KeepUsers DEF StepsTo
<1>3. lru' \in Seq(Repos)
  BY DEF ListInv, Lists
<1>4. TypeOK'
  BY <1>1, <1>3 DEF TypeOK, ReqRec, HandleRec
<1> QED BY <1>1, <1>2, <1>4 DEF RegInv

(* Marking a handle as recently used. *)
LEMMA TouchStep ==
    ASSUME RegInv, NEW h \in Handles, Touch(h), repos' = repos
    PROVE  /\ ListInv' /\ HandleInv' /\ OpenRepos' = OpenRepos /\ Len(lru') = Len(lru)
           /\ handle' \in [Handles -> HandleRec]
           /\ \A g \in Handles : handle'[g].active = handle[g].active
<1>1. handle \in [Handles -> HandleRec]
  BY Types
<1>2. /\ handle' = [handle EXCEPT ![h] = [handle[h] EXCEPT !.idle = FALSE]]
      /\ handle' \in [Handles -> HandleRec]
      /\ \A g \in Handles : /\ handle'[g].active = handle[g].active
                            /\ handle'[g].open = handle[g].open
                            /\ handle'[g].repo = handle[g].repo
  BY <1>1 DEF Touch, HandleRec
<1>3. HandleInv' /\ OpenRepos' = OpenRepos
  BY <1>2, KeepHandles
<1>4. Lists(lru', OpenRepos) /\ Len(lru') = Len(lru)
  <2>1. CASE handle[h].open
    <3>1. handle[h].repo \in OpenRepos
      BY <2>1 DEF RegInv, HandleInv, OpenRepos, RegistryAssumption
    <3> QED BY <2>1, <3>1, ListMoveToFront DEF Touch, RegInv, ListInv
  <2>2. CASE ~handle[h].open
    BY <2>2 DEF Touch, RegInv, ListInv
  <2> QED BY <2>1, <2>2
<1> QED BY <1>2, <1>3, <1>4 DEF ListInv

(* Closing the handle of a listed repository. *)
LEMMA CloseStep ==
    ASSUME RegInv, NEW r \in OpenRepos, CloseRepo(repos[r])
    PROVE  /\ ListInv' /\ HandleInv' /\ OpenRepos' = OpenRepos \ {r}
           /\ Len(lru') = Len(lru) - 1
           /\ repos' = [repos EXCEPT ![r] = NoHandle]
           /\ repos' \in [Repos -> Handles \cup {NoHandle}]
           /\ handle' \in [Handles -> HandleRec]
           /\ \A g \in Handles : handle'[g].active = handle[g].active
<1> DEFINE h == repos[r]
<1>1. /\ handle \in [Handles -> HandleRec] /\ repos \in [Repos -> Handles \cup {NoHandle}]
      /\ NoHandle \notin Handles
  BY Types
<1>2. r \in Repos /\ h \in Handles /\ handle[h].open /\ handle[h].repo = r
  BY OpenFacts
<1>3. /\ handle' = [handle EXCEPT ![h] = [Closed EXCEPT !.active = handle[h].active]]
      /\ repos' = [repos EXCEPT ![r] = NoHandle]
      /\ lru' = RemoveFirst(lru, r)
  BY <1>2 DEF CloseRepo
<1> HIDE DEF h
<1>4. OpenRepos' = OpenRepos \ {r}
  BY <1>1, <1>2, <1>3 DEF OpenRepos
<1>5. ListInv' /\ Len(lru') = Len(lru) - 1
  <2>1. Lists(lru, OpenRepos)
    BY DEF RegInv, ListInv
  <2>2. Lists(RemoveFirst(lru, r), OpenRepos \ {r}) /\ Len(RemoveFirst(lru, r)) = Len(lru) - 1
    BY <2>1, ListRemove
  <2>3. Lists(lru', OpenRepos') /\ Len(lru') = Len(lru) - 1
    BY <1>3, <1>4, <2>2
  <2> QED BY <2>3 DEF ListInv
<1>6. /\ handle'[h] = [repo |-> NoRepo, active |-> handle[h].active, open |-> FALSE, idle |-> FALSE]
      /\ \A g \in Handles \ {h} : handle'[g] = handle[g]
  BY <1>1, <1>2, <1>3 DEF Closed
<1>7. /\ handle' \in [Handles -> HandleRec]
      /\ \A g \in Handles : handle'[g].active = handle[g].active
  <2>1. handle'[h] \in HandleRec
    BY <1>1, <1>2, <1>6 DEF HandleRec
  <2> QED BY <1>1, <1>3, <1>6, <2>1
<1>8. HandleInv'
  <2>1. ASSUME NEW q \in OpenRepos'
        PROVE  handle'[repos'[q]].open /\ handle'[repos'[q]].repo = q
    <3>1. q \in OpenRepos /\ q # r /\ repos'[q] = repos[q] /\ q \in Repos
      BY <1>1, <1>3, <1>4 DEF OpenRepos
    <3>2. repos[q] \in Handles /\ handle[repos[q]].open /\ handle[repos[q]].repo = q
      BY <3>1, OpenFacts
    <3>3. repos[q] # h
      BY <1>2, <3>1, <3>2
    <3> QED BY <1>6, <3>1, <3>2, <3>3
  <2>2. ASSUME NEW g \in Handles, handle'[g].open
        PROVE  handle'[g].repo \in Repos /\ repos'[handle'[g].repo] = g
    <3>1. g # h /\ handle'[g] = handle[g]
      BY <1>6, <2>2
    <3>2. handle[g].repo \in Repos /\ repos[handle[g].repo] = g
      BY <2>2, <3>1 DEF RegInv, HandleInv
    <3>3. handle[g].repo # r
      BY <3>1, <3>2 DEF h
    <3> QED BY <1>1, <1>3, <3>1, <3>2, <3>3
  <2> QED BY <2>1, <2>2 DEF HandleInv
<1>9. repos' \in [Repos -> Handles \cup {NoHandle}]
  BY <1>1, <1>3
<1> QED BY <1>3, <1>4, <1>5, <1>7, <1>8, <1>9
LEMMA TouchFoundKeeps == ASSUME RegInv, NEW a \in Requests, TouchFound(a) PROVE RegInv'
<1>t. /\ req \in [Actors -> ReqRec] /\ a \in Actors /\ a # Reaper /\ a # Nobody
      /\ req[a] \in ReqRec /\ disk \subseteq dirs /\ dirs \subseteq Repos
      /\ repos \in [Repos -> Handles \cup {NoHandle}]
  BY Types
<1>1. /\ req[a].pc = "touch" /\ mu = Nobody /\ Touch(req[a].h)
      /\ UNCHANGED <<disk, dirs, repos, mu>>
  BY DEF TouchFound, At
<1>2. req[a].h \in Handles /\ req[a].repo \in Repos
  BY <1>1 DEF RegInv, ReqInv, HandlePCs
<1>3. /\ ListInv' /\ HandleInv' /\ OpenRepos' = OpenRepos
      /\ handle' \in [Handles -> HandleRec]
      /\ \A g \in Handles : handle'[g].active = handle[g].active
  BY <1>1, <1>2, TouchStep
<1> DEFINE v == [req[a] EXCEPT !.pc = "acquire"]
<1>4. req' = [req EXCEPT ![a] = v]
  BY DEF TouchFound, Goto
<1>5. v \in ReqRec /\ v.pc = "acquire" /\ v.repo = req[a].repo /\ v.h = req[a].h
  BY <1>t DEF ReqRec, PCs
<1> HIDE DEF v
<1>6. StepsTo(a, v) /\ req[a].pc # "use" /\ v.pc # "use"
  BY <1>t, <1>1, <1>2, <1>4, <1>5 DEF StepsTo, LockPCs, NewPCs
<1>7. OpenReposExist'
  BY <1>1, <1>3 DEF RegInv, OpenReposExist
<1> QED BY <1>t, <1>1, <1>3, <1>6, <1>7, LockedStep

LEMMA GetSlowKeeps == ASSUME RegInv, NEW a \in Requests, GetSlow(a) PROVE RegInv'
<1>t. /\ req \in [Actors -> ReqRec] /\ a \in Actors /\ a # Reaper /\ a # Nobody
      /\ req[a] \in ReqRec /\ disk \subseteq dirs /\ dirs \subseteq Repos
      /\ repos \in [Repos -> Handles \cup {NoHandle}]
  BY Types
<1>1. req[a].pc = "slow" /\ mu = Nobody /\ UNCHANGED <<disk, dirs, repos>>
  BY DEF GetSlow, At
<1>2. req[a].repo \in Repos
  BY <1>1 DEF RegInv, ReqInv
<1> DEFINE r == req[a].repo
<1>3. ASSUME repos[r] # NoHandle, Touch(repos[r]), Have(a, repos[r]), UNCHANGED mu
      PROVE  RegInv'
  <2>1. repos[r] \in Handles
    BY <1>t, <1>2, <1>3
  <2>2. /\ ListInv' /\ HandleInv' /\ OpenRepos' = OpenRepos
        /\ handle' \in [Handles -> HandleRec]
        /\ \A g \in Handles : handle'[g].active = handle[g].active
    BY <1>1, <1>3, <2>1, TouchStep
  <2> DEFINE v == [req[a] EXCEPT !.pc = "acquire", !.h = repos[r]]
  <2>3. req' = [req EXCEPT ![a] = v]
    BY <1>3 DEF Have
  <2>4. v \in ReqRec /\ v.pc = "acquire" /\ v.repo = req[a].repo /\ v.h \in Handles
    BY <1>t, <2>1 DEF ReqRec, PCs
  <2> HIDE DEF v
  <2>5. StepsTo(a, v) /\ req[a].pc # "use" /\ v.pc # "use"
    BY <1>t, <1>1, <1>2, <1>3, <2>3, <2>4 DEF StepsTo, LockPCs, NewPCs
  <2>6. OpenReposExist'
    BY <1>1, <2>2 DEF RegInv, OpenReposExist
  <2> QED BY <1>t, <1>1, <2>2, <2>5, <2>6, LockedStep
<1>4. ASSUME Done(a), UNCHANGED <<lru, handle, mu>> PROVE RegInv'
  <2>1. req' = [req EXCEPT ![a] = Ready]
    BY <1>4 DEF Done
  <2>2. StepsTo(a, Ready) /\ req[a].pc # "use" /\ Ready.pc # "use"
    BY <1>t, <1>1, <1>4, <2>1, ReadyRec DEF StepsTo, LockPCs, NewPCs, HandlePCs
  <2> QED BY <1>t, <1>1, <1>4, <2>2, QuietStep
<1>5. ASSUME repos[r] = NoHandle, mu' = a, Goto(a, "evict"), UNCHANGED <<lru, handle>>
      PROVE  RegInv'
  <2> DEFINE v == [req[a] EXCEPT !.pc = "evict"]
  <2>1. req' = [req EXCEPT ![a] = v]
    BY <1>5 DEF Goto
  <2>2. v \in ReqRec /\ v.pc = "evict" /\ v.repo = req[a].repo
    BY <1>t DEF ReqRec, PCs
  <2> HIDE DEF v
  <2>3. StepsTo(a, v) /\ req[a].pc # "use" /\ v.pc # "use"
    BY <1>t, <1>1, <1>2, <1>5, <2>1, <2>2 DEF StepsTo, LockPCs, NewPCs, HandlePCs
  <2> QED BY <1>t, <1>1, <1>5, <2>3, QuietStep
<1> QED BY <1>3, <1>4, <1>5 DEF GetSlow

LEMMA UsersFacts ==
    ASSUME RegInv, NEW h \in Handles
    PROVE  IsFiniteSet(Users(h)) /\ handle[h].active = Cardinality(Users(h))
<1>1. Users(h) \subseteq Requests /\ IsFiniteSet(Requests)
  BY DEF Users, RegInv, RegistryAssumption
<1> QED BY <1>1, FS_Subset DEF RegInv, UseInv

(* Acquire and Release. *)
LEMMA CountingKeeps == ASSUME RegInv, NEW a \in Requests, Acquire(a) \/ Release(a) PROVE RegInv'
<1>t. /\ req \in [Actors -> ReqRec] /\ a \in Actors /\ a # Reaper /\ a # Nobody
      /\ req[a] \in ReqRec /\ disk \subseteq dirs /\ dirs \subseteq Repos
      /\ repos \in [Repos -> Handles \cup {NoHandle}] /\ lru \in Seq(Repos)
      /\ handle \in [Handles -> HandleRec] /\ a \in Actors
  BY Types
<1>1. /\ req[a].pc \in {"acquire", "use"} /\ UNCHANGED <<disk, dirs, repos, lru, mu>>
      /\ req[a].pc = "use" <=> Release(a)
  BY DEF Acquire, Release, At
<1>2. PICK h \in Handles : h = req[a].h /\ req[a].repo \in Repos /\ mu # a
  BY <1>t, <1>1 DEF RegInv, ReqInv, HandlePCs, LockPCs
<1>3. PICK v \in ReqRec, n \in {handle[h].active + 1, handle[h].active - 1} :
          /\ req' = [req EXCEPT ![a] = v]
          /\ handle' = [handle EXCEPT ![h] = [handle[h] EXCEPT !.active = n, !.idle = FALSE]]
          /\ req[a].pc = "acquire" => n = handle[h].active + 1 /\ v.pc = "use" /\ v.h = h
          /\ req[a].pc = "use" => n = handle[h].active - 1 /\ v.pc = "ready"
          /\ v.pc # "ready" => v.repo = req[a].repo
  <2>1. CASE Acquire(a)
    <3> DEFINE w == [req[a] EXCEPT !.pc = "use"]
    <3>1. /\ req' = [req EXCEPT ![a] = w] /\ req[a].pc = "acquire"
          /\ handle' = [handle EXCEPT ![h] = [handle[h] EXCEPT !.active = handle[h].active + 1,
                                                               !.idle = FALSE]]
      BY <1>t, <1>2, <2>1 DEF Acquire, Goto, At
    <3>2. w \in ReqRec /\ w.pc = "use" /\ w.h = h /\ w.repo = req[a].repo
      BY <1>t, <1>2 DEF ReqRec, PCs
    <3> HIDE DEF w
    <3> QED BY <3>1, <3>2
  <2>2. CASE Release(a)
    <3>1. /\ req' = [req EXCEPT ![a] = Ready] /\ req[a].pc = "use"
          /\ handle' = [handle EXCEPT ![h] = [handle[h] EXCEPT !.active = handle[h].active - 1,
                                                               !.idle = FALSE]]
      BY <1>t, <1>2, <2>2 DEF Release, Done, At
    <3> QED BY <3>1, ReadyRec
  <2> QED BY <2>1, <2>2
<1>u. IsFiniteSet(Users(h)) /\ handle[h].active = Cardinality(Users(h))
  BY <1>2, UsersFacts
<1>4. /\ req'[a] = v /\ \A b \in Actors \ {a} : req'[b] = req[b]
      /\ \A g \in Handles \ {h} : handle'[g] = handle[g]
      /\ handle'[h] = [handle[h] EXCEPT !.active = n, !.idle = FALSE]
  BY <1>t, <1>2, <1>3
<1>5. n \in Nat /\ n = Cardinality(Users(h)')
  <2>1. CASE req[a].pc = "acquire"
    <3>1. Users(h)' = Users(h) \cup {a} /\ a \notin Users(h)
      BY <1>2, <1>3, <1>4, <2>1 DEF Users, Actors
    <3> QED BY <1>u, <1>3, <2>1, <3>1, FS_AddElement, FS_CardinalityType
  <2>2. CASE req[a].pc = "use"
    <3>1. Users(h)' = Users(h) \ {a} /\ a \in Users(h)
      BY <1>2, <1>3, <1>4, <2>2 DEF Users, Actors
    <3>2. IsFiniteSet(Users(h) \ {a}) /\ Cardinality(Users(h) \ {a}) = Cardinality(Users(h)) - 1
      BY <1>u, <3>1, FS_RemoveElement
    <3>3. Cardinality(Users(h) \ {a}) \in Nat
      BY <3>2, FS_CardinalityType
    <3> QED BY <1>u, <1>3, <2>2, <3>1, <3>2, <3>3
  <2> QED BY <1>1, <2>1, <2>2
<1>6. UseInv'
  <2>1. ASSUME NEW g \in Handles, g # h PROVE handle'[g].active = Cardinality(Users(g)')
    <3>1. Users(g)' = Users(g)
      BY <1>1, <1>2, <1>3, <1>4, <2>1 DEF Users, Actors
    <3> QED BY <1>4, <2>1, <3>1 DEF RegInv, UseInv
  <2>2. handle'[h].active = n
    BY <1>t, <1>2, <1>4 DEF HandleRec
  <2> QED BY <1>5, <2>1, <2>2 DEF UseInv
<1>7. /\ handle' \in [Handles -> HandleRec]
      /\ \A g \in Handles : handle'[g].open = handle[g].open /\ handle'[g].repo = handle[g].repo
  <2>0. handle[h] \in HandleRec
    BY <1>t
  <2>1. /\ handle'[h] \in HandleRec
        /\ handle'[h].open = handle[h].open /\ handle'[h].repo = handle[h].repo
    BY <1>4, <1>5, <2>0 DEF HandleRec
  <2> QED BY <1>t, <1>3, <1>4, <2>1
<1>8. HandleInv' /\ OpenRepos' = OpenRepos
  BY <1>1, <1>7, KeepHandles
<1>9. ListInv' /\ OpenReposExist'
  BY <1>1, <1>8 DEF RegInv, ListInv, OpenReposExist
<1>10. StepsTo(a, v)
  BY <1>t, <1>1, <1>2, <1>3 DEF StepsTo, LockPCs, NewPCs, HandlePCs
<1>11. ReqInv' /\ PosInv' /\ NewInv' /\ req' \in [Actors -> ReqRec] /\ mu' \in Actors \cup {Nobody}
  BY <1>t, <1>1, <1>10, ReqStep
<1>12. TypeOK'
  BY <1>t, <1>1, <1>7, <1>11 DEF TypeOK, ReqRec, HandleRec
<1> QED BY <1>6, <1>8, <1>9, <1>11, <1>12 DEF RegInv
LEMMA CloseVictimKeeps == ASSUME RegInv, NEW a \in Requests, CloseVictim(a) PROVE RegInv'
<1>t. /\ req \in [Actors -> ReqRec] /\ a \in Actors /\ a # Reaper /\ a # Nobody
      /\ req[a] \in ReqRec /\ disk \subseteq dirs /\ dirs \subseteq Repos
      /\ repos \in [Repos -> Handles \cup {NoHandle}]
  BY Types
<1>1. /\ req[a].pc = "close" /\ UNCHANGED <<disk, dirs, mu>> /\ mu = a
      /\ req[a].at \in 1..Len(lru) /\ req[a].repo \in Repos
      /\ repos[req[a].repo] = NoHandle
  BY <1>t DEF CloseVictim, At, RegInv, ReqInv, PosInv, NewInv, LockPCs, NewPCs
<1>2. PICK r \in OpenRepos : r = lru[req[a].at]
  BY <1>1, Listed
<1>3. CloseRepo(repos[r])
  BY <1>2 DEF CloseVictim
<1>4. /\ ListInv' /\ HandleInv' /\ OpenRepos' = OpenRepos \ {r}
      /\ repos' = [repos EXCEPT ![r] = NoHandle]
      /\ repos' \in [Repos -> Handles \cup {NoHandle}]
      /\ handle' \in [Handles -> HandleRec]
      /\ \A g \in Handles : handle'[g].active = handle[g].active
  BY <1>3, CloseStep
<1> DEFINE v == [req[a] EXCEPT !.pc = "evict"]
<1>5. req' = [req EXCEPT ![a] = v]
  BY DEF CloseVictim, Goto
<1>6. v \in ReqRec /\ v.pc = "evict" /\ v.repo = req[a].repo
  BY <1>t DEF ReqRec, PCs
<1> HIDE DEF v
<1>7. repos'[v.repo] = NoHandle
  BY <1>t, <1>1, <1>4, <1>6
<1>8. StepsTo(a, v) /\ req[a].pc # "use" /\ v.pc # "use"
  BY <1>t, <1>1, <1>5, <1>6, <1>7 DEF StepsTo, LockPCs, NewPCs, HandlePCs
<1>9. OpenReposExist'
  BY <1>1, <1>4 DEF RegInv, OpenReposExist
<1> QED BY <1>t, <1>1, <1>4, <1>8, <1>9, LockedStep

LEMMA DeleteKeeps == ASSUME RegInv, NEW a \in Requests, Delete(a) PROVE RegInv'
<1>t. /\ req \in [Actors -> ReqRec] /\ a \in Actors /\ a # Reaper /\ a # Nobody
      /\ req[a] \in ReqRec /\ disk \subseteq dirs /\ dirs \subseteq Repos
      /\ repos \in [Repos -> Handles \cup {NoHandle}]
      /\ handle \in [Handles -> HandleRec]
  BY Types
<1>1. req[a].pc = "delete" /\ mu = Nobody /\ mu' = mu /\ req[a].repo \in Repos
  BY DEF Delete, At, RegInv, ReqInv
<1>2. req' = [req EXCEPT ![a] = Ready]
  BY DEF Delete, Done
<1>3. StepsTo(a, Ready) /\ req[a].pc # "use" /\ Ready.pc # "use"
  BY <1>t, <1>1, <1>2, ReadyRec DEF StepsTo, LockPCs, NewPCs, HandlePCs
<1>4. PICK r \in Repos : r = req[a].repo
  BY <1>1
<1>5. /\ \/ repos[r] # NoHandle /\ CloseRepo(repos[r])
         \/ repos[r] = NoHandle /\ UNCHANGED <<repos, lru, handle>>
      /\ disk' \in {disk, disk \ {r}} /\ dirs' \in {dirs, dirs \ {r}}
      /\ disk' \subseteq dirs' /\ dirs' \subseteq Repos
  BY <1>t, <1>4 DEF Delete
<1>6. /\ ListInv' /\ HandleInv' /\ OpenRepos' = OpenRepos \ {r}
      /\ repos' \in [Repos -> Handles \cup {NoHandle}]
      /\ handle' \in [Handles -> HandleRec]
      /\ \A g \in Handles : handle'[g].active = handle[g].active
  <2>1. CASE repos[r] # NoHandle /\ CloseRepo(repos[r])
    <3>1. r \in OpenRepos
      BY <2>1 DEF OpenRepos
    <3> QED BY <2>1, <3>1, CloseStep
  <2>2. CASE repos[r] = NoHandle /\ UNCHANGED <<repos, lru, handle>>
    <3>1. HandleInv' /\ OpenRepos' = OpenRepos /\ r \notin OpenRepos
      BY <2>2, KeepHandles DEF OpenRepos
    <3> QED BY <1>t, <2>2, <3>1 DEF RegInv, ListInv
  <2> QED BY <1>5, <2>1, <2>2
<1>7. OpenReposExist'
  BY <1>5, <1>6 DEF RegInv, OpenReposExist
<1> QED BY <1>t, <1>1, <1>3, <1>5, <1>6, <1>7, LockedStep

(* A garbage handle is taken: nobody uses it, and no repository is mapped  *)
(* to it.                                                                  *)
LEMMA OpenRepoKeeps == ASSUME RegInv, NEW a \in Requests, OpenRepo(a) PROVE RegInv'
<1>t. /\ req \in [Actors -> ReqRec] /\ a \in Actors /\ a # Reaper /\ a # Nobody
      /\ req[a] \in ReqRec /\ disk \subseteq dirs /\ dirs \subseteq Repos
      /\ repos \in [Repos -> Handles \cup {NoHandle}]
      /\ handle \in [Handles -> HandleRec] /\ NoHandle \notin Handles /\ Requests \subseteq Actors
  BY Types
<1>1. /\ req[a].pc = "open" /\ mu = a /\ mu' = Nobody /\ dirs' = dirs
      /\ req[a].repo \in Repos /\ repos[req[a].repo] = NoHandle
  BY <1>t DEF OpenRepo, At, RegInv, ReqInv, NewInv, LockPCs, NewPCs
<1>2. PICK r \in Repos : r = req[a].repo
  BY <1>1
<1>3. PICK h \in Handles : h = CHOOSE g \in Handles : Garbage(g)
  BY DEF OpenRepo
<1>4. Garbage(h)
  BY <1>3 DEF OpenRepo
<1>5. /\ handle' = [handle EXCEPT ![h] = [Closed EXCEPT !.repo = r, !.open = TRUE]]
      /\ repos'  = [repos EXCEPT ![r] = h]
      /\ lru'  = <<r>> \o lru /\ disk' = disk \cup {r} /\ r \in dirs
      /\ Have(a, h) \/ Done(a)
  BY <1>2, <1>3 DEF OpenRepo
<1>6. repos[r] = NoHandle /\ r \notin OpenRepos /\ OpenRepos' = OpenRepos \cup {r}
  BY <1>t, <1>1, <1>2, <1>5 DEF OpenRepos
<1>7. ~handle[h].open /\ handle[h].active = 0
  <2>1. Users(h) = {}
    BY <1>t, <1>4 DEF Garbage, Users
  <2> QED BY <1>4, <2>1, FS_EmptySet DEF Garbage, RegInv, UseInv
<1>8. /\ handle'[h] = [repo |-> r, active |-> 0, open |-> TRUE, idle |-> FALSE]
      /\ \A g \in Handles \ {h} : handle'[g] = handle[g]
  BY <1>t, <1>5 DEF Closed
<1>9. /\ handle' \in [Handles -> HandleRec]
      /\ \A g \in Handles : handle'[g].active = handle[g].active
  <2>1. handle'[h] \in HandleRec /\ handle'[h].active = 0
    BY <1>8 DEF HandleRec
  <2> QED BY <1>t, <1>5, <1>7, <1>8, <2>1
<1>10. HandleInv'
  <2>1. ASSUME NEW q \in OpenRepos'
        PROVE  handle'[repos'[q]].open /\ handle'[repos'[q]].repo = q
    <3>1. CASE q = r
      BY <1>t, <1>5, <1>8, <3>1
    <3>2. CASE q # r
      <4>1. q \in OpenRepos /\ repos'[q] = repos[q]
        BY <1>t, <1>5, <1>6, <3>2 DEF OpenRepos
      <4>2. repos[q] \in Handles /\ handle[repos[q]].open /\ handle[repos[q]].repo = q
        BY <4>1, OpenFacts
      <4> QED BY <1>7, <1>8, <4>1, <4>2
    <3> QED BY <3>1, <3>2
  <2>2. ASSUME NEW g \in Handles, handle'[g].open
        PROVE  handle'[g].repo \in Repos /\ repos'[handle'[g].repo] = g
    <3>1. CASE g = h
      BY <1>t, <1>5, <1>8, <3>1
    <3>2. CASE g # h
      <4>1. handle[g].repo \in Repos /\ repos[handle[g].repo] = g
        BY <1>8, <2>2, <3>2 DEF RegInv, HandleInv
      <4> QED BY <1>t, <1>5, <1>6, <1>8, <3>2, <4>1
    <3> QED BY <3>1, <3>2
  <2> QED BY <2>1, <2>2 DEF HandleInv
<1>11. ListInv' /\ repos' \in [Repos -> Handles \cup {NoHandle}]
  <2>1. Lists(lru', OpenRepos \cup {r})
    BY <1>5, <1>6, ListPushFront DEF RegInv, ListInv
  <2> QED BY <1>t, <1>5, <1>6, <2>1 DEF ListInv
<1>12. OpenReposExist' /\ disk' \subseteq dirs' /\ dirs' \subseteq Repos
  BY <1>t, <1>1, <1>5, <1>6 DEF RegInv, OpenReposExist
<1>13. PICK v \in ReqRec : /\ req' = [req EXCEPT ![a] = v]
                           /\ v.pc \in {"acquire", "ready"}
                           /\ v.pc = "acquire" => v.h \in Handles /\ v.repo \in Repos
  <2>1. CASE Have(a, h)
    <3> DEFINE w == [req[a] EXCEPT !.pc = "acquire", !.h = h]
    <3>1. w \in ReqRec /\ w.pc = "acquire" /\ w.h = h /\ w.repo = req[a].repo
      BY <1>t DEF ReqRec, PCs
    <3>2. req' = [req EXCEPT ![a] = w]
      BY <2>1 DEF Have
    <3> HIDE DEF w
    <3> QED BY <1>1, <3>1, <3>2
  <2>2. CASE Done(a)
    BY <2>2, ReadyRec DEF Done
  <2> QED BY <1>5, <2>1, <2>2
<1>14. StepsTo(a, v) /\ req[a].pc # "use" /\ v.pc # "use"
  BY <1>t, <1>1, <1>13 DEF StepsTo, LockPCs, NewPCs, HandlePCs
<1> QED BY <1>t, <1>1, <1>9, <1>10, <1>11, <1>12, <1>14, LockedStep

(* The goroutine of reapLoop. *)
LEMMA ReaperKeeps == ASSUME RegInv, ReaperStep PROVE RegInv'
<1>t. /\ req \in [Actors -> ReqRec] /\ Reaper \in Actors /\ Reaper # Nobody
      /\ req[Reaper] \in ReqRec /\ disk \subseteq dirs /\ dirs \subseteq Repos
      /\ lru \in Seq(Repos) /\ Len(lru) \in Nat
  BY Types
<1>r. /\ mu = Reaper <=> req[Reaper].pc \in LockPCs
      /\ req[Reaper].pc = "reap" => req[Reaper].at <= Len(lru)
      /\ req[Reaper].pc = "close" => req[Reaper].at \in 1..Len(lru)
  BY <1>t DEF RegInv, ReqInv, PosInv
<1>1. CASE ReapBegin
  <2>1. /\ req[Reaper].pc = "ready" /\ mu = Nobody /\ mu' = Reaper
        /\ UNCHANGED <<disk, dirs, repos, lru, handle>>
    BY <1>1 DEF ReapBegin, At
  <2> DEFINE v == [Ready EXCEPT !.pc = "reap", !.at = Len(lru)]
  <2>2. req' = [req EXCEPT ![Reaper] = v]
    BY <1>1 DEF ReapBegin
  <2>3. v \in ReqRec /\ v.pc = "reap" /\ v.at = Len(lru)
    BY <1>t DEF Ready, ReqRec, PCs
  <2> HIDE DEF v
  <2>4. StepsTo(Reaper, v) /\ req[Reaper].pc # "use" /\ v.pc # "use"
    BY <1>t, <2>1, <2>2, <2>3 DEF StepsTo, LockPCs
  <2> QED BY <1>t, <2>1, <2>4, QuietStep
<1>2. CASE ReapOne
  <2>1. /\ req[Reaper].pc = "reap" /\ req[Reaper].at > 0
        /\ UNCHANGED <<disk, dirs, repos, lru, handle, mu>>
    BY <1>2 DEF ReapOne, At
  <2>2. ASSUME NEW v, v \in ReqRec, req' = [req EXCEPT ![Reaper] = v],
               \/ v.pc = "close" /\ v.at = req[Reaper].at
               \/ v.pc = "reap" /\ v.at = req[Reaper].at - 1
        PROVE  RegInv'
    <3>0. req[Reaper].at \in Nat
      BY <1>t DEF ReqRec
    <3>1. /\ v.pc \in {"close", "reap"} /\ v.at <= Len(lru)
          /\ v.pc = "close" => v.at \in 1..Len(lru)
      BY <1>t, <1>r, <2>1, <2>2, <3>0
    <3>2. StepsTo(Reaper, v) /\ req[Reaper].pc # "use" /\ v.pc # "use"
      BY <1>t, <1>r, <2>1, <2>2, <3>1 DEF StepsTo, LockPCs
    <3> QED BY <1>t, <2>1, <3>2, QuietStep
  <2>3. CASE Goto(Reaper, "close")
    <3> DEFINE v == [req[Reaper] EXCEPT !.pc = "close"]
    <3>1. req' = [req EXCEPT ![Reaper] = v]
      BY <2>3 DEF Goto
    <3>2. v \in ReqRec /\ v.pc = "close" /\ v.at = req[Reaper].at
      BY <1>t DEF ReqRec, PCs
    <3> HIDE DEF v
    <3> QED BY <2>2, <3>1, <3>2
  <2>4. CASE req' = [req EXCEPT ![Reaper].at = @ - 1]
    <3> DEFINE v == [req[Reaper] EXCEPT !.at = req[Reaper].at - 1]
    <3>1. req' = [req EXCEPT ![Reaper] = v]
      BY <2>4
    <3>2. req[Reaper].at - 1 \in Nat
      BY <1>t, <2>1 DEF ReqRec
    <3>3. v \in ReqRec /\ v.pc = "reap" /\ v.at = req[Reaper].at - 1
      BY <1>t, <2>1, <3>2 DEF ReqRec, PCs
    <3> HIDE DEF v
    <3> QED BY <2>2, <3>1, <3>3
  <2> QED BY <1>2, <2>3, <2>4 DEF ReapOne
<1>3. CASE ReapClose
  <2>1. /\ req[Reaper].pc = "close" /\ UNCHANGED <<disk, dirs, mu>> /\ mu = Reaper
        /\ req[Reaper].at \in 1..Len(lru)
    BY <1>r, <1>3 DEF ReapClose, At, LockPCs
  <2>2. PICK r \in OpenRepos : r = lru[req[Reaper].at]
    BY <2>1, Listed
  <2>3. CloseRepo(repos[r])
    BY <1>3, <2>2 DEF ReapClose
  <2>4. /\ ListInv' /\ HandleInv' /\ OpenRepos' = OpenRepos \ {r}
        /\ Len(lru') = Len(lru) - 1
        /\ repos' \in [Repos -> Handles \cup {NoHandle}]
        /\ handle' \in [Handles -> HandleRec]
        /\ \A g \in Handles : handle'[g].active = handle[g].active
    BY <2>3, CloseStep
  <2> DEFINE v == [req[Reaper] EXCEPT !.pc = "reap", !.at = req[Reaper].at - 1]
  <2>5. req' = [req EXCEPT ![Reaper] = v]
    BY <1>t, <1>3 DEF ReapClose
  <2>6. req[Reaper].at - 1 \in Nat /\ req[Reaper].at - 1 <= Len(lru')
    BY <1>t, <2>1, <2>4
  <2>7. v \in ReqRec /\ v.pc = "reap" /\ v.at <= Len(lru')
    BY <1>t, <2>6 DEF ReqRec, PCs
  <2> HIDE DEF v
  <2>8. StepsTo(Reaper, v) /\ req[Reaper].pc # "use" /\ v.pc # "use"
    BY <1>t, <2>1, <2>5, <2>7 DEF StepsTo, LockPCs
  <2>9. OpenReposExist'
    BY <2>1, <2>4 DEF RegInv, OpenReposExist
  <2> QED BY <1>t, <2>1, <2>4, <2>8, <2>9, LockedStep
<1>4. CASE ReapEnd
  <2>1. /\ req[Reaper].pc = "reap" /\ mu' = Nobody
        /\ UNCHANGED <<disk, dirs, repos, lru, handle>>
        /\ req' = [req EXCEPT ![Reaper] = Ready]
    BY <1>4 DEF ReapEnd, At, Done
  <2>2. StepsTo(Reaper, Ready) /\ req[Reaper].pc # "use" /\ Ready.pc # "use"
    BY <1>t, <1>r, <2>1, ReadyRec DEF StepsTo, LockPCs
  <2> QED BY <1>t, <2>1, <2>2, QuietStep
<1> QED BY <1>1, <1>2, <1>3, <1>4 DEF ReaperStep
(* Close at the end of the process: nobody holds r.mu, so nobody is in the *)
(* middle of the list.                                                     *)
LEMMA CloseAllKeeps == ASSUME RegInv, CloseAll PROVE RegInv'
<1>t. /\ handle \in [Handles -> HandleRec] /\ NoHandle \notin Handles
      /\ disk \subseteq dirs /\ dirs \subseteq Repos /\ Nobody \notin Actors
      /\ Requests \subseteq Actors
  BY Types
<1>1. /\ mu = Nobody /\ UNCHANGED <<disk, dirs, mu, req>> /\ lru' = <<>>
      /\ repos' = [r \in Repos |-> NoHandle]
      /\ handle' = [h \in Handles |-> [Closed EXCEPT !.active = handle[h].active]]
  BY DEF CloseAll
<1>2. \A a \in Actors : req[a].pc \notin LockPCs
  BY <1>t, <1>1 DEF RegInv, ReqInv
<1>3. OpenRepos' = {} /\ Len(lru') = 0
  BY <1>1 DEF OpenRepos
<1>4. \A h \in Handles : /\ handle'[h] \in HandleRec /\ ~handle'[h].open
                         /\ handle'[h].active = handle[h].active
  BY <1>t, <1>1 DEF Closed, HandleRec
<1>5. TypeOK'
  <2>1. handle' \in [Handles -> HandleRec]
    BY <1>1, <1>4
  <2>2. repos' \in [Repos -> Handles \cup {NoHandle}]
    BY <1>1
  <2> QED BY <1>1, <2>1, <2>2 DEF RegInv, TypeOK, HandleRec
<1>6. ReqInv' /\ PosInv' /\ NewInv'
  <2>1. ReqInv'
    BY <1>1 DEF RegInv, ReqInv
  <2> QED BY <1>t, <1>1, <1>2, <2>1 DEF PosInv, NewInv, LockPCs, NewPCs
<1>7. ListInv' /\ OpenReposExist' /\ HandleInv'
  BY <1>1, <1>3, <1>4 DEF ListInv, Lists, OpenReposExist, HandleInv
<1>8. UseInv'
  <2>1. \A h \in Handles : Users(h)' = Users(h)
    BY <1>1 DEF Users
  <2> QED BY <1>4, <2>1 DEF RegInv, UseInv
<1> QED BY <1>5, <1>6, <1>7, <1>8 DEF RegInv

LEMMA GrowIdleKeeps == ASSUME RegInv, NEW g \in Handles, GrowIdle(g) PROVE RegInv'
<1>t. handle \in [Handles -> HandleRec]
  BY Types
<1>1. /\ handle' = [handle EXCEPT ![g] = [handle[g] EXCEPT !.idle = TRUE]]
      /\ UNCHANGED <<disk, dirs, repos, lru, mu, req>>
  BY DEF GrowIdle
<1>2. \A h \in Handles : /\ handle'[h] \in HandleRec
                         /\ handle'[h].open = handle[h].open
                         /\ handle'[h].repo = handle[h].repo
                         /\ handle'[h].active = handle[h].active
  BY <1>t, <1>1 DEF HandleRec
<1>3. HandleInv' /\ OpenRepos' = OpenRepos
  BY <1>1, <1>2, KeepHandles
<1>4. TypeOK'
  <2>1. handle' \in [Handles -> HandleRec]
    BY <1>t, <1>1, <1>2
  <2> QED BY <1>1, <2>1 DEF RegInv, TypeOK, HandleRec
<1>5. ReqInv' /\ PosInv' /\ NewInv' /\ ListInv' /\ OpenReposExist'
  BY <1>1, <1>3 DEF RegInv, ReqInv, PosInv, NewInv, ListInv, OpenReposExist
<1>6. UseInv'
  <2>1. \A h \in Handles : Users(h)' = Users(h)
    BY <1>1 DEF Users
  <2> QED BY <1>2, <2>1 DEF RegInv, UseInv
<1> QED BY <1>3, <1>4, <1>5, <1>6 DEF RegInv

LEMMA RequestKeeps ==
    ASSUME RegInv, NEW a \in Requests, BeginRequest(a) \/ RequestStep(a) PROVE RegInv'
<1>1. CASE BeginRequest(a) \/ GetFast(a) \/ StatNew(a) \/ MakeDirs(a) \/ CreateLocked(a)
           \/ EvictLoop(a) \/ ScanOne(a) \/ OpenFails(a)
  BY <1>1, ReadingSteps
<1>2. CASE TouchFound(a)
  BY <1>2, TouchFoundKeeps
<1>3. CASE GetSlow(a)
  BY <1>3, GetSlowKeeps
<1>4. CASE Acquire(a) \/ Release(a)
  BY <1>4, CountingKeeps
<1>5. CASE CloseVictim(a)
  BY <1>5, CloseVictimKeeps
<1>6. CASE OpenRepo(a)
  BY <1>6, OpenRepoKeeps
<1>7. CASE Delete(a)
  BY <1>7, DeleteKeeps
<1> QED BY <1>1, <1>2, <1>3, <1>4, <1>5, <1>6, <1>7 DEF RequestStep

LEMMA StutterKeeps == ASSUME RegInv, UNCHANGED vars PROVE RegInv'
<1>1. UNCHANGED <<disk, dirs, repos, lru, handle, mu, req>>
  BY DEF vars
<1>2. HandleInv' /\ OpenRepos' = OpenRepos
  BY <1>1, KeepHandles
<1>3. UseInv'
  <2>1. \A h \in Handles : Users(h)' = Users(h)
    BY <1>1 DEF Users
  <2> QED BY <1>1, <2>1 DEF RegInv, UseInv
<1> QED BY <1>1, <1>2, <1>3
    DEF RegInv, TypeOK, ReqInv, PosInv, NewInv, ListInv, OpenReposExist

LEMMA NextRegInv == RegInv /\ [Next]_vars => RegInv'
<1> SUFFICES ASSUME RegInv, [Next]_vars PROVE RegInv'
  OBVIOUS
<1>1. CASE UNCHANGED vars
  BY <1>1, StutterKeeps
<1>2. CASE \E a \in Requests : BeginRequest(a) \/ RequestStep(a)
  BY <1>2, RequestKeeps
<1>3. CASE ReaperStep
  BY <1>3, ReaperKeeps
<1>4. CASE CloseAll
  BY <1>4, CloseAllKeeps
<1>5. CASE \E h \in Handles : GrowIdle(h)
  BY <1>5, GrowIdleKeeps
<1> QED BY <1>1, <1>2, <1>3, <1>4, <1>5 DEF Next

LEMMA RegistryIsSound == ASSUME RegistryAssumption PROVE Spec => []RegInv
BY InitRegInv, NextRegInv, PTL DEF Spec

(* Type correctness of the registry: states, counters and positions stay   *)
(* in their types; the counter of uses never falls below zero.             *)
THEOREM TypeCorrect == ASSUME RegistryAssumption PROVE Spec => []TypeOK
<1>1. RegInv => TypeOK
  BY DEF RegInv
<1> QED BY <1>1, RegistryIsSound, PTL

(* The map, the list and the open databases agree at every moment, however *)
(* requests, deletes, evictions, the reaper and Close interleave: each     *)
(* mapped repository is listed once, mapped to an open handle of its own,  *)
(* and no open handle is out of the map's reach (registry.go:98-431).      *)
THEOREM RegistryAgrees == ASSUME RegistryAssumption PROVE Spec => []MapAgreesWithList
<1>1. RegInv => MapAgreesWithList
  <2> SUFFICES ASSUME RegInv PROVE MapAgreesWithList
    OBVIOUS
  <2>1. ToSet(lru) = OpenRepos /\ Len(lru) = Cardinality(OpenRepos)
    BY ListLength DEF RegInv, ListInv
  <2> QED BY <2>1 DEF RegInv, HandleInv, MapAgreesWithList
<1> QED BY <1>1, RegistryIsSound, PTL

(* No request gets a handle on a repository whose directory Delete has     *)
(* renamed away (registry.go:234-254, 294-340).                                     *)
THEOREM OpenOnDisk == ASSUME RegistryAssumption PROVE Spec => []OpenReposExist
<1>1. RegInv => OpenReposExist
  BY DEF RegInv
<1> QED BY <1>1, RegistryIsSound, PTL
-----------------------------------------------------------------------------
(* How many repositories are open.  The bound is not inductive: what makes *)
(* it hold is why an eviction gave up.  Every element the walk has passed  *)
(* was in use when it was looked at, by a request of its own, and while    *)
(* the walk holds r.mu a request can leave its handle but not get another. *)

(* The elements behind the walk of a are pinned, or were, by different     *)
(* requests other than a, none of which is about to acquire a handle.      *)
PinnedBy(a, f) ==
    /\ f \in Injection((req[a].at + 1)..Len(lru), Requests \ {a})
    /\ \A j \in (req[a].at + 1)..Len(lru) :
           /\ req[f[j]].pc # "acquire"
           /\ req[f[j]].pc = "use" => req[f[j]].h = repos[lru[j]]
Pinned(a) == \E f : PinnedBy(a, f)

Room(n) == n < MaxOpen \/ n < Cardinality(Requests)

CapInv ==
    /\ \A a \in Requests : /\ req[a].pc = "scan" => Pinned(a)
                           /\ req[a].pc = "open" => Room(Len(lru))
    /\ Len(lru) <= MaxOpen \/ Len(lru) <= Cardinality(Requests)

Numbers == MaxOpen \in Nat /\ Cardinality(Requests) \in Nat /\ Len(lru) \in Nat

LEMMA NumbersHold == ASSUME RegInv PROVE Numbers
<1>1. IsFiniteSet(Requests) /\ MaxOpen \in Nat
  BY DEF RegInv, RegistryAssumption
<1> QED BY <1>1, Types, FS_CardinalityType DEF Numbers

(* What others can do while b holds r.mu. *)
LEMMA OthersWait ==
    ASSUME RegInv, NEW b \in Requests, mu = b,
           \/ \E a \in Requests \ {b} : BeginRequest(a) \/ RequestStep(a)
           \/ ReaperStep \/ CloseAll \/ (\E h \in Handles : GrowIdle(h)) \/ UNCHANGED vars
    PROVE  /\ lru' = lru /\ repos' = repos /\ req'[b] = req[b]
           /\ \A c \in Requests :
                  /\ req'[c].pc = "acquire" => req[c].pc = "acquire"
                  /\ req'[c].pc = "use" /\ req[c].pc # "acquire" =>
                         req[c].pc = "use" /\ req'[c].h = req[c].h
<1>t. /\ req \in [Actors -> ReqRec] /\ Requests \subseteq Actors /\ Reaper \in Actors
      /\ b # Reaper /\ b # Nobody /\ Reaper \notin Requests
  BY Types
<1>r. \A a \in Actors : a # b => req[a].pc \notin LockPCs
  BY <1>t DEF RegInv, ReqInv
<1>1. CASE UNCHANGED vars \/ CloseAll \/ \E h \in Handles : GrowIdle(h)
  BY <1>t, <1>1 DEF vars, CloseAll, GrowIdle
<1>2. CASE ReaperStep
  BY <1>t, <1>r, <1>2 DEF ReaperStep, ReapBegin, ReapOne, ReapClose, ReapEnd, At, LockPCs
<1>3. ASSUME NEW a \in Requests, a # b, BeginRequest(a) \/ RequestStep(a)
      PROVE  /\ UNCHANGED <<lru, repos>>
             /\ \E v : /\ req' = [req EXCEPT ![a] = v]
                       /\ v.pc = "use" => req[a].pc = "acquire"
                       /\ v.pc # "acquire"
  <2>1. req[a] \in ReqRec /\ a \in Actors /\ req[a].pc \notin LockPCs
    BY <1>t, <1>r, <1>3
  <2>2. ASSUME NEW p \in {"mkdir", "create", "use"}, Goto(a, p),
               p = "use" => req[a].pc = "acquire", UNCHANGED <<lru, repos>>
        PROVE  \E v : /\ req' = [req EXCEPT ![a] = v]
                      /\ v.pc = "use" => req[a].pc = "acquire"
                      /\ v.pc # "acquire"
    <3> DEFINE w == [req[a] EXCEPT !.pc = p]
    <3>1. req' = [req EXCEPT ![a] = w]
      BY <2>2 DEF Goto
    <3>2. w.pc = p
      BY <2>1 DEF ReqRec
    <3> HIDE DEF w
    <3> QED BY <2>2, <3>1, <3>2
  <2>3. ASSUME Done(a)
        PROVE  \E v : /\ req' = [req EXCEPT ![a] = v]
                      /\ v.pc = "use" => req[a].pc = "acquire"
                      /\ v.pc # "acquire"
    BY <2>3, ReadyRec DEF Done
  <2>4. CASE BeginRequest(a)
    <3>1. PICK r \in Repos, p \in {"get", "stat", "delete"}, o \in {"get", "create", "delete"} :
              req' = [req EXCEPT ![a] = [Ready EXCEPT !.pc = p, !.repo = r, !.op = o]]
      BY <2>4 DEF BeginRequest
    <3> DEFINE w == [Ready EXCEPT !.pc = p, !.repo = r, !.op = o]
    <3>2. w.pc = p
      BY DEF Ready
    <3>3. req' = [req EXCEPT ![a] = w]
      BY <3>1
    <3> HIDE DEF w
    <3>4. w.pc # "use" /\ w.pc # "acquire"
      BY <3>2
    <3>5. UNCHANGED <<lru, repos>>
      BY <2>4 DEF BeginRequest
    <3> QED BY <3>3, <3>4, <3>5
  <2>5. CASE Acquire(a)
    BY <2>2, <2>5 DEF Acquire, At
  <2>6. CASE Release(a)
    BY <2>3, <2>6 DEF Release
  <2>7. CASE StatNew(a)
    BY <2>2, <2>3, <2>7 DEF StatNew
  <2>8. CASE MakeDirs(a)
    BY <2>2, <2>8 DEF MakeDirs
  <2>9. CASE mu = Nobody \/ req[a].pc \in LockPCs
    BY <1>t, <2>1, <2>9
  <2> QED BY <1>3, <2>4, <2>5, <2>6, <2>7, <2>8, <2>9
      DEF RequestStep, GetFast, TouchFound, GetSlow, CreateLocked, EvictLoop, ScanOne,
          CloseVictim, OpenRepo, OpenFails, Delete, At, LockPCs
<1>4. CASE \E a \in Requests \ {b} : BeginRequest(a) \/ RequestStep(a)
  <2>1. PICK a \in Requests : a # b /\ (BeginRequest(a) \/ RequestStep(a))
    BY <1>4
  <2>2. UNCHANGED <<lru, repos>>
    BY <1>3, <2>1
  <2>3. PICK v : /\ req' = [req EXCEPT ![a] = v]
                 /\ v.pc = "use" => req[a].pc = "acquire"
                 /\ v.pc # "acquire"
    BY <1>3, <2>1
  <2>4. req'[a] = v /\ \A c \in Actors \ {a} : req'[c] = req[c]
    BY <1>t, <2>3
  <2> QED BY <1>t, <2>1, <2>2, <2>3, <2>4
<1> QED BY <1>1, <1>2, <1>4
(* The elements behind a walk stay pinned, or are released, meanwhile.     *)
LEMMA PinnedStays ==
    ASSUME RegInv, NEW b \in Requests, mu = b, Pinned(b),
           \/ \E a \in Requests \ {b} : BeginRequest(a) \/ RequestStep(a)
           \/ ReaperStep \/ CloseAll \/ (\E h \in Handles : GrowIdle(h)) \/ UNCHANGED vars
    PROVE  Pinned(b)'
<1>1. PICK f : PinnedBy(b, f)
  BY DEF Pinned
<1>2. /\ lru' = lru /\ repos' = repos /\ req'[b] = req[b]
      /\ \A c \in Requests :
             /\ req'[c].pc = "acquire" => req[c].pc = "acquire"
             /\ req'[c].pc = "use" /\ req[c].pc # "acquire" =>
                    req[c].pc = "use" /\ req'[c].h = req[c].h
  BY OthersWait
<1> DEFINE D == (req[b].at + 1)..Len(lru)
<1>3. /\ f \in Injection(D, Requests \ {b})
      /\ \A j \in D : /\ f[j] \in Requests /\ req[f[j]].pc # "acquire"
                      /\ req[f[j]].pc = "use" => req[f[j]].h = repos[lru[j]]
  BY <1>1 DEF PinnedBy, Injection
<1>4. \A j \in D : /\ req'[f[j]].pc # "acquire"
                   /\ req'[f[j]].pc = "use" => req'[f[j]].h = repos[lru[j]]
  BY <1>2, <1>3
<1>5. PinnedBy(b, f)'
  BY <1>2, <1>3, <1>4 DEF PinnedBy
<1> QED BY <1>5 DEF Pinned

(* Looking at one more element: its handle is in use by a request that     *)
(* pins no other.                                                          *)
LEMMA PinnedGrows ==
    ASSUME RegInv, NEW b \in Requests, req[b].pc = "scan", Pinned(b), req[b].at > 0,
           handle[repos[lru[req[b].at]]].active # 0,
           UNCHANGED <<lru, repos, handle>>, req' = [req EXCEPT ![b].at = @ - 1]
    PROVE  Pinned(b)'
<1>t. /\ req \in [Actors -> ReqRec] /\ b \in Actors /\ Len(lru) \in Nat
      /\ req[b] \in ReqRec /\ Requests \subseteq Actors
  BY Types
<1>1. PICK n \in Nat : n = req[b].at /\ n \in 1..Len(lru)
  BY <1>t DEF RegInv, PosInv, ReqRec
<1>2. PICK h \in Handles : h = repos[lru[n]]
  BY <1>1, Listed
<1>3. PICK c \in Users(h) : TRUE
  <2>1. Users(h) # {}
    <3>1. handle[h].active = Cardinality(Users(h)) /\ handle[h].active # 0
      BY <1>1, <1>2, UsersFacts
    <3> QED BY <3>1, FS_EmptySet
  <2> QED BY <2>1
<1>4. c \in Requests /\ req[c].pc = "use" /\ req[c].h = h /\ c # b
  BY <1>3 DEF Users
<1>5. PICK f : PinnedBy(b, f)
  BY DEF Pinned
<1> DEFINE D == (n + 1)..Len(lru)
           E == n..Len(lru)
           g == [j \in E |-> IF j = n THEN c ELSE f[j]]
<1>6. /\ f \in [D -> Requests \ {b}] /\ \A i, j \in D : f[i] = f[j] => i = j
      /\ \A j \in D : /\ req[f[j]].pc # "acquire"
                      /\ req[f[j]].pc = "use" => req[f[j]].h = repos[lru[j]]
  BY <1>1, <1>5 DEF PinnedBy, Injection, IsInjective
<1>7. E = D \cup {n} /\ n \notin D /\ D \subseteq 1..Len(lru)
  BY <1>t, <1>1
<1> HIDE DEF D, E
<1>8. \A j \in D : f[j] # c
  <2> SUFFICES ASSUME NEW j \in D, f[j] = c PROVE FALSE
    OBVIOUS
  <2>1. repos[lru[j]] = h /\ j # n /\ j \in 1..Len(lru)
    BY <1>4, <1>6, <1>7
  <2>2. lru[j] \in OpenRepos /\ lru[n] \in OpenRepos
    BY <1>1, <2>1, Listed
  <2>3. handle[h].repo = lru[j] /\ handle[h].repo = lru[n]
    BY <1>2, <2>1, <2>2, OpenFacts
  <2> QED BY <1>1, <2>1, <2>3 DEF RegInv, ListInv, Lists
<1>9. g \in Injection(E, Requests \ {b})
  <2>1. g \in [E -> Requests \ {b}]
    BY <1>4, <1>6, <1>7
  <2>2. ASSUME NEW i \in E, NEW j \in E, g[i] = g[j] PROVE i = j
    BY <1>6, <1>7, <1>8, <2>2
  <2> QED BY <2>1, <2>2 DEF Injection, IsInjective
<1>10. \A j \in E : /\ req[g[j]].pc # "acquire"
                    /\ req[g[j]].pc = "use" => req[g[j]].h = repos[lru[j]]
  BY <1>2, <1>4, <1>6, <1>7
<1>11. /\ req'[b].at = n - 1 /\ (n - 1) + 1 = n
       /\ \A d \in Requests \ {b} : req'[d] = req[d]
  BY <1>t, <1>1 DEF ReqRec
<1>12. \A j \in E : g[j] \in Requests \ {b}
  BY <1>9 DEF Injection
<1> HIDE DEF g
<1>13. PICK k : /\ k \in Injection(E, Requests \ {b})
                /\ \A j \in E : /\ k[j] \in Requests \ {b}
                                /\ req[k[j]].pc # "acquire"
                                /\ req[k[j]].pc = "use" => req[k[j]].h = repos[lru[j]]
  BY <1>9, <1>10, <1>12
<1>14. \A j \in E : /\ req'[k[j]].pc # "acquire"
                    /\ req'[k[j]].pc = "use" => req'[k[j]].h = repos'[lru'[j]]
  BY <1>11, <1>13
<1>15. (req'[b].at + 1)..Len(lru') = E
  BY <1>11 DEF E
<1>16. PinnedBy(b, k)'
  BY <1>13, <1>14, <1>15 DEF PinnedBy
<1> QED BY <1>16 DEF Pinned

(* A walk that found every element pinned: the requests outnumber the      *)
(* list.                                                                   *)
LEMMA AllPinned ==
    ASSUME RegInv, NEW b \in Requests, Pinned(b), req[b].at = 0
    PROVE  Len(lru) < Cardinality(Requests)
<1>1. PICK f : PinnedBy(b, f)
  BY DEF Pinned
<1>2. f \in Injection(1..Len(lru), Requests \ {b}) /\ Len(lru) \in Nat
  BY <1>1, Types DEF PinnedBy
<1>3. IsFiniteSet(Requests)
  BY DEF RegInv, RegistryAssumption
<1>4. /\ IsFiniteSet(Requests \ {b})
      /\ Cardinality(Requests \ {b}) = Cardinality(Requests) - 1
  BY <1>3, FS_RemoveElement
<1>5. Cardinality(1..Len(lru)) <= Cardinality(Requests \ {b})
  BY <1>2, <1>4, FS_Injection
<1>6. Cardinality(1..Len(lru)) = IF 1 > Len(lru) THEN 0 ELSE Len(lru) - 1 + 1
  BY <1>2, FS_Interval
<1>7. MaxOpen \in Nat /\ Cardinality(Requests) \in Nat
  BY NumbersHold DEF Numbers
<1> QED BY <1>2, <1>4, <1>5, <1>6, <1>7
(* Only an opening makes the list longer.                                  *)
LEMMA LengthSteps ==
    ASSUME RegInv, [Next]_vars
    PROVE  \/ Len(lru') <= Len(lru)
           \/ \E a \in Requests : req[a].pc = "open" /\ Len(lru') = Len(lru) + 1
<1>t. /\ Len(lru) \in Nat /\ Requests \subseteq Actors /\ lru \in Seq(Repos)
      /\ repos \in [Repos -> Handles \cup {NoHandle}]
  BY Types
<1>1. ASSUME NEW h \in Handles, Touch(h), repos' = repos PROVE Len(lru') <= Len(lru)
  BY <1>t, <1>1, TouchStep
<1>2. ASSUME NEW r \in OpenRepos, CloseRepo(repos[r]) PROVE Len(lru') <= Len(lru)
  BY <1>t, <1>2, CloseStep
<1>3. ASSUME NEW a \in Requests, TouchFound(a) PROVE Len(lru') <= Len(lru)
  <2>1. req[a].h \in Handles
    BY <1>3 DEF TouchFound, At, RegInv, ReqInv, HandlePCs
  <2> QED BY <1>1, <1>3, <2>1 DEF TouchFound
<1>4. ASSUME NEW a \in Requests, GetSlow(a) PROVE Len(lru') <= Len(lru)
  <2>1. req[a].repo \in Repos
    BY <1>4 DEF GetSlow, At, RegInv, ReqInv
  <2>2. repos[req[a].repo] # NoHandle => repos[req[a].repo] \in Handles
    BY <1>t, <2>1
  <2>3. repos' = repos /\ (lru' = lru \/ (repos[req[a].repo] # NoHandle /\ Touch(repos[req[a].repo])))
    BY <1>4 DEF GetSlow
  <2> QED BY <1>t, <1>1, <2>2, <2>3
<1>5. ASSUME NEW a \in Requests, CloseVictim(a) PROVE Len(lru') <= Len(lru)
  <2>1. lru[req[a].at] \in OpenRepos
    BY <1>t, <1>5, Listed DEF CloseVictim, At, RegInv, PosInv
  <2> QED BY <1>2, <1>5, <2>1 DEF CloseVictim
<1>6. ASSUME NEW a \in Requests, Delete(a) PROVE Len(lru') <= Len(lru)
  <2>1. req[a].repo \in Repos
    BY <1>6 DEF Delete, At, RegInv, ReqInv
  <2>2. lru' = lru \/ (repos[req[a].repo] # NoHandle /\ CloseRepo(repos[req[a].repo]))
    BY <1>6 DEF Delete
  <2> QED BY <1>t, <1>2, <2>1, <2>2 DEF OpenRepos
<1>7. ASSUME ReaperStep PROVE Len(lru') <= Len(lru)
  <2>1. CASE ReapClose
    <3>1. lru[req[Reaper].at] \in OpenRepos
      BY <1>t, <2>1, Listed, Types DEF ReapClose, At, RegInv, PosInv
    <3> QED BY <1>2, <2>1, <3>1 DEF ReapClose
  <2> QED BY <1>t, <1>7, <2>1 DEF ReaperStep, ReapBegin, ReapOne, ReapEnd
<1>8. ASSUME NEW a \in Requests, OpenRepo(a)
      PROVE  req[a].pc = "open" /\ Len(lru') = Len(lru) + 1
  <2>1. PICK r : r = req[a].repo
    OBVIOUS
  <2>2. req[a].pc = "open" /\ lru' = <<r>> \o lru
    BY <1>8, <2>1 DEF OpenRepo, At
  <2>3. r \in Repos
    BY <2>1, <2>2 DEF RegInv, ReqInv
  <2> QED BY <1>t, <2>2, <2>3
<1>9. ASSUME NEW a \in Requests, BeginRequest(a) \/ RequestStep(a), ~OpenRepo(a)
      PROVE  Len(lru') <= Len(lru)
  <2>1. CASE BeginRequest(a) \/ GetFast(a) \/ Acquire(a) \/ Release(a) \/ StatNew(a)
             \/ MakeDirs(a) \/ CreateLocked(a) \/ EvictLoop(a) \/ ScanOne(a) \/ OpenFails(a)
    <3>1. lru' = lru
      BY <2>1 DEF BeginRequest, GetFast, Acquire, Release, StatNew, MakeDirs, CreateLocked,
                  EvictLoop, ScanOne, OpenFails
    <3> QED BY <1>t, <3>1
  <2> QED BY <1>3, <1>4, <1>5, <1>6, <1>9, <2>1 DEF RequestStep
<1>10. CASE UNCHANGED vars \/ CloseAll \/ \E h \in Handles : GrowIdle(h)
  BY <1>t, <1>10 DEF vars, CloseAll, GrowIdle
<1> QED BY <1>7, <1>8, <1>9, <1>10 DEF Next

(* What b does is not altered by the others.                               *)
LEMMA OthersLeave ==
    ASSUME RegInv, NEW b \in Requests,
           \/ \E a \in Requests \ {b} : BeginRequest(a) \/ RequestStep(a)
           \/ ReaperStep \/ CloseAll \/ (\E h \in Handles : GrowIdle(h)) \/ UNCHANGED vars
    PROVE  req'[b] = req[b]
<1>t. /\ req \in [Actors -> ReqRec] /\ Requests \subseteq Actors /\ b # Reaper
  BY Types
<1>1. CASE UNCHANGED vars \/ CloseAll \/ \E h \in Handles : GrowIdle(h)
  BY <1>1 DEF vars, CloseAll, GrowIdle
<1>2. ASSUME NEW a, a # b, Done(a) PROVE req'[b] = req[b]
  BY <1>t, <1>2 DEF Done
<1>3. ASSUME NEW a, a # b, NEW p, Goto(a, p) PROVE req'[b] = req[b]
  BY <1>t, <1>3 DEF Goto
<1>4. CASE ReaperStep
  BY <1>t, <1>2, <1>3, <1>4 DEF ReaperStep, ReapBegin, ReapOne, ReapClose, ReapEnd
<1>5. ASSUME NEW a \in Requests, a # b, BeginRequest(a) \/ RequestStep(a)
      PROVE  req'[b] = req[b]
  <2>1. CASE BeginRequest(a) \/ GetFast(a) \/ EvictLoop(a)
    BY <1>t, <1>5, <2>1 DEF BeginRequest, GetFast, EvictLoop
  <2>2. CASE TouchFound(a) \/ GetSlow(a) \/ Acquire(a) \/ Release(a) \/ OpenRepo(a)
    <3>1. ASSUME NEW h, Have(a, h) PROVE req'[b] = req[b]
      BY <1>t, <1>5, <3>1 DEF Have
    <3> QED BY <1>2, <1>3, <1>5, <2>2, <3>1
            DEF TouchFound, GetSlow, Acquire, Release, OpenRepo
  <2>3. CASE StatNew(a) \/ MakeDirs(a) \/ CreateLocked(a) \/ CloseVictim(a) \/ OpenFails(a)
             \/ Delete(a)
    BY <1>2, <1>3, <1>5, <2>3
       DEF StatNew, MakeDirs, CreateLocked, CloseVictim, OpenFails, Delete
  <2>4. CASE ScanOne(a)
    BY <1>t, <1>3, <1>5, <2>4 DEF ScanOne
  <2> QED BY <1>5, <2>1, <2>2, <2>3, <2>4 DEF RequestStep
<1> QED BY <1>1, <1>4, <1>5

(* A step of b that begins a walk, takes it on or ends it.                 *)
LEMMA OwnWalk ==
    ASSUME RegInv, CapInv, NEW b \in Requests, BeginRequest(b) \/ RequestStep(b)
    PROVE  /\ req'[b].pc = "scan" => Pinned(b)'
           /\ req'[b].pc = "open" => Room(Len(lru'))
<1>t. /\ req \in [Actors -> ReqRec] /\ b \in Actors /\ req[b] \in ReqRec /\ Len(lru) \in Nat
  BY Types
<1>1. CASE EvictLoop(b)
  <2>1. /\ req'[b].at = Len(lru) /\ lru' = lru
        /\ req'[b].pc = IF Cardinality(OpenRepos) >= MaxOpen THEN "scan" ELSE "open"
    BY <1>t, <1>1 DEF EvictLoop, ReqRec
  <2>2. Cardinality(OpenRepos) = Len(lru)
    BY ListLength DEF RegInv, ListInv
  <2>3. req'[b].pc = "open" => Room(Len(lru'))
    BY <2>1, <2>2, NumbersHold DEF Room, Numbers
  <2>4. Pinned(b)'
    <3> DEFINE D == (req'[b].at + 1)..Len(lru')
    <3>1. D = {}
      BY <1>t, <2>1
    <3>2. PICK f : f = [j \in {} |-> b]
      OBVIOUS
    <3>3. f \in Injection(D, Requests \ {b})
      BY <3>1, <3>2 DEF Injection, IsInjective
    <3>4. PinnedBy(b, f)'
      BY <3>1, <3>3 DEF PinnedBy
    <3> QED BY <3>4 DEF Pinned
  <2> QED BY <2>3, <2>4
<1>2. CASE ScanOne(b)
  <2>1. req[b].pc = "scan" /\ UNCHANGED <<lru, repos, handle>> /\ Pinned(b) /\ req[b].at \in Nat
    BY <1>t, <1>2 DEF ScanOne, At, CapInv, ReqRec
  <2>2. CASE Goto(b, "open") /\ req[b].at = 0
    <3>1. req'[b].pc = "open" /\ Len(lru) < Cardinality(Requests)
      BY <1>t, <2>1, <2>2, AllPinned DEF Goto, ReqRec
    <3> QED BY <2>1, <3>1 DEF Room
  <2>3. CASE Goto(b, "close")
    <3>1. req'[b].pc = "close"
      BY <1>t, <2>3 DEF Goto, ReqRec
    <3> QED BY <3>1
  <2>4. CASE req[b].at > 0 /\ handle[repos[lru[req[b].at]]].active # 0
             /\ req' = [req EXCEPT ![b].at = @ - 1]
    <3>1. Pinned(b)'
      BY <2>1, <2>4, PinnedGrows
    <3>2. req'[b].pc = "scan"
      BY <1>t, <2>1, <2>4 DEF ReqRec
    <3> QED BY <3>1, <3>2
  <2> QED BY <1>2, <2>2, <2>3, <2>4 DEF ScanOne
<1>3. ASSUME ~EvictLoop(b), ~ScanOne(b) PROVE req'[b].pc \notin {"scan", "open"}
  <2>1. ASSUME Done(b) PROVE req'[b].pc \notin {"scan", "open"}
    BY <1>t, <2>1 DEF Done, Ready
  <2>2. ASSUME NEW p, Goto(b, p), p \notin {"scan", "open"}
        PROVE  req'[b].pc \notin {"scan", "open"}
    BY <1>t, <2>2 DEF Goto, ReqRec
  <2>3. ASSUME NEW h, Have(b, h) PROVE req'[b].pc \notin {"scan", "open"}
    BY <1>t, <2>3 DEF Have, ReqRec
  <2>4. CASE BeginRequest(b)
    BY <1>t, <2>4 DEF BeginRequest, Ready
  <2>5. CASE GetFast(b)
    <3> DEFINE v == [req[b] EXCEPT !.pc = IF repos[req[b].repo] # NoHandle THEN "touch"
                                          ELSE "slow",
                                   !.h = repos[req[b].repo]]
    <3>1. req' = [req EXCEPT ![b] = v]
      BY <2>5 DEF GetFast
    <3>2. v.pc \in {"touch", "slow"}
      BY <1>t DEF ReqRec
    <3> HIDE DEF v
    <3> QED BY <1>t, <3>1, <3>2
  <2> QED BY <1>3, <2>1, <2>2, <2>3, <2>4, <2>5
          DEF RequestStep, TouchFound, GetSlow, Acquire, Release, StatNew, MakeDirs,
              CreateLocked, CloseVictim, OpenRepo, OpenFails, Delete
<1> QED BY <1>1, <1>2, <1>3

LEMMA NextCapInv == RegInv /\ CapInv /\ [Next]_vars => CapInv'
<1> SUFFICES ASSUME RegInv, CapInv, [Next]_vars PROVE CapInv'
  OBVIOUS
<1>n. Numbers /\ Len(lru') \in Nat
  <2>1. RegInv'
    BY NextRegInv
  <2>2. lru' \in Seq(Repos)
    BY <2>1 DEF RegInv, TypeOK
  <2> QED BY <2>2, NumbersHold
<1>1. Len(lru') <= MaxOpen \/ Len(lru') <= Cardinality(Requests)
  <2>1. CASE Len(lru') <= Len(lru)
    BY <1>n, <2>1 DEF CapInv, Numbers
  <2>2. CASE \E a \in Requests : req[a].pc = "open" /\ Len(lru') = Len(lru) + 1
    <3>1. Room(Len(lru)) /\ Len(lru') = Len(lru) + 1
      BY <2>2 DEF CapInv
    <3> QED BY <1>n, <3>1 DEF Room, Numbers
  <2> QED BY <2>1, <2>2, LengthSteps
<1>2. ASSUME NEW b \in Requests
      PROVE  /\ req'[b].pc = "scan" => Pinned(b)'
             /\ req'[b].pc = "open" => Room(Len(lru'))
  <2>1. CASE BeginRequest(b) \/ RequestStep(b)
    BY <2>1, OwnWalk
  <2>2. CASE \/ \E a \in Requests \ {b} : BeginRequest(a) \/ RequestStep(a)
             \/ ReaperStep \/ CloseAll \/ (\E h \in Handles : GrowIdle(h)) \/ UNCHANGED vars
    <3>1. req'[b] = req[b]
      BY <2>2, OthersLeave
    <3>2. CASE req[b].pc \in {"scan", "open"}
      <4>1. mu = b
        BY <3>2, Types DEF RegInv, ReqInv, LockPCs
      <4>2. lru' = lru
        BY <2>2, <4>1, OthersWait
      <4>3. Pinned(b) => Pinned(b)'
        BY <2>2, <4>1, PinnedStays
      <4> QED BY <3>1, <4>2, <4>3 DEF CapInv
    <3> QED BY <3>1, <3>2
  <2> QED BY <2>1, <2>2 DEF Next
<1> QED BY <1>1, <1>2 DEF CapInv

LEMMA InitCapInv == ASSUME RegistryAssumption PROVE Init => CapInv
<1> SUFFICES ASSUME Init PROVE CapInv
  OBVIOUS
<1>1. Numbers
  BY InitRegInv, NumbersHold
<1>2. Len(lru) = 0 /\ \A a \in Requests : req[a].pc = "ready"
  BY DEF Init, Actors, Ready
<1> QED BY <1>1, <1>2 DEF CapInv, Numbers

(* registry.go: MaxOpen is the capacity of the list.  Evictions pass over  *)
(* handles in use, so there may be more open repositories, but never more  *)
(* than the requests in flight: an opening beyond MaxOpen finds every      *)
(* listed repository pinned by a request of its own.                       *)
THEOREM CapacityHolds == ASSUME RegistryAssumption PROVE Spec => []CapacityBound
<1>1. Spec => [](RegInv /\ CapInv)
  <2>1. Init => RegInv /\ CapInv
    BY InitRegInv, InitCapInv
  <2>2. RegInv /\ CapInv /\ [Next]_vars => RegInv' /\ CapInv'
    BY NextRegInv, NextCapInv
  <2> QED BY <2>1, <2>2, PTL DEF Spec
<1>2. RegInv /\ CapInv => CapacityBound
  <2> SUFFICES ASSUME RegInv, CapInv PROVE CapacityBound
    OBVIOUS
  <2>1. Cardinality(OpenRepos) = Len(lru)
    BY ListLength DEF RegInv, ListInv
  <2> QED BY <2>1, NumbersHold DEF CapInv, CapacityBound, Numbers
<1> QED BY <1>1, <1>2, PTL
===============================================================================
