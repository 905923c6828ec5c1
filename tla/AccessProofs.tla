----------------------------- MODULE AccessProofs ------------------------------
(* Proofs about Orgs and Accounts, the control plane's administration and    *)
(* login: who may reach which repository is consistent, a delivery is being  *)
(* sent, recorded or counted as lost, logins lead to approved or invited     *)
(* accounts and do not multiply sessions, and grants of CI access are kept,  *)
(* for any number of requests, organisations, users, repositories, webhooks, *)
(* addresses and links.                                                      *)
(*                                                                           *)
(* A request acts on what it has read. The two invariants say what that is,  *)
(* and why it stays true where it matters. That of Orgs has three parts,     *)
(* which the actions disturb one at a time: organisations and members,       *)
(* repositories and the shard's handles, webhooks and their deliveries. That *)
(* of Accounts rests on rows that only grow: an approved address stays       *)
(* approved, a link that was used stays used, a user's number a user's.      *)
EXTENDS Orgs, Accounts, FiniteSetTheorems, TLAPS


RepoRow   == [org : Slugs, name : Names, vis : Visibilities, live : BOOLEAN]
HookCols  == {"id", "repo", "url", "active"}
DelivCols == {"id", "hook", "repo", "status", "lost"}

(* What a request r has at hand. *)
OrgReq(r, og) ==
    /\ r.op = "org_member" => r.org \in Slugs /\ r.user \in Users /\ og[r.org] = r.user
    /\ r.op = "member" => r.org \in Slugs /\ og[r.org] # NoUser
    /\ r.op = "add_member" => /\ r.org \in Slugs /\ og[r.org] # NoUser
                              /\ r.user \in Users /\ r.role \in Roles
RepoReq(r, rp) ==
    /\ r.op \in {"repo", "got"} => r.id \in DOMAIN rp /\ r.org \in Slugs /\ rp[r.id].org = r.org
    /\ r.op = "delete_row" => r.id \in DOMAIN rp
    /\ r.op \in {"get", "got"} => r.org \in Slugs /\ r.name \in Names
HookReq(r, hk, n) ==
    r.op = "trigger" =>
        /\ DOMAIN r = {"op", "todo"}
        /\ \A h \in r.todo : h.id \in 1..n /\ \A g \in hk : g.id = h.id => g.repo = h.repo

(* Organisations: one that does not exist has no members, and its owner is   *)
(* a member once both statements have run.                                   *)
OrgInv ==
    /\ DOMAIN asked = Procs
    /\ orgs \in [Slugs -> Users \cup {NoUser}]
    /\ role \in [Slugs -> [Users -> Roles \cup {"none"}]]
    /\ keys \in [Keys -> Users \cup {NoUser}]
    /\ \A p \in Procs : OrgReq(asked[p], orgs)
    /\ \A o \in Slugs : orgs[o] = NoUser => \A u \in Users : role[o][u] = "none"
    /\ OwnerStaysMember

(* Repositories and handles: a row stays in the org it was created in. *)
RepoInv ==
    /\ DOMAIN asked = Procs
    /\ repoRows \in Seq(RepoRow)
    /\ DOMAIN handles = Slugs \X Names
    /\ \A p \in Procs : RepoReq(asked[p], repoRows)
    /\ \A o \in Slugs, n \in Names :
         LET i == handles[<<o, n>>] IN i # NoId => i \in DOMAIN repoRows /\ repoRows[i].org = o

(* A delivery's id is given once as well. *)
IdsGiven ==
    /\ count.deliveries \in Nat
    /\ senders \subseteq 1..count.deliveries
    /\ \A d \in deliveries : d.id \in 1..count.deliveries

(* Webhooks: an id is given once and stays with its repository, so a         *)
(* delivery is of a webhook of the repository it names.                      *)
HookInv ==
    /\ DOMAIN asked = Procs
    /\ DOMAIN count = {"requests", "hooks", "deliveries", "crashes"}
    /\ count.hooks \in Nat /\ count.crashes \in Nat
    /\ \A h \in hooks : /\ DOMAIN h = HookCols /\ h.id \in 1..count.hooks
                        /\ h.repo \in DOMAIN repoRows /\ repoRows[h.repo].live
    /\ \A g, h \in hooks : g.id = h.id => g.repo = h.repo
    /\ \A d \in deliveries : /\ DOMAIN d = DelivCols
                             /\ \E h \in hooks : h.id = d.hook /\ h.repo = d.repo
    /\ \A p \in Procs : HookReq(asked[p], hooks, count.hooks)
    /\ IdsGiven
    /\ DeliveriesAreAccounted

AccessInv == OrgInv /\ RepoInv /\ HookInv

-----------------------------------------------------------------------------
(* Requests and counters. *)

LEMMA GotoFacts ==
    ASSUME DOMAIN asked = Procs, NEW p \in Procs, NEW r, OrgGoto(p, r)
    PROVE  DOMAIN asked' = Procs /\ asked'[p] = r /\ \A q \in Procs \ {p} : asked'[q] = asked[q]
BY DEF OrgGoto

LEMMA IdleKnows ==
    \A og, rp, hk, n : NoRequest.op = "idle" /\ OrgReq(NoRequest, og) /\ RepoReq(NoRequest, rp) /\ HookReq(NoRequest, hk, n)
BY DEF NoRequest, OrgReq, RepoReq, HookReq

LEMMA CountFacts ==
    ASSUME HookInv, NEW f \in {"requests", "deliveries"}, Count(f)
    PROVE  /\ DOMAIN count' = DOMAIN count
           /\ count'.hooks = count.hooks /\ count'.crashes = count.crashes
           /\ count'.deliveries = IF f = "deliveries" THEN count.deliveries + 1 ELSE count.deliveries
BY DEF HookInv, Count

LEMMA BeginFacts ==
    ASSUME HookInv, NEW p \in Procs, NEW r, OrgBegin(p, r)
    PROVE  /\ OrgGoto(p, r) /\ asked[p] = NoRequest /\ asked[p].op = "idle"
           /\ DOMAIN count' = DOMAIN count
           /\ count'.hooks = count.hooks /\ count'.crashes = count.crashes
           /\ count'.deliveries = count.deliveries
BY CountFacts, IdleKnows DEF OrgBegin

-----------------------------------------------------------------------------
(* What keeps a part of the invariant. *)

LEMMA OrgKept ==
    ASSUME OrgInv, UNCHANGED <<orgs, role>>, DOMAIN asked' = Procs,
           keys' \in [Keys -> Users \cup {NoUser}], cut \subseteq cut',
           \A q \in Procs : OrgReq(asked'[q], orgs),
           \A q \in Procs : asked[q].op = "org_member" =>
               asked[q].org \in cut' \/ (asked'[q].op = "org_member" /\ asked'[q].org = asked[q].org)
    PROVE  OrgInv'
<1>1. OwnerStaysMember'
  BY DEF OrgInv, OwnerStaysMember, OrgAt
<1> QED BY <1>1 DEF OrgInv

LEMMA RepoKept ==
    ASSUME RepoInv, UNCHANGED <<repoRows, handles>>, DOMAIN asked' = Procs,
           \A q \in Procs : RepoReq(asked'[q], repoRows)
    PROVE  RepoInv'
BY DEF RepoInv

LEMMA HookKept ==
    ASSUME HookInv, UNCHANGED <<hooks, deliveries, senders>>, DOMAIN asked' = Procs,
           DOMAIN count' = DOMAIN count, count'.hooks = count.hooks, count'.crashes = count.crashes,
           count'.deliveries = count.deliveries,
           \A i \in DOMAIN repoRows : i \in DOMAIN repoRows' /\ (repoRows[i].live => repoRows'[i].live),
           \A q \in Procs : HookReq(asked'[q], hooks, count.hooks)
    PROVE  HookInv'
BY DEF HookInv, IdsGiven, DeliveriesAreAccounted

(* The two parts that a step of one request with its result r leaves alone.  *)
LEMMA OthersKept ==
    ASSUME AccessInv, NEW p \in Procs, NEW r, OrgGoto(p, r)
    PROVE  /\ DOMAIN asked' = Procs /\ asked'[p] = r /\ \A q \in Procs \ {p} : asked'[q] = asked[q]
           /\ UNCHANGED <<orgs, role, keys, cut>> /\ OrgReq(r, orgs) /\ asked[p].op # "org_member" => OrgInv'
           /\ UNCHANGED <<repoRows, handles>> /\ RepoReq(r, repoRows) => RepoInv'
           /\ (/\ UNCHANGED <<hooks, deliveries, senders>> /\ DOMAIN count' = DOMAIN count
               /\ count'.hooks = count.hooks /\ count'.crashes = count.crashes
               /\ count'.deliveries = count.deliveries
               /\ \A i \in DOMAIN repoRows : i \in DOMAIN repoRows' /\ (repoRows[i].live => repoRows'[i].live)
               /\ HookReq(r, hooks, count.hooks)) => HookInv'
<1>1. OrgInv /\ RepoInv /\ HookInv /\ DOMAIN asked = Procs
  BY DEF AccessInv, OrgInv
<1>2. DOMAIN asked' = Procs /\ asked'[p] = r /\ \A q \in Procs \ {p} : asked'[q] = asked[q]
  BY <1>1, GotoFacts
<1>3. ASSUME UNCHANGED <<orgs, role, keys, cut>>, OrgReq(r, orgs), asked[p].op # "org_member"
      PROVE  OrgInv'
  <2>1. \A q \in Procs : OrgReq(asked'[q], orgs)
    BY <1>1, <1>2, <1>3 DEF OrgInv
  <2>2. keys' \in [Keys -> Users \cup {NoUser}]
    BY <1>1, <1>3 DEF OrgInv
  <2> QED BY <1>1, <1>2, <1>3, <2>1, <2>2, OrgKept
<1>4. ASSUME UNCHANGED <<repoRows, handles>>, RepoReq(r, repoRows)
      PROVE  RepoInv'
  <2>1. \A q \in Procs : RepoReq(asked'[q], repoRows)
    BY <1>1, <1>2, <1>4 DEF RepoInv
  <2> QED BY <1>1, <1>2, <1>4, <2>1, RepoKept
<1>5. ASSUME UNCHANGED <<hooks, deliveries, senders>>, DOMAIN count' = DOMAIN count,
             count'.hooks = count.hooks, count'.crashes = count.crashes,
             count'.deliveries = count.deliveries,
             \A i \in DOMAIN repoRows : i \in DOMAIN repoRows' /\ (repoRows[i].live => repoRows'[i].live),
             HookReq(r, hooks, count.hooks)
      PROVE  HookInv'
  <2>1. \A q \in Procs : HookReq(asked'[q], hooks, count.hooks)
    BY <1>1, <1>2, <1>5 DEF HookInv
  <2> QED BY <1>1, <1>2, <1>5, <2>1, HookKept
<1> QED BY <1>2, <1>3, <1>4, <1>5

(* A step that only has a request read something, or end. *)
LEMMA ReadKeeps ==
    ASSUME AccessInv, NEW p \in Procs, NEW r, OrgGoto(p, r), asked[p].op # "org_member",
           UNCHANGED <<orgs, role, repoRows, keys, hooks, deliveries, senders, handles, cut>>,
           DOMAIN count' = DOMAIN count, count'.hooks = count.hooks, count'.crashes = count.crashes,
           count'.deliveries = count.deliveries,
           OrgReq(r, orgs), RepoReq(r, repoRows), HookReq(r, hooks, count.hooks)
    PROVE  AccessInv'
BY OthersKept DEF AccessInv
-----------------------------------------------------------------------------
(* Organisations and members. *)

LEMMA RoleSet == Roles = {"guest", "reporter", "developer", "maintainer", "admin", "owner"}
BY DEF Roles, RoleHierarchy

LEMMA CreateOrgKeeps ==
    ASSUME OrgsAssumption, AccessInv, NEW p \in Procs, NEW u \in Users, NEW o \in Slugs, CreateOrg(p, u, o)
    PROVE  AccessInv'
<1> DEFINE r == [op |-> "org_member", org |-> o, user |-> u]
<1>1. OrgInv /\ HookInv
  BY DEF AccessInv
<1>2. /\ orgs[o] = NoUser /\ OrgBegin(p, r) /\ orgs' = [orgs EXCEPT ![o] = u]
      /\ UNCHANGED <<role, repoRows, keys, hooks, deliveries, senders, handles, cut>>
  BY DEF CreateOrg
<1>3. /\ OrgGoto(p, r) /\ asked[p].op = "idle" /\ DOMAIN count' = DOMAIN count
      /\ count'.hooks = count.hooks /\ count'.crashes = count.crashes
      /\ count'.deliveries = count.deliveries
  BY <1>1, <1>2, BeginFacts
<1>4. RepoReq(r, repoRows) /\ HookReq(r, hooks, count.hooks) /\ r.op = "org_member" /\ r.org = o /\ r.user = u
  BY DEF RepoReq, HookReq
<1> HIDE DEF r
<1>5. RepoInv' /\ HookInv' /\ DOMAIN asked' = Procs /\ asked'[p] = r /\ \A q \in Procs \ {p} : asked'[q] = asked[q]
  BY <1>2, <1>3, <1>4, OthersKept
<1>6. u # NoUser
  BY DEF OrgsAssumption
<1>7. orgs'[o] = u /\ \A s \in Slugs \ {o} : orgs'[s] = orgs[s]
  BY <1>1, <1>2 DEF OrgInv
<1>8. OrgInv'
  <2>1. ASSUME NEW q \in Procs PROVE OrgReq(asked'[q], orgs')
    <3>1. CASE q = p
      BY <1>4, <1>5, <1>7, <3>1 DEF OrgReq
    <3>2. CASE q # p
      BY <1>1, <1>2, <1>5, <1>6, <1>7, <3>2 DEF OrgInv, OrgReq, OrgsAssumption
    <3> QED BY <3>1, <3>2
  <2>2. ASSUME NEW s \in Slugs, orgs'[s] # NoUser, role'[s][orgs'[s]] = "none"
        PROVE  s \in cut' \/ \E q \in Procs : asked'[q].op = "org_member" /\ asked'[q].org = s
    <3>1. CASE s = o
      BY <1>4, <1>5, <3>1
    <3>2. CASE s # o
      <4>1. s \in cut \/ \E q \in Procs : asked[q].op = "org_member" /\ asked[q].org = s
        BY <1>1, <1>2, <1>7, <2>2, <3>2 DEF OrgInv, OwnerStaysMember, OrgAt
      <4> QED BY <1>2, <1>3, <1>5, <4>1
    <3> QED BY <3>1, <3>2
  <2>3. OwnerStaysMember'
    BY <2>2 DEF OwnerStaysMember, OrgAt
  <2>4. \A s \in Slugs : orgs'[s] = NoUser => \A v \in Users : role'[s][v] = "none"
    BY <1>1, <1>2, <1>6, <1>7 DEF OrgInv
  <2>5. orgs' \in [Slugs -> Users \cup {NoUser}]
    BY <1>1, <1>2 DEF OrgInv
  <2> QED BY <1>1, <1>2, <1>5, <2>1, <2>3, <2>4, <2>5 DEF OrgInv
<1> QED BY <1>5, <1>8 DEF AccessInv

(* A membership of an org that exists is written: the owner's only by a      *)
(* role, never taken away.                                                   *)
LEMMA RoleWritten ==
    ASSUME OrgsAssumption, AccessInv, NEW p \in Procs, NEW o \in Slugs, NEW u \in Users,
           NEW v \in Roles \cup {"none"}, orgs[o] # NoUser,
           v = "none" => u # orgs[o],
           role' = [role EXCEPT ![o][u] = v], OrgFinish(p),
           UNCHANGED <<orgs, repoRows, keys, hooks, deliveries, senders, handles, count, cut>>,
           asked[p].op = "org_member" => asked[p].org = o /\ u = orgs[o]
    PROVE  AccessInv'
<1>1. OrgInv
  BY DEF AccessInv
<1>2. RepoInv' /\ HookInv' /\ DOMAIN asked' = Procs /\ asked'[p] = NoRequest /\ \A q \in Procs \ {p} : asked'[q] = asked[q]
  BY IdleKnows, OthersKept DEF OrgFinish
<1>3. /\ role' \in [Slugs -> [Users -> Roles \cup {"none"}]]
      /\ role'[o][u] = v /\ \A w \in Users \ {u} : role'[o][w] = role[o][w]
      /\ \A s \in Slugs \ {o} : role'[s] = role[s]
  BY <1>1 DEF OrgInv
<1>4. "none" \notin Roles
  BY RoleSet
<1>5. OrgInv'
  <2>1. \A q \in Procs : OrgReq(asked'[q], orgs')
    BY <1>1, <1>2, IdleKnows DEF OrgInv
  <2>2. ASSUME NEW s \in Slugs, orgs[s] # NoUser, role'[s][orgs[s]] = "none"
        PROVE  s \in cut \/ \E q \in Procs : asked'[q].op = "org_member" /\ asked'[q].org = s
    <3>1. orgs[s] \in Users
      BY <1>1, <2>2 DEF OrgInv
    <3>2. role[s][orgs[s]] = "none"
      <4>1. CASE s = o /\ u = orgs[o]
        BY <1>3, <1>4, <2>2, <4>1
      <4>2. CASE ~(s = o /\ u = orgs[o])
        BY <1>3, <2>2, <3>1, <4>2
      <4> QED BY <4>1, <4>2
    <3>3. s \in cut \/ \E q \in Procs : asked[q].op = "org_member" /\ asked[q].org = s
      BY <1>1, <2>2, <3>2 DEF OrgInv, OwnerStaysMember, OrgAt
    <3>4. ~(asked[p].op = "org_member" /\ asked[p].org = s)
      BY <1>3, <1>4, <2>2
    <3> QED BY <1>2, <3>3, <3>4
  <2>3. OwnerStaysMember'
    BY <2>2 DEF OwnerStaysMember, OrgAt
  <2>4. \A s \in Slugs : orgs'[s] = NoUser => \A w \in Users : role'[s][w] = "none"
    BY <1>1, <1>3 DEF OrgInv
  <2> QED BY <1>1, <1>2, <1>3, <2>1, <2>3, <2>4 DEF OrgInv
<1> QED BY <1>2, <1>5 DEF AccessInv

LEMMA CreateOrgMemberKeeps ==
    ASSUME OrgsAssumption, AccessInv, NEW p \in Procs, CreateOrgMember(p)
    PROVE  AccessInv'
<1>1. asked[p].op = "org_member" /\ OrgReq(asked[p], orgs)
  BY DEF CreateOrgMember, OrgAt, AccessInv, OrgInv
<1>2. asked[p].org \in Slugs /\ asked[p].user \in Users /\ orgs[asked[p].org] = asked[p].user
  BY <1>1 DEF OrgReq
<1>3. orgs[asked[p].org] # NoUser /\ "owner" \in Roles
  BY <1>2, RoleSet DEF OrgsAssumption
<1> QED BY <1>1, <1>2, <1>3, RoleWritten DEF CreateOrgMember

LEMMA AddMemberKeeps ==
    ASSUME AccessInv, NEW p \in Procs, NEW u \in Users, NEW v \in Roles, AddMember(p, u, v)
    PROVE  AccessInv'
<1> DEFINE r == [op |-> "add_member", org |-> asked[p].org, user |-> u, role |-> v]
<1>1. /\ asked[p].op = "member" /\ OrgReq(asked[p], orgs) /\ OrgGoto(p, r)
      /\ UNCHANGED <<orgs, role, repoRows, keys, hooks, deliveries, senders, handles, count, cut>>
  BY DEF AddMember, OrgAt, AccessInv, OrgInv
<1>2. OrgReq(r, orgs) /\ RepoReq(r, repoRows) /\ HookReq(r, hooks, count.hooks)
  BY <1>1 DEF OrgReq, RepoReq, HookReq
<1> HIDE DEF r
<1> QED BY <1>1, <1>2, ReadKeeps

LEMMA AddMemberRowKeeps ==
    ASSUME OrgsAssumption, AccessInv, NEW p \in Procs, AddMemberRow(p)
    PROVE  AccessInv'
<1>1. asked[p].op = "add_member" /\ OrgReq(asked[p], orgs)
  BY DEF AddMemberRow, OrgAt, AccessInv, OrgInv
<1>2. /\ asked[p].org \in Slugs /\ orgs[asked[p].org] # NoUser
      /\ asked[p].user \in Users /\ asked[p].role \in Roles
  BY <1>1 DEF OrgReq
<1>3. asked[p].role # "none"
  BY <1>2, RoleSet
<1> QED BY <1>1, <1>2, <1>3, RoleWritten DEF AddMemberRow

LEMMA RemoveMemberKeeps ==
    ASSUME OrgsAssumption, AccessInv, NEW p \in Procs, NEW u \in Users, RemoveMember(p, u)
    PROVE  AccessInv'
<1>1. asked[p].op = "member" /\ OrgReq(asked[p], orgs)
  BY DEF RemoveMember, OrgAt, AccessInv, OrgInv
<1>2. asked[p].org \in Slugs /\ orgs[asked[p].org] # NoUser
  BY <1>1 DEF OrgReq
<1> QED BY <1>1, <1>2, RoleWritten DEF RemoveMember

LEMMA RequireMembershipKeeps ==
    ASSUME AccessInv, NEW p \in Procs, NEW u \in Users, NEW o \in Slugs, RequireMembership(p, u, o)
    PROVE  AccessInv'
<1> DEFINE r == [op |-> "member", user |-> u, org |-> o, role |-> GetMembership(o, u)]
<1>1. /\ orgs[o] # NoUser /\ OrgBegin(p, r)
      /\ UNCHANGED <<orgs, role, repoRows, keys, hooks, deliveries, senders, handles, cut>>
  BY DEF RequireMembership
<1>2. OrgReq(r, orgs) /\ RepoReq(r, repoRows) /\ HookReq(r, hooks, count.hooks)
  BY <1>1 DEF OrgReq, RepoReq, HookReq
<1> HIDE DEF r
<1>3. /\ OrgGoto(p, r) /\ asked[p].op = "idle" /\ DOMAIN count' = DOMAIN count
      /\ count'.hooks = count.hooks /\ count'.crashes = count.crashes
      /\ count'.deliveries = count.deliveries
  BY <1>1, BeginFacts DEF AccessInv
<1> QED BY <1>1, <1>2, <1>3, ReadKeeps

(* A request that is refused, or whose statement fails. *)
LEMMA AbortKeeps ==
    ASSUME AccessInv, NEW p \in Procs, OrgAbort(p)
    PROVE  AccessInv'
<1>1. /\ asked[p].op = "org_member" => asked[p].org \in cut'
      /\ cut \subseteq cut' /\ OrgGoto(p, NoRequest)
      /\ UNCHANGED <<orgs, role, repoRows, keys, hooks, deliveries, senders, handles, count>>
  BY DEF OrgAbort, OrgAt, OrgFinish
<1>2. RepoInv' /\ HookInv' /\ DOMAIN asked' = Procs /\ asked'[p] = NoRequest /\ \A q \in Procs \ {p} : asked'[q] = asked[q]
  BY <1>1, IdleKnows, OthersKept
<1>3. OrgInv'
  <2>1. \A q \in Procs : OrgReq(asked'[q], orgs)
    BY <1>2, IdleKnows DEF AccessInv, OrgInv
  <2>2. keys' \in [Keys -> Users \cup {NoUser}] /\ OrgInv
    BY <1>1 DEF AccessInv, OrgInv
  <2> QED BY <1>1, <1>2, <2>1, <2>2, OrgKept
<1> QED BY <1>2, <1>3 DEF AccessInv

(* The control plane stops: no request is left, and no goroutine. *)
LEMMA CrashKeeps ==
    ASSUME AccessInv, Crash
    PROVE  AccessInv'
<1>1. /\ Count("crashes") /\ asked' = [p \in Procs |-> NoRequest] /\ senders' = {}
      /\ cut' = cut \cup {asked[p].org : p \in {q \in Procs : OrgAt(q, "org_member")}}
      /\ UNCHANGED <<orgs, role, repoRows, keys, hooks, deliveries, handles>>
  BY DEF Crash
<1>2. OrgInv /\ RepoInv /\ HookInv
  BY DEF AccessInv
<1>3. DOMAIN asked' = Procs /\ \A q \in Procs : asked'[q] = NoRequest
  BY <1>1
<1>4. OrgInv'
  <2>1. cut \subseteq cut' /\ \A q \in Procs : asked[q].op = "org_member" => asked[q].org \in cut'
    BY <1>1 DEF OrgAt
  <2>2. keys' \in [Keys -> Users \cup {NoUser}]
    BY <1>1, <1>2 DEF OrgInv
  <2>3. \A q \in Procs : OrgReq(asked'[q], orgs)
    BY <1>3, IdleKnows
  <2> QED BY <1>1, <1>2, <1>3, <2>1, <2>2, <2>3, OrgKept
<1>5. RepoInv'
  <2>1. \A q \in Procs : RepoReq(asked'[q], repoRows)
    BY <1>3, IdleKnows
  <2> QED BY <1>1, <1>2, <1>3, <2>1, RepoKept
<1>6. HookInv'
  <2>1. /\ DOMAIN count' = DOMAIN count /\ count'.hooks = count.hooks
        /\ count'.crashes = count.crashes + 1 /\ count'.deliveries = count.deliveries
    BY <1>1, <1>2 DEF HookInv, Count
  <2>2. count'.crashes \in Nat /\ count'.crashes # 0
    BY <1>2, <2>1 DEF HookInv
  <2>3. (IdsGiven /\ DeliveriesAreAccounted)'
    BY <1>1, <1>2, <2>1, <2>2 DEF HookInv, IdsGiven, DeliveriesAreAccounted
  <2>4. \A q \in Procs : HookReq(asked'[q], hooks', count'.hooks)
    BY <1>3, IdleKnows
  <2> QED BY <1>1, <1>2, <1>3, <2>1, <2>2, <2>3, <2>4 DEF HookInv
<1> QED BY <1>4, <1>5, <1>6 DEF AccessInv

LEMMA KeyKeeps ==
    ASSUME AccessInv, NEW u \in Users, NEW k \in Keys, CreateSSHKey(u, k) \/ DeleteSSHKey(u, k)
    PROVE  AccessInv'
<1>1. UNCHANGED <<orgs, role, repoRows, hooks, deliveries, senders, handles, asked, count, cut>>
  BY DEF CreateSSHKey, DeleteSSHKey
<1>2. OrgInv /\ RepoInv /\ HookInv
  BY DEF AccessInv
<1>3. keys' \in [Keys -> Users \cup {NoUser}]
  BY <1>2 DEF OrgInv, CreateSSHKey, DeleteSSHKey
<1>4. OrgInv'
  BY <1>1, <1>2, <1>3, OrgKept DEF OrgInv
<1>5. RepoInv' /\ HookInv'
  BY <1>1, <1>2, RepoKept, HookKept DEF RepoInv, HookInv
<1> QED BY <1>4, <1>5 DEF AccessInv
-----------------------------------------------------------------------------
(* Repositories and the shard's handles. *)

(* A row of a repository changes, but not whose it is. *)
LEMMA RowWritten ==
    ASSUME RepoInv, NEW i \in DOMAIN repoRows, NEW w \in RepoRow, w.org = repoRows[i].org,
           repoRows' = [repoRows EXCEPT ![i] = w]
    PROVE  /\ repoRows' \in Seq(RepoRow) /\ DOMAIN repoRows' = DOMAIN repoRows
           /\ \A k \in DOMAIN repoRows : repoRows'[k].org = repoRows[k].org /\ repoRows'[k] = IF k = i THEN w ELSE repoRows[k]
<1>1. repoRows \in Seq(RepoRow) /\ i \in 1..Len(repoRows)
  BY DEF RepoInv
<1>2. DOMAIN repoRows' = DOMAIN repoRows /\ \A k \in DOMAIN repoRows : repoRows'[k] = IF k = i THEN w ELSE repoRows[k]
  OBVIOUS
<1>3. repoRows' \in Seq(RepoRow)
  BY <1>1
<1> QED BY <1>2, <1>3

(* What is known of requests and handles rests on rows and their orgs. *)
LEMMA RowsKept ==
    ASSUME RepoInv, repoRows' \in Seq(RepoRow), DOMAIN asked' = Procs, handles' = handles,
           \A k \in DOMAIN repoRows : k \in DOMAIN repoRows' /\ repoRows'[k].org = repoRows[k].org,
           \A q \in Procs : asked'[q] = asked[q] \/ RepoReq(asked'[q], repoRows')
    PROVE  RepoInv'
<1>1. ASSUME NEW q \in Procs PROVE RepoReq(asked'[q], repoRows')
  <2>1. CASE asked'[q] = asked[q]
    <3>1. RepoReq(asked[q], repoRows)
      BY DEF RepoInv
    <3> QED BY <2>1, <3>1 DEF RepoReq
  <2> QED BY <2>1
<1>2. \A o \in Slugs, n \in Names :
         handles[<<o, n>>] # NoId => handles[<<o, n>>] \in DOMAIN repoRows' /\ repoRows'[handles[<<o, n>>]].org = o
  BY DEF RepoInv
<1> QED BY <1>1, <1>2 DEF RepoInv

LEMMA CreateRepoKeeps ==
    ASSUME AccessInv, NEW p \in Procs, NEW n \in Names, NEW vis \in Visibilities, CreateRepo(p, n, vis)
    PROVE  AccessInv'
<1> DEFINE w == [org |-> asked[p].org, name |-> n, vis |-> vis, live |-> TRUE]
           r == [op |-> "get", org |-> asked[p].org, name |-> n]
<1>1. /\ asked[p].op = "member" /\ repoRows' = Append(repoRows, w) /\ OrgGoto(p, r)
      /\ UNCHANGED <<orgs, role, keys, hooks, deliveries, senders, handles, count, cut>>
  BY DEF CreateRepo, OrgAt
<1>2. OrgInv /\ RepoInv /\ HookInv /\ OrgReq(asked[p], orgs)
  BY DEF AccessInv, OrgInv
<1>3. asked[p].org \in Slugs
  BY <1>1, <1>2 DEF OrgReq
<1>4. w \in RepoRow
  BY <1>3 DEF RepoRow
<1>5. OrgReq(r, orgs) /\ HookReq(r, hooks, count.hooks) /\ \A rp : RepoReq(r, rp)
  BY <1>3 DEF OrgReq, RepoReq, HookReq
<1>6. repoRows \in Seq(RepoRow)
  BY <1>2 DEF RepoInv
<1> HIDE DEF w, r
<1>7. /\ repoRows' \in Seq(RepoRow)
      /\ \A k \in DOMAIN repoRows : k \in DOMAIN repoRows' /\ repoRows'[k] = repoRows[k]
  BY <1>1, <1>4, <1>6
<1>8. OrgInv' /\ HookInv' /\ DOMAIN asked' = Procs /\ asked'[p] = r /\ \A q \in Procs \ {p} : asked'[q] = asked[q]
  BY <1>1, <1>5, <1>7, OthersKept
<1>9. RepoInv'
  BY <1>1, <1>2, <1>5, <1>7, <1>8, RowsKept
<1> QED BY <1>8, <1>9 DEF AccessInv

LEMMA WithRepoKeeps ==
    ASSUME AccessInv, NEW p \in Procs, NEW n \in Names, WithRepo(p, n)
    PROVE  AccessInv'
<1>1. PICK i \in Row(asked[p].org, n) :
         OrgGoto(p, [op |-> "repo", user |-> asked[p].user, org |-> asked[p].org,
                  role |-> asked[p].role, id |-> i, row |-> repoRows[i]])
  BY DEF WithRepo
<1> DEFINE r == [op |-> "repo", user |-> asked[p].user, org |-> asked[p].org,
                 role |-> asked[p].role, id |-> i, row |-> repoRows[i]]
<1>2. /\ asked[p].op = "member" /\ OrgReq(asked[p], orgs)
      /\ UNCHANGED <<orgs, role, repoRows, keys, hooks, deliveries, senders, handles, count, cut>>
  BY DEF WithRepo, OrgAt, AccessInv, OrgInv
<1>3. asked[p].org \in Slugs /\ i \in DOMAIN repoRows /\ repoRows[i].org = asked[p].org
  BY <1>2 DEF OrgReq, Row
<1>4. OrgReq(r, orgs) /\ HookReq(r, hooks, count.hooks) /\ RepoReq(r, repoRows)
  BY <1>3 DEF OrgReq, RepoReq, HookReq
<1> HIDE DEF r
<1>5. OrgGoto(p, r)
  BY <1>1 DEF r
<1> QED BY <1>2, <1>4, <1>5, ReadKeeps

LEMMA UpdateRepoKeeps ==
    ASSUME AccessInv, NEW p \in Procs, NEW n \in Names, NEW vis \in Visibilities, UpdateRepo(p, n, vis)
    PROVE  AccessInv'
<1> DEFINE i == asked[p].id
           w == [repoRows[i] EXCEPT !.name = n, !.vis = vis]
<1>1. /\ asked[p].op = "repo" /\ OrgGoto(p, NoRequest)
      /\ repoRows' = [repoRows EXCEPT ![i].name = n, ![i].vis = vis]
      /\ UNCHANGED <<orgs, role, keys, hooks, deliveries, senders, handles, count, cut>>
  BY DEF UpdateRepo, OrgAt, OrgFinish
<1>2. OrgInv /\ RepoInv /\ HookInv /\ RepoReq(asked[p], repoRows)
  BY DEF AccessInv, RepoInv
<1>3. i \in DOMAIN repoRows /\ repoRows \in Seq(RepoRow)
  BY <1>1, <1>2 DEF RepoReq, RepoInv
<1>4. repoRows[i] \in RepoRow
  BY <1>3
<1>5. w \in RepoRow /\ w.org = repoRows[i].org /\ w.live = repoRows[i].live
  BY <1>4 DEF RepoRow
<1>6. repoRows' = [repoRows EXCEPT ![i] = w]
  BY <1>1, <1>3
<1> HIDE DEF w, i
<1>7. /\ repoRows' \in Seq(RepoRow) /\ DOMAIN repoRows' = DOMAIN repoRows
      /\ \A k \in DOMAIN repoRows : repoRows'[k].org = repoRows[k].org /\ repoRows'[k] = IF k = i THEN w ELSE repoRows[k]
  BY <1>2, <1>3, <1>5, <1>6, RowWritten
<1>8. \A k \in DOMAIN repoRows : k \in DOMAIN repoRows' /\ (repoRows[k].live => repoRows'[k].live)
  BY <1>5, <1>7
<1>9. OrgInv' /\ HookInv' /\ DOMAIN asked' = Procs /\ asked'[p] = NoRequest /\ \A q \in Procs \ {p} : asked'[q] = asked[q]
  BY <1>1, <1>8, IdleKnows, OthersKept
<1>10. RepoInv'
  BY <1>1, <1>2, <1>7, <1>9, IdleKnows, RowsKept
<1> QED BY <1>9, <1>10 DEF AccessInv

(* Handles are written for the org of a row, or taken away. *)
LEMMA HandlesWritten ==
    ASSUME RepoInv, repoRows' = repoRows, DOMAIN asked' = Procs, NEW x, NEW i,
           handles' = [handles EXCEPT ![x] = i],
           i = NoId \/ (i \in DOMAIN repoRows /\ \E o \in Slugs : \E n : x = <<o, n>> /\ repoRows[i].org = o),
           \A q \in Procs : RepoReq(asked'[q], repoRows)
    PROVE  RepoInv'
<1>1. DOMAIN handles' = Slugs \X Names
  BY DEF RepoInv
<1>2. ASSUME NEW o \in Slugs, NEW n \in Names, handles'[<<o, n>>] # NoId
      PROVE  handles'[<<o, n>>] \in DOMAIN repoRows /\ repoRows[handles'[<<o, n>>]].org = o
  <2>0. <<o, n>> \in DOMAIN handles
    BY DEF RepoInv
  <2>1. CASE <<o, n>> = x
    <3>1. handles'[<<o, n>>] = i
      BY <2>0, <2>1
    <3>2. i \in DOMAIN repoRows /\ repoRows[i].org = o
      BY <1>2, <2>1, <3>1
    <3> QED BY <3>1, <3>2
  <2>2. CASE <<o, n>> # x
    <3>1. handles'[<<o, n>>] = handles[<<o, n>>]
      BY <2>0, <2>2
    <3> QED BY <1>2, <3>1 DEF RepoInv
  <2> QED BY <2>1, <2>2
<1> QED BY <1>1, <1>2 DEF RepoInv

LEMMA DeleteRepoKeeps ==
    ASSUME AccessInv, NEW p \in Procs, DeleteRepo(p)
    PROVE  AccessInv'
<1> DEFINE r == [op |-> "delete_row", id |-> asked[p].id]
           x == <<asked[p].org, asked[p].row.name>>
<1>1. /\ asked[p].op = "repo" /\ OrgGoto(p, r)
      /\ handles' = [handles EXCEPT ![x] = NoId] \/ handles' = handles
      /\ UNCHANGED <<orgs, role, repoRows, keys, hooks, deliveries, senders, count, cut>>
  BY DEF DeleteRepo, OrgAt
<1>2. RepoInv /\ RepoReq(asked[p], repoRows)
  BY DEF AccessInv, RepoInv
<1>3. OrgReq(r, orgs) /\ HookReq(r, hooks, count.hooks) /\ RepoReq(r, repoRows)
  BY <1>1, <1>2 DEF OrgReq, RepoReq, HookReq
<1> HIDE DEF r, x
<1>4. OrgInv' /\ HookInv' /\ DOMAIN asked' = Procs /\ asked'[p] = r /\ \A q \in Procs \ {p} : asked'[q] = asked[q]
  BY <1>1, <1>3, OthersKept
<1>5. \A q \in Procs : RepoReq(asked'[q], repoRows)
  BY <1>2, <1>3, <1>4 DEF RepoInv
<1>6. RepoInv'
  <2>1. CASE handles' = handles
    BY <1>1, <1>2, <1>4, <1>5, <2>1, RepoKept
  <2>2. CASE handles' = [handles EXCEPT ![x] = NoId]
    BY <1>1, <1>2, <1>4, <1>5, <2>2, HandlesWritten
  <2> QED BY <1>1, <2>1, <2>2
<1> QED BY <1>4, <1>6 DEF AccessInv

LEMMA PushKeeps ==
    ASSUME AccessInv, NEW p \in Procs, NEW o \in Slugs, NEW n \in Names, Push(p, o, n)
    PROVE  AccessInv'
<1> DEFINE r == [op |-> "get", org |-> o, name |-> n]
<1>1. /\ OrgBegin(p, r)
      /\ UNCHANGED <<orgs, role, repoRows, keys, hooks, deliveries, senders, handles, cut>>
  BY DEF Push
<1>2. OrgReq(r, orgs) /\ RepoReq(r, repoRows) /\ HookReq(r, hooks, count.hooks)
  BY DEF OrgReq, RepoReq, HookReq
<1> HIDE DEF r
<1>3. /\ OrgGoto(p, r) /\ asked[p].op = "idle" /\ DOMAIN count' = DOMAIN count
      /\ count'.hooks = count.hooks /\ count'.crashes = count.crashes
      /\ count'.deliveries = count.deliveries
  BY <1>1, BeginFacts DEF AccessInv
<1> QED BY <1>1, <1>2, <1>3, ReadKeeps

LEMMA GetHandleKeeps ==
    ASSUME AccessInv, NEW p \in Procs, GetHandle(p)
    PROVE  AccessInv'
<1>1. PICK i \in RowForGet(asked[p].org, asked[p].name) :
         OrgGoto(p, [op |-> "got", org |-> asked[p].org, name |-> asked[p].name, id |-> i])
  BY DEF GetHandle
<1> DEFINE r == [op |-> "got", org |-> asked[p].org, name |-> asked[p].name, id |-> i]
<1>2. /\ asked[p].op = "get" /\ RepoReq(asked[p], repoRows)
      /\ UNCHANGED <<orgs, role, repoRows, keys, hooks, deliveries, senders, handles, count, cut>>
  BY DEF GetHandle, OrgAt, AccessInv, RepoInv
<1>3. /\ asked[p].org \in Slugs /\ asked[p].name \in Names
      /\ i \in DOMAIN repoRows /\ repoRows[i].org = asked[p].org
  BY <1>2 DEF RepoReq, RowForGet, Row
<1>4. OrgReq(r, orgs) /\ HookReq(r, hooks, count.hooks) /\ RepoReq(r, repoRows)
  BY <1>3 DEF OrgReq, RepoReq, HookReq
<1> HIDE DEF r
<1>5. OrgGoto(p, r)
  BY <1>1 DEF r
<1> QED BY <1>2, <1>4, <1>5, ReadKeeps

LEMMA GetCachedKeeps ==
    ASSUME AccessInv, NEW p \in Procs, GetCached(p)
    PROVE  AccessInv'
BY IdleKnows, ReadKeeps DEF GetCached, OrgAt, OrgFinish

LEMMA StoreHandleKeeps ==
    ASSUME AccessInv, NEW p \in Procs, StoreHandle(p)
    PROVE  AccessInv'
<1> DEFINE x == <<asked[p].org, asked[p].name>>
<1>1. /\ asked[p].op = "got" /\ OrgGoto(p, NoRequest)
      /\ handles' = [handles EXCEPT ![x] = asked[p].id]
      /\ UNCHANGED <<orgs, role, repoRows, keys, hooks, deliveries, senders, count, cut>>
  BY DEF StoreHandle, OrgAt, OrgFinish
<1>2. RepoInv /\ RepoReq(asked[p], repoRows)
  BY DEF AccessInv, RepoInv
<1>3. OrgInv' /\ HookInv' /\ DOMAIN asked' = Procs /\ asked'[p] = NoRequest /\ \A q \in Procs \ {p} : asked'[q] = asked[q]
  BY <1>1, IdleKnows, OthersKept
<1>4. \A q \in Procs : RepoReq(asked'[q], repoRows)
  BY <1>2, <1>3, IdleKnows DEF RepoInv
<1>5. asked[p].id \in DOMAIN repoRows /\ asked[p].org \in Slugs /\ repoRows[asked[p].id].org = asked[p].org
  BY <1>1, <1>2 DEF RepoReq
<1>6. \E o \in Slugs : \E n : x = <<o, n>> /\ repoRows[asked[p].id].org = o
  BY <1>5
<1> HIDE DEF x
<1>7. RepoInv'
  BY <1>1, <1>2, <1>3, <1>4, <1>5, <1>6, HandlesWritten
<1> QED BY <1>3, <1>7 DEF AccessInv
(* DeleteRepoRow takes the repository's webhooks and deliveries along. *)
LEMMA DeleteRepoRowKeeps ==
    ASSUME AccessInv, NEW p \in Procs, DeleteRepoRow(p)
    PROVE  AccessInv'
<1> DEFINE i == asked[p].id
           w == [repoRows[i] EXCEPT !.live = FALSE]
<1>1. /\ asked[p].op = "delete_row" /\ OrgGoto(p, NoRequest)
      /\ repoRows' = [repoRows EXCEPT ![i].live = FALSE]
      /\ hooks' = {h \in hooks : h.repo # i} /\ deliveries' = {d \in deliveries : d.repo # i}
      /\ UNCHANGED <<orgs, role, keys, senders, handles, count, cut>>
  BY DEF DeleteRepoRow, OrgAt, OrgFinish
<1>2. OrgInv /\ RepoInv /\ HookInv /\ RepoReq(asked[p], repoRows)
  BY DEF AccessInv, RepoInv
<1>3. i \in DOMAIN repoRows /\ repoRows \in Seq(RepoRow)
  BY <1>1, <1>2 DEF RepoReq, RepoInv
<1>4. repoRows[i] \in RepoRow
  BY <1>3
<1>5. w \in RepoRow /\ w.org = repoRows[i].org
  BY <1>4 DEF RepoRow
<1>6. repoRows' = [repoRows EXCEPT ![i] = w]
  BY <1>1, <1>3
<1> HIDE DEF w, i
<1>7. /\ repoRows' \in Seq(RepoRow) /\ DOMAIN repoRows' = DOMAIN repoRows
      /\ \A k \in DOMAIN repoRows : repoRows'[k].org = repoRows[k].org /\ repoRows'[k] = IF k = i THEN w ELSE repoRows[k]
  BY <1>2, <1>3, <1>5, <1>6, RowWritten
<1>8. OrgInv' /\ DOMAIN asked' = Procs /\ asked'[p] = NoRequest /\ \A q \in Procs \ {p} : asked'[q] = asked[q]
  BY <1>1, IdleKnows, OthersKept
<1>9. RepoInv'
  BY <1>1, <1>2, <1>7, <1>8, IdleKnows, RowsKept
<1>10. HookInv'
  <2>1. \A h \in hooks' : h \in hooks /\ h.repo # i
    BY <1>1
  <2>2. \A h \in hooks' : h.repo \in DOMAIN repoRows' /\ repoRows'[h.repo].live
    BY <1>2, <1>7, <2>1 DEF HookInv
  <2>3. ASSUME NEW d \in deliveries' PROVE \E h \in hooks' : h.id = d.hook /\ h.repo = d.repo
    <3>1. d \in deliveries /\ d.repo # i
      BY <1>1
    <3>2. PICK h \in hooks : h.id = d.hook /\ h.repo = d.repo
      BY <1>2, <3>1 DEF HookInv
    <3>3. h \in hooks'
      BY <1>1, <3>1, <3>2
    <3> QED BY <3>2, <3>3
  <2>5. \A q \in Procs : HookReq(asked'[q], hooks', count.hooks)
    <3>1. \A q \in Procs : HookReq(asked'[q], hooks, count.hooks)
      BY <1>2, <1>8, IdleKnows DEF HookInv
    <3> QED BY <2>1, <3>1 DEF HookReq
  <2>6. \A d \in deliveries' : d \in deliveries
    BY <1>1
  <2>7. (IdsGiven /\ DeliveriesAreAccounted)'
    BY <1>1, <1>2, <2>6 DEF HookInv, IdsGiven, DeliveriesAreAccounted
  <2> QED BY <1>1, <1>2, <1>8, <2>1, <2>2, <2>3, <2>5, <2>6, <2>7 DEF HookInv
<1> QED BY <1>8, <1>9, <1>10 DEF AccessInv

-----------------------------------------------------------------------------
(* Webhooks and deliveries. *)

LEMMA CreateWebhookKeeps ==
    ASSUME AccessInv, NEW p \in Procs, NEW url \in Urls, CreateWebhook(p, url)
    PROVE  AccessInv'
<1> DEFINE g == [id |-> count.hooks + 1, repo |-> asked[p].id, url |-> url, active |-> TRUE]
<1>1. /\ asked[p].op = "repo" /\ OrgGoto(p, NoRequest) /\ repoRows[asked[p].id].live
      /\ hooks' = hooks \cup {g} /\ Count("hooks")
      /\ UNCHANGED <<orgs, role, repoRows, keys, deliveries, senders, handles, cut>>
  BY DEF CreateWebhook, OrgAt, OrgFinish
<1>2. RepoInv /\ HookInv /\ RepoReq(asked[p], repoRows)
  BY DEF AccessInv, RepoInv
<1>3. asked[p].id \in DOMAIN repoRows
  BY <1>1, <1>2 DEF RepoReq
<1>4. /\ count.hooks \in Nat /\ count'.hooks = count.hooks + 1 /\ count'.crashes = count.crashes
      /\ count'.deliveries = count.deliveries
      /\ DOMAIN count' = DOMAIN count
  BY <1>1, <1>2 DEF HookInv, Count
<1>5. DOMAIN g = HookCols /\ g.id = count.hooks + 1 /\ g.repo = asked[p].id
  BY DEF HookCols
<1> HIDE DEF g
<1>6. OrgInv' /\ RepoInv' /\ DOMAIN asked' = Procs /\ asked'[p] = NoRequest /\ \A q \in Procs \ {p} : asked'[q] = asked[q]
  BY <1>1, IdleKnows, OthersKept
<1>7. HookInv'
  <2>1. \A h \in hooks : DOMAIN h = HookCols /\ h.id \in Nat /\ h.id <= count.hooks /\ h.id # 0
    BY <1>2 DEF HookInv
  <2>2. ASSUME NEW h \in hooks'
        PROVE  /\ DOMAIN h = HookCols /\ h.id \in 1..count'.hooks
               /\ h.repo \in DOMAIN repoRows /\ repoRows[h.repo].live
    <3>1. CASE h = g
      BY <1>1, <1>3, <1>4, <1>5, <3>1
    <3>2. CASE h \in hooks
      BY <1>2, <1>4, <2>1, <3>2 DEF HookInv
    <3> QED BY <1>1, <3>1, <3>2
  <2>3. ASSUME NEW h \in hooks', NEW k \in hooks', h.id = k.id PROVE h.repo = k.repo
    <3>1. \A m \in hooks : m.id # g.id
      BY <1>4, <1>5, <2>1
    <3> QED BY <1>1, <1>2, <2>3, <3>1 DEF HookInv
  <2>4. ASSUME NEW q \in Procs PROVE HookReq(asked'[q], hooks', count'.hooks)
    <3>1. HookReq(asked'[q], hooks, count.hooks)
      BY <1>2, <1>6, IdleKnows DEF HookInv
    <3>2. ASSUME asked'[q].op = "trigger", NEW h \in asked'[q].todo
          PROVE  h.id \in 1..count'.hooks /\ \A k \in hooks' : k.id = h.id => k.repo = h.repo
      <4>1. h.id \in 1..count.hooks /\ \A k \in hooks : k.id = h.id => k.repo = h.repo
        BY <3>1, <3>2 DEF HookReq
      <4>2. h.id \in 1..(count.hooks + 1) /\ h.id # count.hooks + 1
        BY <1>4, <4>1
      <4> QED BY <1>1, <1>4, <1>5, <4>1, <4>2
    <3>3. asked'[q].op = "trigger" => DOMAIN asked'[q] = {"op", "todo"}
      BY <3>1 DEF HookReq
    <3> QED BY <3>2, <3>3 DEF HookReq
  <2>5. \A d \in deliveries : DOMAIN d = DelivCols /\ \E h \in hooks' : h.id = d.hook /\ h.repo = d.repo
    BY <1>1, <1>2 DEF HookInv
  <2>6. (IdsGiven /\ DeliveriesAreAccounted)'
    BY <1>1, <1>2, <1>4 DEF HookInv, IdsGiven, DeliveriesAreAccounted
  <2>7. count'.hooks \in Nat /\ count'.crashes \in Nat /\ DOMAIN count' = {"requests", "hooks", "deliveries", "crashes"}
    BY <1>2, <1>4 DEF HookInv
  <2> QED BY <1>1, <1>6, <2>2, <2>3, <2>4, <2>5, <2>6, <2>7 DEF HookInv
<1> QED BY <1>6, <1>7 DEF AccessInv

LEMMA GetWebhookKeeps ==
    ASSUME AccessInv, NEW p \in Procs, NEW h \in hooks, GetWebhookByID(p, h)
    PROVE  AccessInv'
<1> DEFINE r == [op |-> "hook", hook |-> h]
<1>1. /\ asked[p].op = "repo" /\ OrgGoto(p, r)
      /\ UNCHANGED <<orgs, role, repoRows, keys, hooks, deliveries, senders, handles, count, cut>>
  BY DEF GetWebhookByID, OrgAt
<1>2. OrgReq(r, orgs) /\ RepoReq(r, repoRows) /\ HookReq(r, hooks, count.hooks)
  BY DEF OrgReq, RepoReq, HookReq
<1> HIDE DEF r
<1> QED BY <1>1, <1>2, ReadKeeps

(* Webhooks are written over or removed: those that are left have the ids    *)
(* and repositories they had, and deliveries of removed ones are removed.    *)
LEMMA HooksReplaced ==
    ASSUME AccessInv, NEW p \in Procs, OrgGoto(p, NoRequest), asked[p].op # "org_member",
           UNCHANGED <<orgs, role, repoRows, keys, handles, cut, count>>,
           \A h \in hooks' : DOMAIN h = HookCols /\ \E g \in hooks : g.id = h.id /\ g.repo = h.repo,
           deliveries' \subseteq deliveries, senders' = senders,
           \A d \in deliveries', g \in hooks : g.id = d.hook => \E h \in hooks' : h.id = g.id /\ h.repo = g.repo
    PROVE  AccessInv'
<1>1. OrgInv' /\ RepoInv' /\ DOMAIN asked' = Procs /\ asked'[p] = NoRequest /\ \A q \in Procs \ {p} : asked'[q] = asked[q]
  BY IdleKnows, OthersKept
<1>2. HookInv
  BY DEF AccessInv
<1>3. HookInv'
  <2>1. ASSUME NEW h \in hooks'
        PROVE  h.id \in 1..count.hooks /\ h.repo \in DOMAIN repoRows /\ repoRows[h.repo].live
    <3>1. PICK g \in hooks : g.id = h.id /\ g.repo = h.repo
      OBVIOUS
    <3> QED BY <1>2, <3>1 DEF HookInv
  <2>2. \A g, h \in hooks' : g.id = h.id => g.repo = h.repo
    BY <1>2 DEF HookInv
  <2>3. ASSUME NEW d \in deliveries'
        PROVE  DOMAIN d = DelivCols /\ \E h \in hooks' : h.id = d.hook /\ h.repo = d.repo
    <3>1. d \in deliveries
      OBVIOUS
    <3>2. PICK g \in hooks : g.id = d.hook /\ g.repo = d.repo
      BY <1>2, <3>1 DEF HookInv
    <3>3. PICK h \in hooks' : h.id = g.id /\ h.repo = g.repo
      BY <3>2
    <3> QED BY <1>2, <3>1, <3>2, <3>3 DEF HookInv
  <2>4. ASSUME NEW q \in Procs PROVE HookReq(asked'[q], hooks', count.hooks)
    <3>1. HookReq(asked'[q], hooks, count.hooks)
      BY <1>1, <1>2, IdleKnows DEF HookInv
    <3> QED BY <3>1 DEF HookReq
  <2>5. (IdsGiven /\ DeliveriesAreAccounted)'
    BY <1>2 DEF HookInv, IdsGiven, DeliveriesAreAccounted
  <2> QED BY <1>1, <1>2, <2>1, <2>2, <2>3, <2>4, <2>5 DEF HookInv
<1> QED BY <1>1, <1>3 DEF AccessInv

LEMMA UpdateWebhookKeeps ==
    ASSUME AccessInv, NEW p \in Procs, NEW url \in Urls, NEW active \in BOOLEAN, UpdateWebhook(p, url, active)
    PROVE  AccessInv'
<1> DEFINE i == asked[p].hook.id
           f(h) == IF h.id = i THEN [h EXCEPT !.url = url, !.active = active] ELSE h
<1>1. /\ asked[p].op = "hook" /\ OrgGoto(p, NoRequest) /\ hooks' = {f(h) : h \in hooks}
      /\ UNCHANGED <<orgs, role, repoRows, keys, deliveries, senders, handles, count, cut>>
  BY DEF UpdateWebhook, OrgAt, OrgFinish
<1>2. \A h \in hooks : DOMAIN h = HookCols
  BY DEF AccessInv, HookInv
<1>3. \A h \in hooks : DOMAIN f(h) = HookCols /\ f(h).id = h.id /\ f(h).repo = h.repo
  BY <1>2 DEF HookCols
<1> HIDE DEF f, i
<1>4. \A h \in hooks' : DOMAIN h = HookCols /\ \E g \in hooks : g.id = h.id /\ g.repo = h.repo
  <2> SUFFICES ASSUME NEW h \in hooks'
               PROVE  DOMAIN h = HookCols /\ \E g \in hooks : g.id = h.id /\ g.repo = h.repo
    OBVIOUS
  <2>1. PICK g \in hooks : h = f(g)
    BY <1>1
  <2> QED BY <1>3, <2>1
<1>5. \A g \in hooks : \E h \in hooks' : h.id = g.id /\ h.repo = g.repo
  <2> SUFFICES ASSUME NEW g \in hooks PROVE \E h \in hooks' : h.id = g.id /\ h.repo = g.repo
    OBVIOUS
  <2>1. f(g) \in hooks'
    BY <1>1
  <2> QED BY <1>3, <2>1
<1> QED BY <1>1, <1>4, <1>5, HooksReplaced

LEMMA DeleteWebhookKeeps ==
    ASSUME AccessInv, NEW p \in Procs, DeleteWebhook(p)
    PROVE  AccessInv'
<1>1. /\ asked[p].op = "hook" /\ OrgGoto(p, NoRequest)
      /\ hooks' = {h \in hooks : h.id # asked[p].hook.id}
      /\ deliveries' = {d \in deliveries : d.hook # asked[p].hook.id}
      /\ UNCHANGED <<orgs, role, repoRows, keys, senders, handles, count, cut>>
  BY DEF DeleteWebhook, OrgAt, OrgFinish
<1>2. \A h \in hooks' : DOMAIN h = HookCols /\ \E g \in hooks : g.id = h.id /\ g.repo = h.repo
  BY <1>1 DEF AccessInv, HookInv
<1>3. \A d \in deliveries', g \in hooks : g.id = d.hook => \E h \in hooks' : h.id = g.id /\ h.repo = g.repo
  BY <1>1
<1> QED BY <1>1, <1>2, <1>3, HooksReplaced

LEMMA TriggerKeeps ==
    ASSUME AccessInv, NEW p \in Procs, NEW o \in Slugs, NEW n \in Names, TriggerWebhooks(p, o, n)
    PROVE  AccessInv'
<1>1. PICK i \in Row(o, n) : OrgBegin(p, [op |-> "trigger", todo |-> ListActiveWebhooksForEvent(i)])
  BY DEF TriggerWebhooks
<1> DEFINE r == [op |-> "trigger", todo |-> ListActiveWebhooksForEvent(i)]
<1>2. UNCHANGED <<orgs, role, repoRows, keys, hooks, deliveries, senders, handles, cut>>
  BY DEF TriggerWebhooks
<1>3. r.op = "trigger" /\ DOMAIN r = {"op", "todo"} /\ \A h \in r.todo : h \in hooks
  BY DEF ListActiveWebhooksForEvent
<1>4. OrgReq(r, orgs) /\ RepoReq(r, repoRows)
  BY DEF OrgReq, RepoReq
<1>5. OrgBegin(p, r)
  BY <1>1
<1> HIDE DEF r
<1>6. HookReq(r, hooks, count.hooks)
  BY <1>3 DEF HookReq, AccessInv, HookInv
<1>7. /\ OrgGoto(p, r) /\ asked[p].op = "idle" /\ DOMAIN count' = DOMAIN count
      /\ count'.hooks = count.hooks /\ count'.crashes = count.crashes
      /\ count'.deliveries = count.deliveries
  BY <1>5, BeginFacts DEF AccessInv
<1> QED BY <1>2, <1>4, <1>6, <1>7, ReadKeeps

(* A delivery is stored with the goroutine that will send it. *)
LEMMA CreateDeliveryKeeps ==
    ASSUME AccessInv, NEW p \in Procs, CreateWebhookDelivery(p)
    PROVE  AccessInv'
<1>1. PICK h \in asked[p].todo :
         /\ OrgGoto(p, IF asked[p].todo = {h} THEN NoRequest ELSE [asked[p] EXCEPT !.todo = @ \ {h}])
         /\ IF \E g \in hooks : g.id = h.id
            THEN /\ count.deliveries < MaxDeliveries
                 /\ Count("deliveries")
                 /\ LET id == count.deliveries + 1 IN
                      /\ deliveries' = deliveries \cup
                           {[id |-> id, hook |-> h.id, repo |-> h.repo, status |-> "pending",
                             lost |-> FALSE]}
                      /\ senders' = senders \cup {id}
            ELSE UNCHANGED <<deliveries, senders, count>>
  BY DEF CreateWebhookDelivery
<1> DEFINE r == IF asked[p].todo = {h} THEN NoRequest ELSE [asked[p] EXCEPT !.todo = @ \ {h}]
           d == [id |-> count.deliveries + 1, hook |-> h.id, repo |-> h.repo, status |-> "pending",
                lost |-> FALSE]
<1>2. asked[p].op = "trigger" /\ UNCHANGED <<orgs, role, repoRows, keys, hooks, handles, cut>> /\ OrgGoto(p, r)
  BY <1>1 DEF CreateWebhookDelivery, OrgAt
<1>3. HookInv /\ HookReq(asked[p], hooks, count.hooks)
  BY DEF AccessInv, HookInv
<1>4. \A g \in hooks : g.id = h.id => g.repo = h.repo
  BY <1>2, <1>3 DEF HookReq
<1>5. r = NoRequest \/ (r = [asked[p] EXCEPT !.todo = @ \ {h}])
  OBVIOUS
<1>6. OrgReq(r, orgs) /\ RepoReq(r, repoRows) /\ HookReq(r, hooks, count.hooks)
  <2>1. CASE r = NoRequest
    BY <2>1, IdleKnows
  <2>2. CASE r = [asked[p] EXCEPT !.todo = @ \ {h}]
    <3>0. DOMAIN asked[p] = {"op", "todo"}
      BY <1>2, <1>3 DEF HookReq
    <3>1. r.op = "trigger" /\ DOMAIN r = {"op", "todo"}
      BY <1>2, <2>2, <3>0
    <3>2. \A g \in r.todo : g \in asked[p].todo
      BY <2>2, <3>0
    <3> QED BY <1>2, <1>3, <3>1, <3>2 DEF OrgReq, RepoReq, HookReq
  <2> QED BY <1>5, <2>1, <2>2
<1>7. DOMAIN d = DelivCols /\ d.hook = h.id /\ d.repo = h.repo /\ d.id = count.deliveries + 1
      /\ d.status = "pending" /\ d.lost = FALSE
  BY DEF DelivCols
<1> HIDE DEF r
<1>8. CASE \E g \in hooks : g.id = h.id
  <2>1. Count("deliveries") /\ deliveries' = deliveries \cup {d} /\ senders' = senders \cup {count.deliveries + 1}
    BY <1>1, <1>8
  <2>2. /\ DOMAIN count' = DOMAIN count
        /\ count'.hooks = count.hooks /\ count'.crashes = count.crashes
        /\ count'.deliveries = count.deliveries + 1
    BY <1>3, <2>1, CountFacts
  <2> HIDE DEF d
  <2>3. OrgInv' /\ RepoInv' /\ DOMAIN asked' = Procs /\ asked'[p] = r /\ \A q \in Procs \ {p} : asked'[q] = asked[q]
    BY <1>2, <1>6, OthersKept
  <2>4. HookInv'
    <3>1. \A e \in deliveries' : DOMAIN e = DelivCols /\ \E g \in hooks : g.id = e.hook /\ g.repo = e.repo
      BY <1>3, <1>4, <1>7, <1>8, <2>1 DEF HookInv
    <3>2. \A q \in Procs : HookReq(asked'[q], hooks, count.hooks)
      BY <1>3, <1>6, <2>3 DEF HookInv
    <3>3. IdsGiven'
      <4>1. count.deliveries \in Nat /\ senders \subseteq 1..count.deliveries
            /\ \A x \in deliveries : x.id \in 1..count.deliveries
        BY <1>3 DEF HookInv, IdsGiven
      <4>2. count'.deliveries \in Nat /\ count.deliveries + 1 \in 1..count'.deliveries
            /\ 1..count.deliveries \subseteq 1..count'.deliveries
        BY <4>1, <2>2
      <4>3. senders' \subseteq 1..count'.deliveries  BY <4>1, <4>2, <2>1
      <4>4. \A x \in deliveries' : x.id \in 1..count'.deliveries  BY <4>1, <4>2, <2>1, <1>7
      <4> QED BY <4>2, <4>3, <4>4 DEF IdsGiven
    <3>4. DeliveriesAreAccounted'
      <4>1. ASSUME NEW x \in deliveries
            PROVE  x.id # count.deliveries + 1
        BY <1>3 DEF HookInv, IdsGiven
      <4>2. d.id \in senders' /\ d.status = "pending" /\ ~d.lost  BY <1>7, <2>1
      <4>3. \A x \in deliveries : x.id \in senders' <=> x.id \in senders  BY <2>1, <4>1
      <4> QED BY <2>1, <2>2, <4>2, <4>3, <1>3 DEF HookInv, DeliveriesAreAccounted
    <3> QED BY <1>2, <1>3, <2>2, <2>3, <3>1, <3>2, <3>3, <3>4 DEF HookInv
  <2> QED BY <2>3, <2>4 DEF AccessInv
<1>9. CASE ~\E g \in hooks : g.id = h.id
  <2>1. UNCHANGED <<deliveries, senders, count>>
    BY <1>1, <1>9
  <2> QED BY <1>2, <1>6, <2>1, ReadKeeps
<1> QED BY <1>8, <1>9

(* A goroutine ends: it has recorded the outcome of its delivery, or lost it. *)
LEMMA DeliveryEnds ==
    ASSUME AccessInv, NEW i, senders' = senders \ {i},
           UNCHANGED <<orgs, role, repoRows, keys, hooks, handles, asked, count, cut>>,
           \A e \in deliveries' : \E d \in deliveries :
               /\ DOMAIN e = DOMAIN d /\ e.id = d.id /\ e.hook = d.hook /\ e.repo = d.repo
               /\ IF d.id = i THEN e.status # "pending" \/ e.lost ELSE e = d
    PROVE  AccessInv'
<1>1. OrgInv /\ RepoInv /\ HookInv
  BY DEF AccessInv
<1>2. HookInv'
  <2>1. ASSUME NEW e \in deliveries'
        PROVE  /\ DOMAIN e = DelivCols /\ \E h \in hooks : h.id = e.hook /\ h.repo = e.repo
               /\ e.id \in 1..count.deliveries
               /\ count.crashes = 0 /\ e.status = "pending" => e.id \in senders' \/ e.lost
               /\ e.id \in senders' => e.status = "pending" /\ ~e.lost
    <3>1. PICK d \in deliveries :
            /\ DOMAIN e = DOMAIN d /\ e.id = d.id /\ e.hook = d.hook /\ e.repo = d.repo
            /\ IF d.id = i THEN e.status # "pending" \/ e.lost ELSE e = d
      OBVIOUS
    <3>2. /\ DOMAIN d = DelivCols /\ \E h \in hooks : h.id = d.hook /\ h.repo = d.repo
          /\ d.id \in 1..count.deliveries
      BY <1>1 DEF HookInv, IdsGiven
    <3>3. CASE d.id = i
      BY <3>1, <3>2, <3>3
    <3>4. CASE d.id # i
      BY <1>1, <3>1, <3>2, <3>4 DEF HookInv, DeliveriesAreAccounted
    <3> QED BY <3>3, <3>4
  <2>2. (IdsGiven /\ DeliveriesAreAccounted)'
    BY <1>1, <2>1 DEF HookInv, IdsGiven, DeliveriesAreAccounted
  <2> QED BY <1>1, <2>1, <2>2 DEF HookInv
<1>3. OrgInv' /\ RepoInv'
  BY <1>1, OrgKept, RepoKept DEF OrgInv, RepoInv
<1> QED BY <1>2, <1>3 DEF AccessInv

LEMMA DeliverKeeps ==
    ASSUME AccessInv, NEW i \in senders, deliverWebhook(i)
    PROVE  AccessInv'
<1>1. /\ senders' = senders \ {i}
      /\ UNCHANGED <<orgs, role, repoRows, keys, hooks, handles, asked, count, cut>>
  BY DEF deliverWebhook
<1>2. \A d \in deliveries : DOMAIN d = DelivCols
  BY DEF AccessInv, HookInv
<1>3. \A e \in deliveries' : \E d \in deliveries :
         /\ DOMAIN e = DOMAIN d /\ e.id = d.id /\ e.hook = d.hook /\ e.repo = d.repo
         /\ IF d.id = i THEN e.status # "pending" \/ e.lost ELSE e = d
  <2>1. ASSUME NEW status \in {"success", "failed"}, NEW e \in deliveries',
               deliveries' = {IF d.id = i THEN [d EXCEPT !.status = status] ELSE d : d \in deliveries}
        PROVE  \E d \in deliveries :
                 /\ DOMAIN e = DOMAIN d /\ e.id = d.id /\ e.hook = d.hook /\ e.repo = d.repo
                 /\ IF d.id = i THEN e.status # "pending" \/ e.lost ELSE e = d
    <3>1. PICK d \in deliveries : e = IF d.id = i THEN [d EXCEPT !.status = status] ELSE d
      BY <2>1
    <3> QED BY <1>2, <3>1 DEF DelivCols
  <2>2. ASSUME NEW e \in deliveries',
               deliveries' = {IF d.id = i THEN [d EXCEPT !.lost = TRUE] ELSE d : d \in deliveries}
        PROVE  \E d \in deliveries :
                 /\ DOMAIN e = DOMAIN d /\ e.id = d.id /\ e.hook = d.hook /\ e.repo = d.repo
                 /\ IF d.id = i THEN e.status # "pending" \/ e.lost ELSE e = d
    <3>1. PICK d \in deliveries : e = IF d.id = i THEN [d EXCEPT !.lost = TRUE] ELSE d
      BY <2>2
    <3> QED BY <1>2, <3>1 DEF DelivCols
  <2> QED BY <2>1, <2>2 DEF deliverWebhook
<1> QED BY <1>1, <1>3, DeliveryEnds

-----------------------------------------------------------------------------
(* The invariant, and the properties it implies. *)

LEMMA InitAccess == OrgsInit => AccessInv
<1> SUFFICES ASSUME OrgsInit PROVE AccessInv
  OBVIOUS
<1>1. /\ orgs = [o \in Slugs |-> NoUser]
      /\ role = [o \in Slugs |-> [u \in Users |-> "none"]]
      /\ repoRows = <<>> /\ keys = [k \in Keys |-> NoUser] /\ hooks = {} /\ deliveries = {}
      /\ handles = [x \in Slugs \X Names |-> NoId] /\ senders = {}
      /\ asked = [p \in Procs |-> NoRequest]
      /\ count = [requests |-> 0, hooks |-> 0, deliveries |-> 0, crashes |-> 0]
  BY DEF OrgsInit
<1>2. DOMAIN asked = Procs /\ \A p \in Procs : asked[p] = NoRequest
  BY <1>1
<1>3. OrgInv
  <2>1. OwnerStaysMember
    BY <1>1 DEF OwnerStaysMember
  <2> QED BY <1>1, <1>2, <2>1, IdleKnows DEF OrgInv
<1>4. RepoInv
  <2>1. \A o \in Slugs, n \in Names : handles[<<o, n>>] = NoId
    BY <1>1
  <2>2. repoRows \in Seq(RepoRow) /\ DOMAIN handles = Slugs \X Names
    BY <1>1
  <2>3. \A p \in Procs : RepoReq(asked[p], repoRows)
    BY <1>2, IdleKnows
  <2> QED BY <1>2, <2>1, <2>2, <2>3 DEF RepoInv
<1>5. HookInv
  BY <1>1, <1>2, IdleKnows DEF HookInv, IdsGiven, DeliveriesAreAccounted
<1> QED BY <1>3, <1>4, <1>5 DEF AccessInv

LEMMA NextAccess ==
    ASSUME OrgsAssumption, AccessInv, [OrgsNext]_orgVars
    PROVE  AccessInv'
<1>1. ASSUME NEW p \in Procs, OrgStep(p) PROVE AccessInv'
  BY <1>1, CreateOrgKeeps, RequireMembershipKeeps, CreateOrgMemberKeeps, AddMemberKeeps, AddMemberRowKeeps,
     RemoveMemberKeeps
     DEF OrgStep
<1>2. ASSUME NEW p \in Procs, RepoStep(p) PROVE AccessInv'
  <2>1. CASE \E n \in Names, vis \in Visibilities : CreateRepo(p, n, vis) \/ UpdateRepo(p, n, vis)
    BY <2>1, CreateRepoKeeps, UpdateRepoKeeps
  <2>2. CASE \E n \in Names : WithRepo(p, n)
    BY <2>2, WithRepoKeeps
  <2>3. CASE DeleteRepo(p) \/ DeleteRepoRow(p)
    BY <2>3, DeleteRepoKeeps, DeleteRepoRowKeeps
  <2>4. CASE \E o \in Slugs, n \in Names : Push(p, o, n)
    BY <2>4, PushKeeps
  <2>5. CASE GetHandle(p) \/ GetCached(p) \/ StoreHandle(p)
    BY <2>5, GetHandleKeeps, GetCachedKeeps, StoreHandleKeeps
  <2> QED BY <1>2, <2>1, <2>2, <2>3, <2>4, <2>5 DEF RepoStep
<1>3. ASSUME NEW p \in Procs, HookStep(p) PROVE AccessInv'
  BY <1>3, CreateWebhookKeeps, GetWebhookKeeps, UpdateWebhookKeeps, DeleteWebhookKeeps, TriggerKeeps,
     CreateDeliveryKeeps DEF HookStep
<1>4. ASSUME NEW p \in Procs, OrgAbort(p) PROVE AccessInv'
  BY <1>4, AbortKeeps
<1>5. CASE \E u \in Users, k \in Keys : CreateSSHKey(u, k) \/ DeleteSSHKey(u, k)
  BY <1>5, KeyKeeps
<1>6. CASE \E i \in senders : deliverWebhook(i)
  BY <1>6, DeliverKeeps
<1>7. CASE Crash
  BY <1>7, CrashKeeps
<1>8. CASE UNCHANGED orgVars
  <2>1. OrgInv /\ RepoInv /\ HookInv
    BY DEF AccessInv
  <2>2. OrgInv'
    BY <1>8, <2>1, OrgKept DEF OrgInv, orgVars
  <2>3. RepoInv' /\ HookInv'
    BY <1>8, <2>1, RepoKept, HookKept DEF RepoInv, HookInv, orgVars
  <2> QED BY <2>2, <2>3 DEF AccessInv
<1> QED BY <1>1, <1>2, <1>3, <1>4, <1>5, <1>6, <1>7, <1>8 DEF OrgsNext

LEMMA AccessKnown == ASSUME OrgsAssumption PROVE OrgsSpec => []AccessInv
<1>1. AccessInv /\ [OrgsNext]_orgVars => AccessInv'
  BY NextAccess
<1> QED BY <1>1, InitAccess, PTL DEF OrgsSpec

(* The roles that may write are the same on both ways in. *)
LEMMA WriteRoles ==
    ASSUME NEW r \in Roles
    PROVE  /\ HasAtLeastRole(r, "developer") <=> r \in {"developer", "maintainer", "admin", "owner"}
           /\ roleToPermission(r) \in {"write", "admin"} <=> r \in {"developer", "maintainer", "admin", "owner"}
<1>1. \A i \in 1..6 : i = 1 \/ i = 2 \/ i = 3 \/ i = 4 \/ i = 5 \/ i = 6
  OBVIOUS
<1>2. /\ RoleHierarchy[1] = "guest" /\ RoleHierarchy[2] = "reporter" /\ RoleHierarchy[3] = "developer"
      /\ RoleHierarchy[4] = "maintainer" /\ RoleHierarchy[5] = "admin" /\ RoleHierarchy[6] = "owner"
  BY DEF RoleHierarchy
<1>3. HasAtLeastRole(r, "developer") <=> r \in {"developer", "maintainer", "admin", "owner"}
  <2>1. ASSUME NEW i \in 1..6, NEW j \in 1..6, RoleHierarchy[i] = r, RoleHierarchy[j] = "developer", i >= j
        PROVE  r \in {"developer", "maintainer", "admin", "owner"}
    <3>1. j = 3
      BY <1>1, <1>2, <2>1
    <3>2. i = 3 \/ i = 4 \/ i = 5 \/ i = 6
      BY <2>1, <3>1
    <3> QED BY <1>2, <2>1, <3>2
  <2>2. ASSUME r \in {"developer", "maintainer", "admin", "owner"} PROVE HasAtLeastRole(r, "developer")
    <3>1. PICK i \in 3..6 : RoleHierarchy[i] = r
      BY <1>2, <2>2
    <3>2. i \in 1..6 /\ 3 \in 1..6 /\ i >= 3
      OBVIOUS
    <3> QED BY <1>2, <3>1, <3>2 DEF HasAtLeastRole
  <2> QED BY <2>1, <2>2 DEF HasAtLeastRole
<1>4. roleToPermission(r) \in {"write", "admin"} <=> r \in {"developer", "maintainer", "admin", "owner"}
  BY RoleSet DEF roleToPermission
<1> QED BY <1>3, <1>4

(* Access is consistent, for any number of requests, organisations, users    *)
(* and repositories: rows refer to rows that exist, an org's owner stays a   *)
(* member, a key writes where its user's token writes, and a shard's handle  *)
(* leads to a repository of the org it is named for (ssh_keys.go, proxy.go,  *)
(* pg_registry.go).                                                          *)
THEOREM AccessHolds == ASSUME OrgsAssumption PROVE OrgsSpec => []AccessIsConsistent
<1>1. AccessInv => AccessIsConsistent
  <2> SUFFICES ASSUME AccessInv PROVE AccessIsConsistent
    OBVIOUS
  <2>1. OrgInv /\ RepoInv /\ HookInv
    BY DEF AccessInv
  <2>2. OrgsTypeOK
    <3>1. \A i \in DOMAIN repoRows : repoRows[i] \in RepoRow
      BY <2>1 DEF RepoInv
    <3> QED BY <2>1, <3>1 DEF OrgInv, HookInv, OrgsTypeOK, RepoRow
  <2>3. TransportsAgreeOnWrites
    <3>1. ASSUME NEW k \in Keys, NEW o \in Slugs, NEW n \in Names, NEW broken \in BOOLEAN, keys[k] # NoUser
          PROVE  /\ broken => VerifySSHKey(k, o, n, broken) = "denied"
                 /\ ~broken => (VerifySSHKey(k, o, n, broken) \in {"write", "admin"}
                                  <=> ProxyHandler(keys[k], o, n, FALSE, broken))
      <4> DEFINE r == role[o][keys[k]]
      <4>1. keys[k] \in Users /\ r \in Roles \cup {"none"}
        BY <2>1, <3>1 DEF OrgInv
      <4>2. orgs[o] = NoUser => r = "none"
        BY <2>1, <4>1 DEF OrgInv
      <4>3. CASE ~broken /\ (r = "none" \/ Row(o, n) = {})
        <5>1. VerifySSHKey(k, o, n, broken) \in {"read", "denied"}
          BY <3>1, <4>3 DEF VerifySSHKey, GetMembership
        <5>2. ~ProxyHandler(keys[k], o, n, FALSE, broken)
          BY <3>1, <4>3 DEF ProxyHandler, GetMembership
        <5> QED BY <4>3, <5>1, <5>2
      <4>4. CASE ~broken /\ r # "none" /\ Row(o, n) # {}
        <5>1. VerifySSHKey(k, o, n, broken) = roleToPermission(r)
          BY <3>1, <4>2, <4>4 DEF VerifySSHKey, GetMembership
        <5>2. ProxyHandler(keys[k], o, n, FALSE, broken) <=> HasAtLeastRole(r, "developer")
          BY <3>1, <4>4 DEF ProxyHandler, GetMembership
        <5>3. r \in Roles
          BY <4>1, <4>4
        <5> QED BY <4>4, <5>1, <5>2, <5>3, WriteRoles
      <4>5. CASE broken
        BY <4>5 DEF VerifySSHKey
      <4> QED BY <4>3, <4>4, <4>5
    <3> QED BY <3>1 DEF TransportsAgreeOnWrites
  <2>4. HandlesStayInTheirOrg
    BY <2>1 DEF RepoInv, HandlesStayInTheirOrg
  <2> QED BY <2>1, <2>2, <2>3, <2>4 DEF OrgInv, AccessIsConsistent
<1> QED BY <1>1, AccessKnown, PTL

(* A delivery that is pending has its goroutine, also when webhooks and      *)
(* repositories go away meanwhile, unless the control plane was stopped or   *)
(* the UPDATE of its outcome failed; none is sent twice (webhooks.go).       *)
THEOREM DeliveriesHold == ASSUME OrgsAssumption PROVE OrgsSpec => []DeliveriesAreAccounted
<1>1. AccessInv => DeliveriesAreAccounted
  BY DEF AccessInv, HookInv
<1> QED BY <1>1, AccessKnown, PTL

-----------------------------------------------------------------------------
(* Accounts. *)


UserRow     == [email : Emails, ci : BOOLEAN, asked : BOOLEAN]
SignupRow   == [email : Emails, status : Statuses]
LinkRow     == [email : Emails, used : BOOLEAN, expired : BOOLEAN, gone : BOOLEAN]
SessionCols == {"id", "user", "link", "expired"}
ExOps       == {"ex_use", "ex_find", "ex_create", "ex_session"}

(* The rows: their addresses have been approved. *)
RowInv ==
    /\ users \in Seq(UserRow) /\ signups \in Seq(SignupRow) /\ links \in Seq(LinkRow)
    /\ \A u \in DOMAIN users : Fold(users[u].email) \in admitted
    /\ \A l \in DOMAIN links : Fold(links[l].email) \in admitted
    /\ \A s \in DOMAIN signups : signups[s].status = "approved" => Fold(signups[s].email) \in admitted

(* What refers to users and links refers to some that exist. *)
RefInv ==
    /\ \A s \in sessions : DOMAIN s = SessionCols /\ s.user \in DOMAIN users /\ s.link \in DOMAIN links
    /\ \A t \in tokens : t.user \in DOMAIN users
    /\ jwts \subseteq DOMAIN users
    /\ \A s \in opened : s.link \in DOMAIN links

(* What a request r has at hand. *)
ReqKnown(r, us, ls, adm) ==
    /\ r.op \in {"send_signup", "send_store", "ex_use", "ex_find", "ex_create", "am_create"}
         => r.email \in Emails
    /\ r.op \in {"send_store", "ex_use", "ex_find", "ex_create", "am_create"}
         => Fold(r.email) \in adm
    /\ r.op \in {"ex_use", "ex_find"} => DOMAIN r = {"op", "link", "email"}
    /\ r.op \in ExOps => r.link \in DOMAIN ls
    /\ r.op \in {"ex_find", "ex_create", "ex_session"} => ls[r.link].used
    /\ r.op \in {"ex_session", "rf_drop", "rf_issue", "auth"} => r.user \in DOMAIN us
ReqInv == DOMAIN call = Callers /\ \A p \in Callers : ReqKnown(call[p], users, links, admitted)

(* The sessions that link l has opened, and the requests that may still open *)
(* one: until the link is used there are only the latter, and once it is     *)
(* there are no new ones.                                                    *)
Opened(os, l)  == {s \in os : s.link = l}
Opening(rq, l) == {p \in Callers : rq[p].op \in ExOps /\ rq[p].link = l}
LinkKnown(l, ls, os, rq) ==
    /\ ~ls[l].used => Opened(os, l) = {}
    /\ Cardinality(Opened(os, l)) + Cardinality(Opening(rq, l)) <= Cardinality(Callers)
LinkInv ==
    /\ IsFiniteSet(opened)
    /\ \A l \in DOMAIN links : LinkKnown(l, links, opened, call)

AccountInv == RowInv /\ RefInv /\ ReqInv /\ LinkInv
-----------------------------------------------------------------------------
(* What a request knows, when the rows grow. *)

Grows(us, us2, ls, ls2, adm, adm2) ==
    /\ DOMAIN us \subseteq DOMAIN us2
    /\ DOMAIN ls \subseteq DOMAIN ls2
    /\ adm \subseteq adm2
    /\ \A l \in DOMAIN ls : ls[l].used => ls2[l].used

LEMMA GrowsRefl == ASSUME NEW us, NEW ls, NEW adm PROVE Grows(us, us, ls, ls, adm, adm)
BY DEF Grows

LEMMA ReqKept ==
  ASSUME NEW r, NEW us, NEW us2, NEW ls, NEW ls2, NEW adm, NEW adm2,
         Grows(us, us2, ls, ls2, adm, adm2), ReqKnown(r, us, ls, adm)
  PROVE  ReqKnown(r, us2, ls2, adm2)
<1>1. r.op \in {"ex_find", "ex_create", "ex_session"} => r.link \in DOMAIN ls /\ ls[r.link].used
  BY DEF ReqKnown, ExOps
<1>2. r.op \in {"ex_find", "ex_create", "ex_session"} => ls2[r.link].used
  BY <1>1 DEF Grows
<1>. QED  BY <1>2 DEF ReqKnown, Grows

LEMMA IdleKnown == ASSUME NEW us, NEW ls, NEW adm PROVE ReqKnown(NoCall, us, ls, adm)
<1>1. NoCall.op = "idle"  BY DEF NoCall
<1>. QED  BY <1>1 DEF ReqKnown, ExOps

LEMMA CallGotoFacts ==
  ASSUME ReqInv, NEW p \in Callers, NEW r, CallGoto(p, r)
  PROVE  /\ DOMAIN call' = Callers
         /\ call'[p] = r
         /\ \A q \in Callers \ {p} : call'[q] = call[q]
BY DEF ReqInv, CallGoto

LEMMA ReqStep ==
  ASSUME ReqInv, NEW p \in Callers, NEW r, CallGoto(p, r),
         Grows(users, users', links, links', admitted, admitted'),
         ReqKnown(r, users', links', admitted')
  PROVE  ReqInv'
<1>1. DOMAIN call' = Callers /\ call'[p] = r /\ \A q \in Callers \ {p} : call'[q] = call[q]
  BY CallGotoFacts
<1>2. ASSUME NEW q \in Callers PROVE ReqKnown(call'[q], users', links', admitted')
  <2>1. CASE q = p  BY <2>1, <1>1
  <2>2. CASE q # p
    <3>1. call'[q] = call[q]  BY <1>1, <2>2
    <3>2. ReqKnown(call[q], users, links, admitted)  BY DEF ReqInv
    <3>3. ReqKnown(call[q], users', links', admitted')  BY <3>2, ReqKept
    <3>. QED  BY <3>1, <3>3
  <2>. QED  BY <2>1, <2>2
<1>. QED  BY <1>1, <1>2 DEF ReqInv

LEMMA ReqRest ==
  ASSUME ReqInv, call' = call, Grows(users, users', links, links', admitted, admitted')
  PROVE  ReqInv'
<1>1. ASSUME NEW q \in Callers PROVE ReqKnown(call[q], users', links', admitted')
  <2>1. ReqKnown(call[q], users, links, admitted)  BY DEF ReqInv
  <2>. QED  BY <2>1, ReqKept
<1>. QED  BY <1>1 DEF ReqInv

-----------------------------------------------------------------------------
(* References to rows. *)

LEMMA RefKept ==
  ASSUME RefInv, Grows(users, users', links, links', admitted, admitted'),
         sessions' \subseteq sessions, tokens' \subseteq tokens, jwts' \subseteq jwts,
         opened' = opened
  PROVE  RefInv'
BY DEF RefInv, Grows

LEMMA AccountRowsKept ==
  ASSUME RowInv, users' = users, signups' = signups, links' = links, admitted' = admitted
  PROVE  RowInv'
BY DEF RowInv
-----------------------------------------------------------------------------
(* The requests that may open a session with a link. *)

LEMMA OpeningFinite ==
  ASSUME IsFiniteSet(Callers), NEW rq, NEW l
  PROVE  /\ IsFiniteSet(Opening(rq, l))
         /\ Cardinality(Opening(rq, l)) \in Nat
         /\ Cardinality(Opening(rq, l)) <= Cardinality(Callers)
<1>1. Opening(rq, l) \subseteq Callers  BY DEF Opening
<1>2. IsFiniteSet(Opening(rq, l)) /\ Cardinality(Opening(rq, l)) <= Cardinality(Callers)
  BY <1>1, FS_Subset
<1>. QED  BY <1>2, FS_CardinalityType

LEMMA OpenedFinite ==
  ASSUME NEW os, IsFiniteSet(os), NEW l
  PROVE  /\ IsFiniteSet(Opened(os, l))
         /\ Cardinality(Opened(os, l)) \in Nat
<1>1. Opened(os, l) \subseteq os  BY DEF Opened
<1>2. IsFiniteSet(Opened(os, l))  BY <1>1, FS_Subset
<1>. QED  BY <1>2, FS_CardinalityType

(* A request that goes on with the link it has, or without one, is no more. *)
LEMMA OpeningShrinks ==
  ASSUME ReqInv, NEW p \in Callers, NEW r, CallGoto(p, r),
         r.op \in ExOps => call[p].op \in ExOps /\ r.link = call[p].link, NEW l
  PROVE  Opening(call', l) \subseteq Opening(call, l)
<1>1. call'[p] = r /\ \A q \in Callers \ {p} : call'[q] = call[q]
  BY CallGotoFacts
<1>. QED  BY <1>1 DEF Opening

LEMMA LinkStep ==
  ASSUME RefInv, LinkInv, IsFiniteSet(Callers),
         Grows(users, users', links, links', admitted, admitted'),
         opened' = opened,
         \A l \in DOMAIN links : Opening(call', l) \subseteq Opening(call, l)
  PROVE  LinkInv'
<1>1. IsFiniteSet(opened) /\ Cardinality(Callers) \in Nat
  BY FS_CardinalityType DEF LinkInv
<1>2. ASSUME NEW l \in DOMAIN links' PROVE LinkKnown(l, links', opened, call')
  <2>1. Cardinality(Opening(call', l)) \in Nat /\ Cardinality(Opening(call', l)) <= Cardinality(Callers)
    BY OpeningFinite
  <2>2. Cardinality(Opened(opened, l)) \in Nat
    BY <1>1, OpenedFinite
  <2>3. CASE l \in DOMAIN links
    <3>1. LinkKnown(l, links, opened, call)  BY <2>3 DEF LinkInv
    <3>2. ~links'[l].used => Opened(opened, l) = {}
      BY <3>1, <2>3 DEF LinkKnown, Grows
    <3>3. IsFiniteSet(Opening(call, l))  BY OpeningFinite
    <3>4. Opening(call', l) \subseteq Opening(call, l)  BY <2>3
    <3>5. Cardinality(Opening(call', l)) <= Cardinality(Opening(call, l))
      BY <3>3, <3>4, FS_Subset
    <3>6. Cardinality(Opening(call, l)) \in Nat  BY OpeningFinite
    <3>7. Cardinality(Opened(opened, l)) + Cardinality(Opening(call, l)) <= Cardinality(Callers)
      BY <3>1 DEF LinkKnown
    <3>8. Cardinality(Opened(opened, l)) + Cardinality(Opening(call', l)) <= Cardinality(Callers)
      BY <3>5, <3>6, <3>7, <2>1, <2>2, <1>1
    <3>. QED  BY <3>2, <3>8 DEF LinkKnown
  <2>4. CASE l \notin DOMAIN links
    <3>1. Opened(opened, l) = {}  BY <2>4 DEF RefInv, Opened
    <3>2. Cardinality(Opened(opened, l)) = 0  BY <3>1, FS_EmptySet
    <3>. QED  BY <3>1, <3>2, <2>1, <1>1 DEF LinkKnown
  <2>. QED  BY <2>3, <2>4
<1>. QED  BY <1>1, <1>2 DEF LinkInv

(* A step of a request that opens no session and takes up no link. *)
LEMMA GoOn ==
  ASSUME AccountInv, IsFiniteSet(Callers), NEW p \in Callers, NEW r, CallGoto(p, r),
         RowInv', RefInv', opened' = opened,
         Grows(users, users', links, links', admitted, admitted'),
         ReqKnown(r, users', links', admitted'),
         r.op \in ExOps => call[p].op \in ExOps /\ r.link = call[p].link
  PROVE  AccountInv'
<1>1. ReqInv'  BY ReqStep DEF AccountInv
<1>2. \A l : Opening(call', l) \subseteq Opening(call, l)  BY OpeningShrinks DEF AccountInv
<1>3. LinkInv'  BY <1>2, LinkStep DEF AccountInv
<1>. QED  BY <1>1, <1>3 DEF AccountInv

LEMMA Ends ==
  ASSUME AccountInv, IsFiniteSet(Callers), NEW p \in Callers, CallEnds(p),
         RowInv', RefInv', opened' = opened,
         Grows(users, users', links, links', admitted, admitted')
  PROVE  AccountInv'
<1>1. CallGoto(p, NoCall)  BY DEF CallEnds
<1>2. ReqKnown(NoCall, users', links', admitted')  BY IdleKnown
<1>3. NoCall.op \notin ExOps  BY DEF NoCall, ExOps
<1>. QED  BY <1>1, <1>2, <1>3, GoOn

(* A step of no request. *)
LEMMA Rest ==
  ASSUME AccountInv, IsFiniteSet(Callers), call' = call,
         RowInv', RefInv', opened' = opened,
         Grows(users, users', links, links', admitted, admitted')
  PROVE  AccountInv'
<1>1. ReqInv'  BY ReqRest DEF AccountInv
<1>2. LinkInv'  BY LinkStep DEF AccountInv
<1>. QED  BY <1>1, <1>2 DEF AccountInv

(* Only requests move: the rows stay as they are. *)
LEMMA RowsStay ==
  ASSUME AccountInv, users' = users, signups' = signups, links' = links, admitted' = admitted,
         sessions' \subseteq sessions, tokens' \subseteq tokens, jwts' \subseteq jwts,
         opened' = opened
  PROVE  RowInv' /\ RefInv' /\ Grows(users, users', links, links', admitted, admitted')
<1>1. Grows(users, users', links, links', admitted, admitted')  BY GrowsRefl
<1>2. RowInv'  BY AccountRowsKept DEF AccountInv
<1>3. RefInv'  BY <1>1, RefKept DEF AccountInv
<1>. QED  BY <1>1, <1>2, <1>3
-----------------------------------------------------------------------------
(* Steps that only move a request on. *)

LEMMA StepRead ==
  ASSUME AccountInv, IsFiniteSet(Callers), NEW p \in Callers, NEW r, CallGoto(p, r),
         UNCHANGED <<users, signups, links, sessions, tokens, jwts, opened, admitted>>,
         ReqKnown(r, users, links, admitted),
         r.op \in ExOps => call[p].op \in ExOps /\ r.link = call[p].link
  PROVE  AccountInv'
<1>1. RowInv' /\ RefInv' /\ Grows(users, users', links, links', admitted, admitted')
  BY RowsStay
<1>2. ReqKnown(r, users', links', admitted')  OBVIOUS
<1>. QED  BY <1>1, <1>2, GoOn

LEMMA StepEnd ==
  ASSUME AccountInv, IsFiniteSet(Callers), NEW p \in Callers, CallEnds(p),
         UNCHANGED <<users, signups, links, opened, admitted>>,
         sessions' \subseteq sessions, tokens' \subseteq tokens, jwts' \subseteq jwts
  PROVE  AccountInv'
<1>1. RowInv' /\ RefInv' /\ Grows(users, users', links, links', admitted, admitted')
  BY RowsStay
<1>. QED  BY <1>1, Ends

LEMMA StepSendMagicLink ==
  ASSUME AccountInv, IsFiniteSet(Callers), NEW p \in Callers, NEW e \in Emails, SendMagicLink(p, e)
  PROVE  AccountInv'
<1>. DEFINE r == [op |-> IF GetUserByEmail(e) = {} THEN "send_signup" ELSE "send_store",
                  email |-> e]
<1>1. CallGoto(p, r) /\ UNCHANGED <<users, signups, links, sessions, tokens, jwts, opened, admitted>>
  BY DEF SendMagicLink, CallBegin
<1>2. r.email = e /\ r.op \in {"send_signup", "send_store"}  OBVIOUS
<1>3. r.op = "send_store" => Fold(e) \in admitted
  <2>1. r.op = "send_store" => GetUserByEmail(e) # {}  OBVIOUS
  <2>2. GetUserByEmail(e) # {} => Fold(e) \in admitted
    BY DEF GetUserByEmail, AccountInv, RowInv
  <2>. QED  BY <2>1, <2>2
<1>. HIDE DEF r
<1>4. ReqKnown(r, users, links, admitted)  BY <1>2, <1>3 DEF ReqKnown, ExOps
<1>5. r.op \notin ExOps  BY <1>2 DEF ExOps
<1>. QED  BY <1>1, <1>4, <1>5, StepRead

LEMMA StepSendNeedsApproval ==
  ASSUME AccountInv, IsFiniteSet(Callers), NEW p \in Callers, SendNeedsApproval(p)
  PROVE  AccountInv'
<1>. DEFINE e == call[p].email
            r == [op |-> "send_store", email |-> e]
<1>1. UNCHANGED <<users, signups, links, sessions, tokens, jwts, opened, admitted>>
  BY DEF SendNeedsApproval
<1>2. \/ CallGoto(p, r) /\ \E s \in GetSignupByEmail(e) : signups[s].status = "approved"
      \/ CallEnds(p)
  BY DEF SendNeedsApproval
<1>3. CASE CallEnds(p)
  BY <1>1, <1>3, StepEnd
<1>4. CASE CallGoto(p, r) /\ \E s \in GetSignupByEmail(e) : signups[s].status = "approved"
  <2>1. e \in Emails  BY DEF SendNeedsApproval, CallAt, AccountInv, ReqInv, ReqKnown
  <2>2. Fold(e) \in admitted  BY <1>4 DEF GetSignupByEmail, AccountInv, RowInv
  <2>3. r.op = "send_store" /\ r.email = e  OBVIOUS
  <2>4. ReqKnown(r, users, links, admitted)  BY <2>1, <2>2, <2>3 DEF ReqKnown, ExOps
  <2>5. r.op \notin ExOps  BY <2>3 DEF ExOps
  <2>. HIDE DEF r
  <2>. QED  BY <1>1, <1>4, <2>4, <2>5, StepRead
<1>. QED  BY <1>2, <1>3, <1>4

LEMMA StepGetOrCreateUser ==
  ASSUME AccountInv, IsFiniteSet(Callers), NEW p \in Callers, GetOrCreateUser(p)
  PROVE  AccountInv'
<1>. DEFINE k    == call[p]
            c    == [k EXCEPT !.op = "ex_create"]
            f(u) == [op |-> "ex_session", link |-> k.link, user |-> u]
<1>1. UNCHANGED <<users, signups, links, sessions, tokens, jwts, opened, admitted>>
  BY DEF GetOrCreateUser
<1>2. k.op = "ex_find" /\ k.op \in ExOps  BY DEF GetOrCreateUser, CallAt, ExOps
<1>3. ReqKnown(k, users, links, admitted)  BY DEF AccountInv, ReqInv
<1>4. /\ k.email \in Emails /\ Fold(k.email) \in admitted /\ DOMAIN k = {"op", "link", "email"}
      /\ k.link \in DOMAIN links /\ links[k.link].used
  BY <1>2, <1>3 DEF ReqKnown
<1>5. CallGoto(p, c) \/ \E u \in DOMAIN users : CallGoto(p, f(u))
  BY DEF GetOrCreateUser, GetUserByEmail
<1>6. CASE CallGoto(p, c)
  <2>1. c.op = "ex_create" /\ c.email = k.email /\ c.link = k.link  BY <1>4
  <2>. HIDE DEF c
  <2>2. ReqKnown(c, users, links, admitted)  BY <2>1, <1>4 DEF ReqKnown, ExOps
  <2>. QED  BY <1>1, <1>2, <1>6, <2>1, <2>2, StepRead
<1>7. ASSUME NEW u \in DOMAIN users, CallGoto(p, f(u)) PROVE AccountInv'
  <2>1. f(u).op = "ex_session" /\ f(u).link = k.link /\ f(u).user = u  OBVIOUS
  <2>. HIDE DEF f
  <2>2. ReqKnown(f(u), users, links, admitted)  BY <2>1, <1>4 DEF ReqKnown, ExOps
  <2>. QED  BY <1>1, <1>2, <1>7, <2>1, <2>2, StepRead
<1>. QED  BY <1>5, <1>6, <1>7

LEMMA StepRefreshToken ==
  ASSUME AccountInv, IsFiniteSet(Callers), NEW p \in Callers, NEW s \in sessions, RefreshToken(p, s)
  PROVE  AccountInv'
<1>. DEFINE r == [op |-> IF s.expired THEN "rf_drop" ELSE "rf_issue",
                  session |-> s.id, user |-> s.user]
<1>1. CallGoto(p, r) /\ UNCHANGED <<users, signups, links, sessions, tokens, jwts, opened, admitted>>
  BY DEF RefreshToken, CallBegin
<1>2. r.user = s.user /\ r.op \in {"rf_drop", "rf_issue"}  OBVIOUS
<1>3. s.user \in DOMAIN users  BY DEF AccountInv, RefInv
<1>. HIDE DEF r
<1>4. ReqKnown(r, users, links, admitted)  BY <1>2, <1>3 DEF ReqKnown, ExOps
<1>5. r.op \notin ExOps  BY <1>2 DEF ExOps
<1>. QED  BY <1>1, <1>4, <1>5, StepRead

LEMMA StepWithAuth ==
  ASSUME AccountInv, IsFiniteSet(Callers), NEW p \in Callers, NEW u \in DOMAIN users, WithAuth(p, u)
  PROVE  AccountInv'
<1>. DEFINE r == [op |-> "auth", user |-> u, row |-> users[u]]
<1>1. CallGoto(p, r) /\ UNCHANGED <<users, signups, links, sessions, tokens, jwts, opened, admitted>>
  BY DEF WithAuth, CallBegin
<1>2. r.user = u /\ r.op = "auth"  OBVIOUS
<1>. HIDE DEF r
<1>3. ReqKnown(r, users, links, admitted)  BY <1>2 DEF ReqKnown, ExOps
<1>4. r.op \notin ExOps  BY <1>2 DEF ExOps
<1>. QED  BY <1>1, <1>3, <1>4, StepRead

LEMMA StepDeleteToken ==
  ASSUME AccountInv, IsFiniteSet(Callers), NEW p \in Callers, NEW id, DeleteToken(p, id)
  PROVE  AccountInv'
<1>. DEFINE r == [op |-> "del_token", id |-> id, user |-> call[p].user]
<1>1. CallGoto(p, r) /\ UNCHANGED <<users, signups, links, sessions, tokens, jwts, opened, admitted>>
  BY DEF DeleteToken
<1>2. r.op = "del_token"  OBVIOUS
<1>. HIDE DEF r
<1>3. ReqKnown(r, users, links, admitted)  BY <1>2 DEF ReqKnown, ExOps
<1>4. r.op \notin ExOps  BY <1>2 DEF ExOps
<1>. QED  BY <1>1, <1>3, <1>4, StepRead

LEMMA StepsThatEnd ==
  ASSUME AccountInv, IsFiniteSet(Callers), NEW p \in Callers,
         RefreshDrop(p) \/ Logout(p) \/ DeleteTokenRow(p) \/ CallAborts(p)
  PROVE  AccountInv'
<1>1. CallEnds(p) /\ UNCHANGED <<users, signups, links, opened, admitted>>
  BY DEF RefreshDrop, Logout, DeleteTokenRow, CallAborts
<1>2. sessions' \subseteq sessions /\ tokens' \subseteq tokens /\ jwts' \subseteq jwts
  BY DEF RefreshDrop, Logout, DeleteTokenRow, CallAborts, DeleteSession, DeleteUserSessions,
         DeleteAPIToken
<1>. QED  BY <1>1, <1>2, StepEnd
-----------------------------------------------------------------------------
(* Steps that change rows. *)

LEMMA UserGrows ==
  ASSUME DOMAIN users \subseteq DOMAIN users', UNCHANGED <<links, admitted>>
  PROVE  Grows(users, users', links, links', admitted, admitted')
BY DEF Grows

(* A column of a user's row is written. *)
LEMMA UserWritten ==
  ASSUME AccountInv, NEW u \in DOMAIN users, NEW us,
         us \in Seq(UserRow), DOMAIN us = DOMAIN users,
         \A v \in DOMAIN users : us[v].email = users[v].email,
         users' = us, UNCHANGED <<signups, links, sessions, tokens, jwts, opened, admitted>>
  PROVE  RowInv' /\ RefInv' /\ Grows(users, users', links, links', admitted, admitted')
<1>1. Grows(users, users', links, links', admitted, admitted')  BY UserGrows
<1>2. RowInv'  BY DEF AccountInv, RowInv
<1>3. RefInv'  BY <1>1, RefKept DEF AccountInv
<1>. QED  BY <1>1, <1>2, <1>3

LEMMA CIWritten ==
  ASSUME RowInv, NEW u \in DOMAIN users, NEW val \in BOOLEAN
  PROVE  LET us == [users EXCEPT ![u].ci = val] IN
           /\ us \in Seq(UserRow) /\ DOMAIN us = DOMAIN users
           /\ \A v \in DOMAIN users : us[v].email = users[v].email
           /\ \A v \in DOMAIN users : v # u => us[v] = users[v]
           /\ us[u].ci = val
<1>. DEFINE us == [users EXCEPT ![u].ci = val]
            row == [users[u] EXCEPT !.ci = val]
<1>1. users \in Seq(UserRow)  BY DEF RowInv
<1>2. users[u] \in UserRow  BY <1>1
<1>3. row \in UserRow /\ row.email = users[u].email /\ row.ci = val  BY <1>2 DEF UserRow
<1>4. us = [users EXCEPT ![u] = row]  OBVIOUS
<1>. HIDE DEF us, row
<1>5. us \in Seq(UserRow) /\ DOMAIN us = DOMAIN users  BY <1>1, <1>3, <1>4
<1>6. us[u] = row /\ \A v \in DOMAIN users : v # u => us[v] = users[v]  BY <1>1, <1>4
<1>. QED  BY <1>3, <1>5, <1>6 DEF us

LEMMA AskedWritten ==
  ASSUME RowInv, NEW u \in DOMAIN users
  PROVE  LET us == [users EXCEPT ![u].asked = TRUE] IN
           /\ us \in Seq(UserRow) /\ DOMAIN us = DOMAIN users
           /\ \A v \in DOMAIN users : us[v].email = users[v].email
           /\ \A v \in DOMAIN users : us[v].ci = users[v].ci
<1>. DEFINE us == [users EXCEPT ![u].asked = TRUE]
            row == [users[u] EXCEPT !.asked = TRUE]
<1>1. users \in Seq(UserRow)  BY DEF RowInv
<1>2. users[u] \in UserRow  BY <1>1
<1>3. row \in UserRow /\ row.email = users[u].email /\ row.ci = users[u].ci  BY <1>2 DEF UserRow
<1>4. us = [users EXCEPT ![u] = row]  OBVIOUS
<1>. HIDE DEF us, row
<1>5. us \in Seq(UserRow) /\ DOMAIN us = DOMAIN users  BY <1>1, <1>3, <1>4
<1>6. us[u] = row /\ \A v \in DOMAIN users : v # u => us[v] = users[v]  BY <1>1, <1>4
<1>. QED  BY <1>3, <1>5, <1>6 DEF us

LEMMA AuthUser ==
  ASSUME AccountInv, NEW p \in Callers, CallAt(p, "auth")
  PROVE  call[p].user \in DOMAIN users
BY DEF CallAt, AccountInv, ReqInv, ReqKnown

LEMMA StepRequestCIAccess ==
  ASSUME AccountInv, IsFiniteSet(Callers), NEW p \in Callers, RequestCIAccess(p)
  PROVE  AccountInv'
<1>. DEFINE u  == call[p].user
            us == [users EXCEPT ![u].asked = TRUE]
<1>1. /\ CallAt(p, "auth") /\ CallEnds(p) /\ users' = us
      /\ UNCHANGED <<signups, links, sessions, tokens, jwts, opened, admitted>>
  BY DEF RequestCIAccess, MarkCIRequested
<1>2. u \in DOMAIN users  BY <1>1, AuthUser
<1>3. /\ us \in Seq(UserRow) /\ DOMAIN us = DOMAIN users
      /\ \A v \in DOMAIN users : us[v].email = users[v].email
  BY <1>2, AskedWritten DEF AccountInv
<1>. HIDE DEF us, u
<1>4. RowInv' /\ RefInv' /\ Grows(users, users', links, links', admitted, admitted')
  BY <1>1, <1>2, <1>3, UserWritten
<1>. QED  BY <1>1, <1>4, Ends

LEMMA StepSetUserCIAccess ==
  ASSUME AccountInv, IsFiniteSet(Callers), NEW p \in Callers, NEW u \in DOMAIN users,
         NEW val \in BOOLEAN, SetUserCIAccess(p, u, val)
  PROVE  AccountInv'
<1>. DEFINE us == [users EXCEPT ![u].ci = val]
<1>1. /\ CallEnds(p) /\ users' = us
      /\ UNCHANGED <<signups, links, sessions, tokens, jwts, opened, admitted>>
  BY DEF SetUserCIAccess, UpdateUserCIAccess
<1>2. /\ us \in Seq(UserRow) /\ DOMAIN us = DOMAIN users
      /\ \A v \in DOMAIN users : us[v].email = users[v].email
  BY CIWritten DEF AccountInv
<1>. HIDE DEF us
<1>3. RowInv' /\ RefInv' /\ Grows(users, users', links, links', admitted, admitted')
  BY <1>1, <1>2, UserWritten
<1>. QED  BY <1>1, <1>3, Ends

(* A row appended to a sequence of rows. *)
LEMMA Appended ==
  ASSUME NEW S, NEW q \in Seq(S), NEW x \in S
  PROVE  /\ Append(q, x) \in Seq(S)
         /\ DOMAIN Append(q, x) = DOMAIN q \cup {Len(q) + 1}
         /\ Append(q, x)[Len(q) + 1] = x
         /\ \A i \in DOMAIN q : Append(q, x)[i] = q[i]
         /\ Len(q) + 1 \notin DOMAIN q
OBVIOUS

(* A row of signups is written or added. *)
LEMMA SignupsWritten ==
  ASSUME AccountInv, UNCHANGED <<users, links, opened>>, admitted \subseteq admitted',
         UNCHANGED <<sessions, tokens, jwts>>, signups' \in Seq(SignupRow),
         \A s \in DOMAIN signups' :
            signups'[s].status = "approved" => Fold(signups'[s].email) \in admitted'
  PROVE  RowInv' /\ RefInv' /\ Grows(users, users', links, links', admitted, admitted')
<1>1. Grows(users, users', links, links', admitted, admitted')  BY DEF Grows
<1>2. RowInv'  BY DEF AccountInv, RowInv
<1>3. RefInv'  BY <1>1, RefKept DEF AccountInv
<1>. QED  BY <1>1, <1>2, <1>3

UserRowOf(e) == [email |-> e, ci |-> FALSE, asked |-> FALSE]

LEMMA UserAppended ==
  ASSUME AccountInv, NEW e \in Emails, Fold(e) \in admitted,
         users' = Append(users, UserRowOf(e)),
         UNCHANGED <<signups, links, sessions, tokens, jwts, opened, admitted>>
  PROVE  /\ RowInv' /\ RefInv' /\ Grows(users, users', links, links', admitted, admitted')
         /\ DOMAIN users' = DOMAIN users \cup {Len(users) + 1} /\ Len(users) + 1 \notin DOMAIN users
         /\ users'[Len(users) + 1] = UserRowOf(e) /\ \A i \in DOMAIN users : users'[i] = users[i]
<1>1. UserRowOf(e) \in UserRow /\ UserRowOf(e).email = e  BY DEF UserRow, UserRowOf
<1>2. users \in Seq(UserRow)  BY DEF AccountInv, RowInv
<1>3. /\ users' \in Seq(UserRow)
      /\ DOMAIN users' = DOMAIN users \cup {Len(users) + 1} /\ Len(users) + 1 \notin DOMAIN users
      /\ users'[Len(users) + 1] = UserRowOf(e) /\ \A i \in DOMAIN users : users'[i] = users[i]
  BY <1>1, <1>2, Appended
<1>4. Grows(users, users', links, links', admitted, admitted')  BY <1>3, UserGrows
<1>5. RowInv'
  <2>1. \A u \in DOMAIN users' : Fold(users'[u].email) \in admitted'
    BY <1>1, <1>3 DEF AccountInv, RowInv
  <2>. QED  BY <1>3, <2>1 DEF AccountInv, RowInv
<1>6. RefInv'  BY <1>4, RefKept DEF AccountInv
<1>. QED  BY <1>3, <1>4, <1>5, <1>6

LEMMA StepExchangeCreate ==
  ASSUME AccountInv, IsFiniteSet(Callers), NEW p \in Callers, ExchangeCreate(p)
  PROVE  AccountInv'
<1>. DEFINE k   == call[p]
            r   == [op |-> "ex_session", link |-> k.link, user |-> Len(users) + 1]
<1>1. UNCHANGED <<signups, links, sessions, tokens, jwts, opened, admitted>>
  BY DEF ExchangeCreate
<1>2. k.op = "ex_create"  BY DEF ExchangeCreate, CallAt
<1>3. ReqKnown(k, users, links, admitted)  BY DEF AccountInv, ReqInv
<1>4. /\ k.email \in Emails /\ Fold(k.email) \in admitted
      /\ k.link \in DOMAIN links /\ links[k.link].used
  BY <1>2, <1>3 DEF ReqKnown, ExOps
<1>5. \/ users' = Append(users, UserRowOf(k.email)) /\ CallGoto(p, r)
      \/ CallEnds(p) /\ users' = users
  BY DEF ExchangeCreate, CreateUser, UserRowOf
<1>6. CASE CallEnds(p) /\ users' = users
  BY <1>1, <1>6, StepEnd
<1>7. CASE users' = Append(users, UserRowOf(k.email)) /\ CallGoto(p, r)
  <2>1. r.op = "ex_session" /\ r.link = k.link /\ r.user = Len(users) + 1  OBVIOUS
  <2>. HIDE DEF r
  <2>2. /\ RowInv' /\ RefInv' /\ Grows(users, users', links, links', admitted, admitted')
        /\ Len(users) + 1 \in DOMAIN users'
    BY <1>1, <1>4, <1>7, UserAppended
  <2>3. ReqKnown(r, users', links', admitted')
    <3>1. r.user \in DOMAIN users' /\ r.link \in DOMAIN links' /\ links'[r.link].used
      BY <1>1, <1>4, <2>1, <2>2
    <3>. QED  BY <2>1, <3>1 DEF ReqKnown, ExOps
  <2>4. k.op \in ExOps  BY <1>2 DEF ExOps
  <2>. QED  BY <1>1, <1>7, <2>1, <2>2, <2>3, <2>4, GoOn
<1>. QED  BY <1>5, <1>6, <1>7

LEMMA StepAddMemberCreate ==
  ASSUME AccountInv, IsFiniteSet(Callers), NEW p \in Callers, AddMemberCreate(p)
  PROVE  AccountInv'
<1>. DEFINE e == call[p].email
<1>1. /\ UNCHANGED <<signups, links, sessions, tokens, jwts, opened, admitted>>
      /\ CallEnds(p) /\ users' = Append(users, UserRowOf(e)) /\ call[p].op = "am_create"
  BY DEF AddMemberCreate, CreateUser, UserRowOf, CallAt
<1>2. ReqKnown(call[p], users, links, admitted)  BY DEF AccountInv, ReqInv
<1>3. e \in Emails /\ Fold(e) \in admitted  BY <1>1, <1>2 DEF ReqKnown
<1>. HIDE DEF e
<1>4. RowInv' /\ RefInv' /\ Grows(users, users', links, links', admitted, admitted')
  BY <1>1, <1>3, UserAppended
<1>. QED  BY <1>1, <1>4, Ends

LEMMA StepAddMemberAccount ==
  ASSUME AccountInv, IsFiniteSet(Callers), NEW p \in Callers, NEW e \in Emails,
         AddMemberAccount(p, e)
  PROVE  AccountInv'
<1>. DEFINE r == [op |-> "am_create", email |-> e]
<1>1. /\ UNCHANGED <<users, signups, links, sessions, tokens, jwts, opened>>
      /\ admitted' = admitted \cup {Fold(e)}
      /\ CallGoto(p, r) \/ CallEnds(p)
  BY DEF AddMemberAccount
<1>2. r.op = "am_create" /\ r.email = e  OBVIOUS
<1>. HIDE DEF r
<1>3. RowInv' /\ RefInv' /\ Grows(users, users', links, links', admitted, admitted')
  BY <1>1, SignupsWritten DEF AccountInv, RowInv
<1>4. ReqKnown(r, users', links', admitted') /\ r.op \notin ExOps
  BY <1>1, <1>2 DEF ReqKnown, ExOps
<1>. QED  BY <1>1, <1>3, <1>4, GoOn, Ends

LEMMA StepSubmitSignup ==
  ASSUME AccountInv, IsFiniteSet(Callers), NEW e \in Emails, SubmitSignup(e)
  PROVE  AccountInv'
<1>. DEFINE row == [email |-> e, status |-> "pending_review"]
<1>1. /\ signups' = Append(signups, row)
      /\ UNCHANGED <<users, links, sessions, tokens, jwts, opened, admitted, call>>
  BY DEF SubmitSignup, CreateSignup
<1>2. row \in SignupRow /\ row.status = "pending_review"  BY DEF SignupRow, Statuses
<1>. HIDE DEF row
<1>3. signups \in Seq(SignupRow)  BY DEF AccountInv, RowInv
<1>4. /\ signups' \in Seq(SignupRow) /\ DOMAIN signups' = DOMAIN signups \cup {Len(signups) + 1}
      /\ signups'[Len(signups) + 1] = row /\ \A i \in DOMAIN signups : signups'[i] = signups[i]
  BY <1>1, <1>2, <1>3, Appended
<1>5. \A s \in DOMAIN signups' :
         signups'[s].status = "approved" => Fold(signups'[s].email) \in admitted'
  BY <1>1, <1>2, <1>4 DEF AccountInv, RowInv
<1>6. RowInv' /\ RefInv' /\ Grows(users, users', links, links', admitted, admitted')
  BY <1>1, <1>4, <1>5, SignupsWritten
<1>. QED  BY <1>1, <1>6, Rest

LEMMA StepUpdateSignup ==
  ASSUME AccountInv, IsFiniteSet(Callers), NEW p \in Callers, NEW s \in DOMAIN signups,
         NEW status \in Statuses, UpdateSignup(p, s, status)
  PROVE  AccountInv'
<1>. DEFINE row == [signups[s] EXCEPT !.status = status]
            sg  == [signups EXCEPT ![s] = row]
<1>1. /\ signups' = [signups EXCEPT ![s].status = status]
      /\ admitted' = admitted \cup (IF status = "approved" THEN {Fold(signups[s].email)} ELSE {})
      /\ CallEnds(p)
      /\ UNCHANGED <<users, links, sessions, tokens, jwts, opened>>
  BY DEF UpdateSignup, UpdateSignupStatus
<1>2. signups' = sg  BY <1>1
<1>3. signups \in Seq(SignupRow)  BY DEF AccountInv, RowInv
<1>4. signups[s] \in SignupRow  BY <1>3
<1>5. row \in SignupRow /\ row.email = signups[s].email /\ row.status = status
  BY <1>4 DEF SignupRow
<1>. HIDE DEF row
<1>6. /\ sg \in Seq(SignupRow) /\ DOMAIN sg = DOMAIN signups /\ sg[s] = row
      /\ \A i \in DOMAIN signups : i # s => sg[i] = signups[i]
  BY <1>3, <1>5
<1>. HIDE DEF sg
<1>7. admitted \subseteq admitted'  BY <1>1
<1>8. status = "approved" => Fold(signups[s].email) \in admitted'  BY <1>1
<1>9. ASSUME NEW i \in DOMAIN signups', signups'[i].status = "approved"
      PROVE  Fold(signups'[i].email) \in admitted'
  <2>1. CASE i = s  BY <2>1, <1>2, <1>5, <1>6, <1>8, <1>9
  <2>2. CASE i # s
    <3>1. i \in DOMAIN signups /\ signups'[i] = signups[i]  BY <2>2, <1>2, <1>6
    <3>2. Fold(signups[i].email) \in admitted  BY <3>1, <1>9 DEF AccountInv, RowInv
    <3>. QED  BY <3>1, <3>2, <1>7
  <2>. QED  BY <2>1, <2>2
<1>10. RowInv' /\ RefInv' /\ Grows(users, users', links, links', admitted, admitted')
  BY <1>1, <1>2, <1>6, <1>7, <1>9, SignupsWritten
<1>. QED  BY <1>1, <1>10, Ends

(* A row of links is written or added. *)
LEMMA LinksWritten ==
  ASSUME AccountInv, UNCHANGED <<users, signups, opened, admitted>>,
         UNCHANGED <<sessions, tokens, jwts>>, links' \in Seq(LinkRow),
         DOMAIN links \subseteq DOMAIN links',
         \A l \in DOMAIN links : links[l].used => links'[l].used,
         \A l \in DOMAIN links' : Fold(links'[l].email) \in admitted
  PROVE  RowInv' /\ RefInv' /\ Grows(users, users', links, links', admitted, admitted')
<1>1. Grows(users, users', links, links', admitted, admitted')  BY DEF Grows
<1>2. RowInv'  BY DEF AccountInv, RowInv
<1>3. RefInv'  BY <1>1, RefKept DEF AccountInv
<1>. QED  BY <1>1, <1>2, <1>3

LEMMA StepSendStore ==
  ASSUME AccountInv, IsFiniteSet(Callers), NEW p \in Callers, SendStore(p)
  PROVE  AccountInv'
<1>. DEFINE e   == call[p].email
            row == [email |-> e, used |-> FALSE, expired |-> FALSE, gone |-> FALSE]
<1>1. /\ links' = Append(links, row) /\ CallEnds(p)
      /\ UNCHANGED <<users, signups, sessions, tokens, jwts, opened, admitted>>
  BY DEF SendStore, CreateMagicLink
<1>2. e \in Emails /\ Fold(e) \in admitted
  BY DEF SendStore, CallAt, AccountInv, ReqInv, ReqKnown
<1>3. row \in LinkRow /\ row.email = e  BY <1>2 DEF LinkRow
<1>. HIDE DEF row, e
<1>4. links \in Seq(LinkRow)  BY DEF AccountInv, RowInv
<1>5. /\ links' \in Seq(LinkRow) /\ DOMAIN links' = DOMAIN links \cup {Len(links) + 1}
      /\ links'[Len(links) + 1] = row /\ \A i \in DOMAIN links : links'[i] = links[i]
  BY <1>1, <1>3, <1>4, Appended
<1>6. \A l \in DOMAIN links' : Fold(links'[l].email) \in admitted
  BY <1>2, <1>3, <1>5 DEF AccountInv, RowInv
<1>7. RowInv' /\ RefInv' /\ Grows(users, users', links, links', admitted, admitted')
  BY <1>1, <1>5, <1>6, LinksWritten
<1>. QED  BY <1>1, <1>7, Ends

(* One link is written: its address stays, and that it was used. *)
LEMMA LinkWritten ==
  ASSUME RowInv, NEW l \in DOMAIN links, NEW row \in LinkRow,
         row.email = links[l].email, links[l].used => row.used,
         links' = [links EXCEPT ![l] = row]
  PROVE  /\ links' \in Seq(LinkRow) /\ DOMAIN links' = DOMAIN links
         /\ links'[l] = row
         /\ \A k \in DOMAIN links : links[k].used => links'[k].used
         /\ \A k \in DOMAIN links' : Fold(links'[k].email) \in admitted
<1>1. links \in Seq(LinkRow)  BY DEF RowInv
<1>2. /\ links' \in Seq(LinkRow) /\ DOMAIN links' = DOMAIN links /\ links'[l] = row
      /\ \A k \in DOMAIN links : k # l => links'[k] = links[k]
  BY <1>1
<1>3. \A k \in DOMAIN links : Fold(links[k].email) \in admitted  BY DEF RowInv
<1>4. \A k \in DOMAIN links : links[k].used => links'[k].used  BY <1>2
<1>5. \A k \in DOMAIN links : Fold(links'[k].email) \in admitted  BY <1>2, <1>3
<1>. QED  BY <1>2, <1>4, <1>5

LEMMA StepExchangeUse ==
  ASSUME AccountInv, IsFiniteSet(Callers), NEW p \in Callers, ExchangeUse(p)
  PROVE  AccountInv'
<1>. DEFINE k   == call[p]
            l   == k.link
            r   == [k EXCEPT !.op = "ex_find"]
            row == [links[l] EXCEPT !.used = TRUE]
<1>1. /\ links' = [links EXCEPT ![l].used = TRUE] /\ CallGoto(p, r)
      /\ UNCHANGED <<users, signups, sessions, tokens, jwts, opened, admitted>>
  BY DEF ExchangeUse, UseMagicLink
<1>2. links' = [links EXCEPT ![l] = row]  BY <1>1
<1>3. k.op = "ex_use" /\ k.op \in ExOps  BY DEF ExchangeUse, CallAt, ExOps
<1>4. ReqKnown(k, users, links, admitted)  BY DEF AccountInv, ReqInv
<1>5. /\ k.email \in Emails /\ Fold(k.email) \in admitted
      /\ l \in DOMAIN links /\ DOMAIN k = {"op", "link", "email"}
  BY <1>3, <1>4 DEF ReqKnown
<1>6. r.op = "ex_find" /\ r.link = l /\ r.email = k.email /\ DOMAIN r = {"op", "link", "email"}
  BY <1>5
<1>. HIDE DEF r
<1>7. links[l] \in LinkRow  BY <1>5 DEF AccountInv, RowInv
<1>8. row \in LinkRow /\ row.email = links[l].email /\ row.used  BY <1>7 DEF LinkRow
<1>. HIDE DEF row
<1>9. /\ links' \in Seq(LinkRow) /\ DOMAIN links' = DOMAIN links
      /\ links'[l] = row
      /\ \A i \in DOMAIN links : links[i].used => links'[i].used
      /\ \A i \in DOMAIN links' : Fold(links'[i].email) \in admitted
  BY <1>2, <1>5, <1>8, LinkWritten DEF AccountInv
<1>10. RowInv' /\ RefInv' /\ Grows(users, users', links, links', admitted, admitted')
  BY <1>1, <1>9, LinksWritten
<1>11. ReqKnown(r, users', links', admitted')
  BY <1>1, <1>5, <1>6, <1>8, <1>9 DEF ReqKnown, ExOps
<1>. QED  BY <1>1, <1>3, <1>6, <1>10, <1>11, GoOn

LEMMA StepLinkExpires ==
  ASSUME AccountInv, IsFiniteSet(Callers), NEW l \in DOMAIN links, LinkExpires(l)
  PROVE  AccountInv'
<1>. DEFINE row == [links[l] EXCEPT !.expired = TRUE]
<1>1. /\ links' = [links EXCEPT ![l].expired = TRUE]
      /\ UNCHANGED <<users, signups, sessions, tokens, jwts, opened, admitted, call>>
  BY DEF LinkExpires
<1>2. links' = [links EXCEPT ![l] = row]  BY <1>1
<1>3. links[l] \in LinkRow  BY DEF AccountInv, RowInv
<1>4. row \in LinkRow /\ row.email = links[l].email /\ row.used = links[l].used
  BY <1>3 DEF LinkRow
<1>. HIDE DEF row
<1>5. /\ links' \in Seq(LinkRow) /\ DOMAIN links' = DOMAIN links
      /\ \A i \in DOMAIN links : links[i].used => links'[i].used
      /\ \A i \in DOMAIN links' : Fold(links'[i].email) \in admitted
  BY <1>2, <1>4, LinkWritten DEF AccountInv
<1>6. RowInv' /\ RefInv' /\ Grows(users, users', links, links', admitted, admitted')
  BY <1>1, <1>5, LinksWritten
<1>. QED  BY <1>1, <1>6, Rest

LEMMA StepCleanup ==
  ASSUME AccountInv, IsFiniteSet(Callers), CleanupExpiredMagicLinks
  PROVE  AccountInv'
<1>. DEFINE row(l) == [links[l] EXCEPT !.gone = links[l].gone \/ links[l].expired]
<1>1. /\ links' = [l \in DOMAIN links |-> row(l)]
      /\ UNCHANGED <<users, signups, sessions, tokens, jwts, opened, admitted, call>>
  BY DEF CleanupExpiredMagicLinks
<1>2. ASSUME NEW l \in DOMAIN links
      PROVE  row(l) \in LinkRow /\ row(l).email = links[l].email /\ row(l).used = links[l].used
  <2>1. links[l] \in LinkRow  BY DEF AccountInv, RowInv
  <2>2. (links[l].gone \/ links[l].expired) \in BOOLEAN  OBVIOUS
  <2>. QED  BY <2>1, <2>2 DEF LinkRow
<1>. HIDE DEF row
<1>3. links \in Seq(LinkRow)  BY DEF AccountInv, RowInv
<1>4. links' \in Seq(LinkRow) /\ DOMAIN links' = DOMAIN links
  <2>1. DOMAIN links = 1..Len(links) /\ Len(links) \in Nat  BY <1>3
  <2>2. links' = [l \in 1..Len(links) |-> row(l)]  BY <1>1, <2>1
  <2>3. \A l \in 1..Len(links) : row(l) \in LinkRow  BY <1>2, <2>1
  <2>4. links' \in [1..Len(links) -> LinkRow]  BY <2>2, <2>3
  <2>. QED  BY <2>1, <2>4
<1>5. \A l \in DOMAIN links : links'[l] = row(l)  BY <1>1
<1>6. /\ \A l \in DOMAIN links : links[l].used => links'[l].used
      /\ \A l \in DOMAIN links' : Fold(links'[l].email) \in admitted
  BY <1>2, <1>4, <1>5 DEF AccountInv, RowInv
<1>7. RowInv' /\ RefInv' /\ Grows(users, users', links, links', admitted, admitted')
  BY <1>1, <1>4, <1>6, LinksWritten
<1>. QED  BY <1>1, <1>7, Rest
-----------------------------------------------------------------------------
(* Tokens and sessions. *)

LEMMA StepRefreshIssue ==
  ASSUME AccountInv, IsFiniteSet(Callers), NEW p \in Callers, RefreshIssue(p)
  PROVE  AccountInv'
<1>1. /\ CallEnds(p) /\ jwts' = jwts \cup {call[p].user}
      /\ UNCHANGED <<users, signups, links, sessions, tokens, opened, admitted>>
  BY DEF RefreshIssue, GenerateAccessToken
<1>2. call[p].user \in DOMAIN users
  BY DEF RefreshIssue, CallAt, AccountInv, ReqInv, ReqKnown
<1>3. Grows(users, users', links, links', admitted, admitted')  BY <1>1, GrowsRefl
<1>4. RowInv'  BY <1>1, AccountRowsKept DEF AccountInv
<1>5. RefInv'  BY <1>1, <1>2 DEF AccountInv, RefInv
<1>. QED  BY <1>1, <1>3, <1>4, <1>5, Ends

LEMMA StepCreateToken ==
  ASSUME AccountInv, IsFiniteSet(Callers), NEW p \in Callers, CreateToken(p)
  PROVE  AccountInv'
<1>. DEFINE t == [id |-> issued.tokens + 1, user |-> call[p].user]
<1>1. /\ CallEnds(p) /\ tokens' = tokens \cup {t}
      /\ UNCHANGED <<users, signups, links, sessions, jwts, opened, admitted>>
  BY DEF CreateToken, CreateAPIToken
<1>2. call[p].user \in DOMAIN users
  BY AuthUser DEF CreateToken
<1>3. t.user \in DOMAIN users  BY <1>2
<1>. HIDE DEF t
<1>4. Grows(users, users', links, links', admitted, admitted')  BY <1>1, GrowsRefl
<1>5. RowInv'  BY <1>1, AccountRowsKept DEF AccountInv
<1>6. RefInv'  BY <1>1, <1>3 DEF AccountInv, RefInv
<1>. QED  BY <1>1, <1>4, <1>5, <1>6, Ends

LEMMA StepAccessTokenExpires ==
  ASSUME AccountInv, IsFiniteSet(Callers), NEW u, AccessTokenExpires(u)
  PROVE  AccountInv'
<1>1. /\ jwts' \subseteq jwts
      /\ UNCHANGED <<users, signups, links, sessions, tokens, opened, admitted, call>>
  BY DEF AccessTokenExpires
<1>2. RowInv' /\ RefInv' /\ Grows(users, users', links, links', admitted, admitted')
  BY <1>1, RowsStay
<1>. QED  BY <1>1, <1>2, Rest

LEMMA StepSessionExpires ==
  ASSUME AccountInv, IsFiniteSet(Callers), NEW s \in sessions, SessionExpires(s)
  PROVE  AccountInv'
<1>. DEFINE t == [s EXCEPT !.expired = TRUE]
<1>1. /\ sessions' = (sessions \ {s}) \cup {t}
      /\ UNCHANGED <<users, signups, links, tokens, jwts, opened, admitted, call>>
  BY DEF SessionExpires
<1>2. DOMAIN s = SessionCols /\ s.user \in DOMAIN users /\ s.link \in DOMAIN links
  BY DEF AccountInv, RefInv
<1>3. DOMAIN t = SessionCols /\ t.user = s.user /\ t.link = s.link
  BY <1>2 DEF SessionCols
<1>. HIDE DEF t
<1>4. Grows(users, users', links, links', admitted, admitted')  BY <1>1, GrowsRefl
<1>5. RowInv'  BY <1>1, AccountRowsKept DEF AccountInv
<1>6. RefInv'
  <2>1. \A x \in sessions' : DOMAIN x = SessionCols /\ x.user \in DOMAIN users /\ x.link \in DOMAIN links
    BY <1>1, <1>2, <1>3 DEF AccountInv, RefInv
  <2>. QED  BY <1>1, <2>1 DEF AccountInv, RefInv
<1>. QED  BY <1>1, <1>4, <1>5, <1>6, Rest

LEMMA StepExchangeToken ==
  ASSUME AccountInv, IsFiniteSet(Callers), NEW p \in Callers, NEW l \in DOMAIN links,
         ExchangeToken(p, l)
  PROVE  AccountInv'
<1>. DEFINE r == [op |-> "ex_use", link |-> l, email |-> links[l].email]
<1>1. /\ ~links[l].used /\ CallGoto(p, r)
      /\ UNCHANGED <<users, signups, links, sessions, tokens, jwts, opened, admitted>>
  BY DEF ExchangeToken, GetMagicLink, CallBegin
<1>2. r.op = "ex_use" /\ r.link = l /\ r.email = links[l].email /\ DOMAIN r = {"op", "link", "email"}
  OBVIOUS
<1>. HIDE DEF r
<1>3. links[l] \in LinkRow /\ Fold(links[l].email) \in admitted  BY DEF AccountInv, RowInv
<1>4. links[l].email \in Emails  BY <1>3 DEF LinkRow
<1>5. ReqKnown(r, users', links', admitted')
  BY <1>1, <1>2, <1>3, <1>4 DEF ReqKnown, ExOps
<1>6. RowInv' /\ RefInv' /\ Grows(users, users', links, links', admitted, admitted')
  BY <1>1, RowsStay
<1>7. ReqInv'  BY <1>1, <1>5, <1>6, ReqStep DEF AccountInv
<1>8. call'[p] = r /\ \A q \in Callers \ {p} : call'[q] = call[q]
  BY <1>1, CallGotoFacts DEF AccountInv
<1>9. IsFiniteSet(opened)  BY DEF AccountInv, LinkInv
<1>10. Cardinality(Callers) \in Nat  BY FS_CardinalityType
<1>11. ASSUME NEW k \in DOMAIN links PROVE LinkKnown(k, links, opened, call')
  <2>1. LinkKnown(k, links, opened, call)  BY DEF AccountInv, LinkInv
  <2>2. Cardinality(Opening(call', k)) \in Nat /\ Cardinality(Opening(call', k)) <= Cardinality(Callers)
    BY OpeningFinite
  <2>3. CASE k = l
    <3>1. Opened(opened, k) = {}  BY <2>1, <2>3, <1>1 DEF LinkKnown
    <3>2. Cardinality(Opened(opened, k)) = 0  BY <3>1, FS_EmptySet
    <3>. QED  BY <3>1, <3>2, <2>2, <1>10 DEF LinkKnown
  <2>4. CASE k # l
    <3>1. Opening(call', k) \subseteq Opening(call, k)  BY <1>2, <1>8, <2>4 DEF Opening
    <3>2. IsFiniteSet(Opening(call, k)) /\ Cardinality(Opening(call, k)) \in Nat  BY OpeningFinite
    <3>3. Cardinality(Opening(call', k)) <= Cardinality(Opening(call, k))  BY <3>1, <3>2, FS_Subset
    <3>4. Cardinality(Opened(opened, k)) \in Nat  BY <1>9, OpenedFinite
    <3>5. Cardinality(Opened(opened, k)) + Cardinality(Opening(call, k)) <= Cardinality(Callers)
      BY <2>1 DEF LinkKnown
    <3>6. Cardinality(Opened(opened, k)) + Cardinality(Opening(call', k)) <= Cardinality(Callers)
      BY <3>2, <3>3, <3>4, <3>5, <2>2, <1>10
    <3>. QED  BY <3>6, <2>1 DEF LinkKnown
  <2>. QED  BY <2>3, <2>4
<1>12. LinkInv'  BY <1>1, <1>9, <1>11 DEF LinkInv
<1>. QED  BY <1>6, <1>7, <1>12 DEF AccountInv

(* The session that is created takes the place of the request that creates   *)
(* it.                                                                       *)
LEMMA StepExchangeSession ==
  ASSUME AccountInv, IsFiniteSet(Callers), NEW p \in Callers, ExchangeSession(p)
  PROVE  AccountInv'
<1>. DEFINE k == call[p]
            s == [id |-> issued.sessions + 1, user |-> k.user, link |-> k.link, expired |-> FALSE]
<1>1. /\ k.op = "ex_session"
      /\ sessions' = sessions \cup {s} /\ opened' = opened \cup {s}
      /\ jwts' = jwts \cup {k.user}
      /\ CallEnds(p)
      /\ UNCHANGED <<users, signups, links, tokens, admitted>>
  BY DEF ExchangeSession, CreateSession, GenerateAccessToken, CallAt
<1>2. ReqKnown(k, users, links, admitted)  BY DEF AccountInv, ReqInv
<1>3. k.op \in ExOps  BY <1>1 DEF ExOps
<1>4. k.user \in DOMAIN users /\ k.link \in DOMAIN links /\ links[k.link].used
  BY <1>1, <1>2 DEF ReqKnown, ExOps
<1>5. DOMAIN s = SessionCols /\ s.user = k.user /\ s.link = k.link  BY DEF SessionCols
<1>. HIDE DEF s
<1>6. Grows(users, users', links, links', admitted, admitted')  BY <1>1, GrowsRefl
<1>7. RowInv'  BY <1>1, AccountRowsKept DEF AccountInv
<1>8. RefInv'
  <2>1. \A x \in sessions' : DOMAIN x = SessionCols /\ x.user \in DOMAIN users /\ x.link \in DOMAIN links
    BY <1>1, <1>4, <1>5 DEF AccountInv, RefInv
  <2>2. \A x \in opened' : x.link \in DOMAIN links
    BY <1>1, <1>4, <1>5 DEF AccountInv, RefInv
  <2>3. jwts' \subseteq DOMAIN users
    BY <1>1, <1>4 DEF AccountInv, RefInv
  <2>. QED  BY <1>1, <2>1, <2>2, <2>3 DEF AccountInv, RefInv
<1>9. CallGoto(p, NoCall)  BY <1>1 DEF CallEnds
<1>10. ReqKnown(NoCall, users', links', admitted') /\ NoCall.op \notin ExOps
  <2>1. NoCall.op \notin ExOps  BY DEF NoCall, ExOps
  <2>. QED  BY <2>1, IdleKnown
<1>11. ReqInv'  BY <1>6, <1>9, <1>10, ReqStep DEF AccountInv
<1>12. call'[p] = NoCall /\ \A q \in Callers \ {p} : call'[q] = call[q]
  BY <1>9, CallGotoFacts DEF AccountInv
<1>13. IsFiniteSet(opened)  BY DEF AccountInv, LinkInv
<1>14. IsFiniteSet(opened')  BY <1>1, <1>13, FS_AddElement
<1>15. ASSUME NEW l \in DOMAIN links PROVE LinkKnown(l, links, opened', call')
  <2>1. LinkKnown(l, links, opened, call)  BY DEF AccountInv, LinkInv
  <2>2. IsFiniteSet(Opened(opened, l)) /\ Cardinality(Opened(opened, l)) \in Nat
    BY <1>13, OpenedFinite
  <2>3. IsFiniteSet(Opening(call, l)) /\ Cardinality(Opening(call, l)) \in Nat
    BY OpeningFinite
  <2>4. Cardinality(Opened(opened, l)) + Cardinality(Opening(call, l)) <= Cardinality(Callers)
    BY <2>1 DEF LinkKnown
  <2>5. Cardinality(Callers) \in Nat  BY FS_CardinalityType
  <2>6. CASE l = k.link
    <3>1. links[l].used  BY <2>6, <1>4
    <3>2. Opened(opened', l) = Opened(opened, l) \cup {s}  BY <2>6, <1>1, <1>5 DEF Opened
    <3>3. Cardinality(Opened(opened', l)) <= Cardinality(Opened(opened, l)) + 1
      <4>1. Cardinality(Opened(opened, l) \cup {s}) =
              IF s \in Opened(opened, l) THEN Cardinality(Opened(opened, l))
              ELSE Cardinality(Opened(opened, l)) + 1
        BY <2>2, FS_AddElement
      <4>. QED  BY <4>1, <3>2, <2>2
    <3>4. p \in Opening(call, l)  BY <2>6, <1>3 DEF Opening
    <3>5. Opening(call', l) = Opening(call, l) \ {p}  BY <1>10, <1>12 DEF Opening
    <3>6. Cardinality(Opening(call', l)) = Cardinality(Opening(call, l)) - 1
      BY <2>3, <3>4, <3>5, FS_RemoveElement
    <3>7. Cardinality(Opened(opened', l)) \in Nat  BY <1>14, OpenedFinite
    <3>8. Cardinality(Opened(opened', l)) + Cardinality(Opening(call', l)) <= Cardinality(Callers)
      BY <2>2, <2>3, <2>4, <2>5, <3>3, <3>6, <3>7
    <3>. QED  BY <3>1, <3>8 DEF LinkKnown
  <2>7. CASE l # k.link
    <3>1. Opened(opened', l) = Opened(opened, l)  BY <2>7, <1>1, <1>5 DEF Opened
    <3>2. Opening(call', l) = Opening(call, l)  BY <2>7, <1>10, <1>12 DEF Opening
    <3>. QED  BY <2>1, <3>1, <3>2 DEF LinkKnown
  <2>. QED  BY <2>6, <2>7
<1>16. LinkInv'  BY <1>1, <1>14, <1>15 DEF LinkInv
<1>. QED  BY <1>7, <1>8, <1>11, <1>16 DEF AccountInv
-----------------------------------------------------------------------------
(* The invariant. *)

LEMMA InitInv == ASSUME AccountsAssumption, AccountsInit PROVE AccountInv
<1>. DEFINE row == [email |-> AdminEmail, ci |-> FALSE, asked |-> FALSE]
<1>1. row \in UserRow /\ row.email = AdminEmail  BY DEF AccountsAssumption, UserRow
<1>2. /\ users = <<row>> /\ signups = <<>> /\ links = <<>> /\ sessions = {} /\ tokens = {}
      /\ jwts = {1} /\ opened = {} /\ admitted = {Fold(AdminEmail)}
      /\ call = [p \in Callers |-> NoCall]
  BY DEF AccountsInit
<1>. HIDE DEF row
<1>3. users \in Seq(UserRow) /\ DOMAIN users = {1} /\ users[1] = row  BY <1>1, <1>2
<1>4. signups \in Seq(SignupRow) /\ links \in Seq(LinkRow) /\ DOMAIN signups = {} /\ DOMAIN links = {}
  BY <1>2
<1>5. RowInv  BY <1>1, <1>2, <1>3, <1>4 DEF RowInv
<1>6. RefInv  BY <1>2, <1>3 DEF RefInv
<1>7. ReqInv
  <2>1. DOMAIN call = Callers /\ \A p \in Callers : call[p] = NoCall  BY <1>2
  <2>. QED  BY <2>1, IdleKnown DEF ReqInv
<1>8. IsFiniteSet(opened)  BY <1>2, FS_EmptySet
<1>9. LinkInv  BY <1>4, <1>8 DEF LinkInv
<1>. QED  BY <1>5, <1>6, <1>7, <1>9 DEF AccountInv

LEMMA NextInv ==
  ASSUME AccountsAssumption, AccountInv, [AccountsNext]_accountVars
  PROVE  AccountInv'
<1>. IsFiniteSet(Callers)  BY DEF AccountsAssumption
<1>1. CASE UNCHANGED accountVars
  BY <1>1 DEF accountVars, AccountInv, RowInv, RefInv, ReqInv, LinkInv
<1>2. ASSUME NEW p \in Callers, Request(p) PROVE AccountInv'
  BY <1>2, StepSendMagicLink, StepExchangeToken, StepRefreshToken, StepWithAuth DEF Request
<1>3. ASSUME NEW p \in Callers, Authenticated(p) PROVE AccountInv'
  BY <1>3, StepsThatEnd, StepRequestCIAccess, StepCreateToken, StepDeleteToken, StepUpdateSignup,
     StepSetUserCIAccess, StepAddMemberAccount DEF Authenticated
<1>4. ASSUME NEW p \in Callers, Continue(p) PROVE AccountInv'
  BY <1>4, StepSendNeedsApproval, StepSendStore, StepExchangeUse, StepGetOrCreateUser,
     StepExchangeCreate, StepExchangeSession, StepsThatEnd, StepRefreshIssue, StepAddMemberCreate
     DEF Continue
<1>5. ASSUME NEW p \in Callers, CallAborts(p) PROVE AccountInv'
  BY <1>5, StepsThatEnd
<1>6. CASE Environment
  BY <1>6, StepSubmitSignup, StepCleanup, StepLinkExpires, StepSessionExpires,
     StepAccessTokenExpires DEF Environment
<1>. QED  BY <1>1, <1>2, <1>3, <1>4, <1>5, <1>6 DEF AccountsNext

LEMMA AccountInvHolds == ASSUME AccountsAssumption PROVE AccountsSpec => []AccountInv
<1>1. AccountsInit => AccountInv  BY InitInv
<1>2. AccountInv /\ [AccountsNext]_accountVars => AccountInv'  BY NextInv
<1>. QED  BY <1>1, <1>2, PTL DEF AccountsSpec

LEMMA AccountInvMeans ==
  ASSUME AccountsAssumption, AccountInv
  PROVE  AccountsTypeOK /\ AccountsAreAdmitted /\ LinkSessionsBounded
<1>1. AccountsTypeOK
  <2>1. \A u \in DOMAIN users : users[u] \in UserRow  BY DEF AccountInv, RowInv
  <2>2. \A s \in DOMAIN signups : signups[s] \in SignupRow  BY DEF AccountInv, RowInv
  <2>3. \A l \in DOMAIN links : links[l] \in LinkRow  BY DEF AccountInv, RowInv
  <2>4. /\ \A s \in sessions : s.user \in DOMAIN users /\ s.link \in DOMAIN links
        /\ \A t \in tokens : t.user \in DOMAIN users
        /\ jwts \subseteq DOMAIN users
    BY DEF AccountInv, RefInv
  <2>. QED  BY <2>1, <2>2, <2>3, <2>4 DEF AccountsTypeOK, UserRow, SignupRow, LinkRow
<1>2. AccountsAreAdmitted  BY DEF AccountInv, RowInv, AccountsAreAdmitted
<1>3. LinkSessionsBounded
  <2>1. SUFFICES ASSUME NEW l \in DOMAIN links
                 PROVE  Cardinality(Opened(opened, l)) <= Cardinality(Callers)
    BY DEF LinkSessionsBounded, Opened
  <2>2. IsFiniteSet(Callers) /\ Cardinality(Callers) \in Nat
    BY FS_CardinalityType DEF AccountsAssumption
  <2>3. IsFiniteSet(opened) /\ LinkKnown(l, links, opened, call)  BY DEF AccountInv, LinkInv
  <2>4. Cardinality(Opened(opened, l)) \in Nat /\ Cardinality(Opening(call, l)) \in Nat
    BY <2>2, <2>3, OpenedFinite, OpeningFinite
  <2>5. Cardinality(Opened(opened, l)) + Cardinality(Opening(call, l)) <= Cardinality(Callers)
    BY <2>3 DEF LinkKnown
  <2>. QED  BY <2>2, <2>4, <2>5
<1>. QED  BY <1>1, <1>2, <1>3

-----------------------------------------------------------------------------
(* What a step does to users: it adds a row whose address was free, or       *)
(* writes columns of one row, of which the address is none.                  *)

UsersStay == DOMAIN users' = DOMAIN users /\ \A u \in DOMAIN users : users'[u].email = users[u].email

CreateOps == {"ex_create", "am_create"}
Quits(p)  == \E r : CallGoto(p, r) /\ r.op \notin CreateOps
AddedBy(p) ==
    /\ call[p].op \in CreateOps /\ call[p].email \in Emails /\ Fold(call[p].email) \in admitted
    /\ ~EmailTaken(call[p].email)
    /\ users' = Append(users, UserRowOf(call[p].email))
    /\ UNCHANGED <<signups, links, sessions, tokens, jwts, opened, admitted>>
    /\ Quits(p)
UserAdded == \E p \in Callers : AddedBy(p)
CIStays   == \A u \in DOMAIN users : users'[u].ci = users[u].ci

LEMMA UsersUntouched ==
  ASSUME users' = users PROVE UsersStay /\ CIStays
BY DEF UsersStay, CIStays

LEMMA UsersOfRequests ==
  ASSUME NEW p \in Callers, Request(p) \/ CallAborts(p) PROVE users' = users
BY DEF Request, CallAborts, SendMagicLink, ExchangeToken, RefreshToken, WithAuth

LEMMA UsersOfEnvironment ==
  ASSUME Environment PROVE users' = users
BY DEF Environment, SubmitSignup, CleanupExpiredMagicLinks, LinkExpires, SessionExpires,
       AccessTokenExpires

LEMMA UsersOfContinue ==
  ASSUME AccountInv, NEW p \in Callers, Continue(p)
  PROVE  users' = users \/ UserAdded
<1>. DEFINE k == call[p]
<1>1. CASE ExchangeCreate(p)
  <2>. DEFINE r == [op |-> "ex_session", link |-> k.link, user |-> Len(users) + 1]
  <2>1. k.op = "ex_create"  BY <1>1 DEF ExchangeCreate, CallAt
  <2>2. ReqKnown(k, users, links, admitted)  BY DEF AccountInv, ReqInv
  <2>3. r.op \notin CreateOps  BY DEF CreateOps
  <2>4. \/ users' = users
        \/ /\ ~EmailTaken(k.email) /\ users' = Append(users, UserRowOf(k.email)) /\ CallGoto(p, r)
           /\ UNCHANGED <<signups, links, sessions, tokens, jwts, opened, admitted>>
    BY <1>1 DEF ExchangeCreate, CreateUser, UserRowOf
  <2>. HIDE DEF r
  <2>5. k.email \in Emails /\ Fold(k.email) \in admitted /\ k.op \in CreateOps
    BY <2>1, <2>2 DEF ReqKnown, CreateOps
  <2>. QED  BY <2>3, <2>4, <2>5 DEF UserAdded, AddedBy, Quits
<1>2. CASE AddMemberCreate(p)
  <2>1. k.op = "am_create"  BY <1>2 DEF AddMemberCreate, CallAt
  <2>2. ReqKnown(k, users, links, admitted)  BY DEF AccountInv, ReqInv
  <2>3. NoCall.op \notin CreateOps  BY DEF CreateOps, NoCall
  <2>4. /\ ~EmailTaken(k.email) /\ users' = Append(users, UserRowOf(k.email)) /\ CallGoto(p, NoCall)
        /\ UNCHANGED <<signups, links, sessions, tokens, jwts, opened, admitted>>
    BY <1>2 DEF AddMemberCreate, CreateUser, UserRowOf, CallEnds
  <2>5. k.email \in Emails /\ Fold(k.email) \in admitted /\ k.op \in CreateOps
    BY <2>1, <2>2 DEF ReqKnown, CreateOps
  <2>. QED  BY <2>3, <2>4, <2>5 DEF UserAdded, AddedBy, Quits
<1>3. CASE ~ExchangeCreate(p) /\ ~AddMemberCreate(p)
  BY <1>3 DEF Continue, SendNeedsApproval, SendStore, ExchangeUse, GetOrCreateUser,
              ExchangeSession, RefreshDrop, RefreshIssue, DeleteTokenRow
<1>. QED  BY <1>1, <1>2, <1>3

LEMMA UsersOfAuthenticated ==
  ASSUME AccountInv, NEW p \in Callers, Authenticated(p)
  PROVE  /\ UsersStay
         /\ \/ CIStays
            \/ \E u \in DOMAIN users, val \in BOOLEAN : SetUserCIAccess(p, u, val)
<1>1. CASE RequestCIAccess(p)
  <2>1. users' = [users EXCEPT ![call[p].user].asked = TRUE] /\ CallAt(p, "auth")
    BY <1>1 DEF RequestCIAccess, MarkCIRequested
  <2>2. call[p].user \in DOMAIN users  BY <2>1, AuthUser
  <2>. QED  BY <2>1, <2>2, AskedWritten DEF AccountInv, UsersStay, CIStays
<1>2. ASSUME NEW u \in DOMAIN users, NEW val \in BOOLEAN, SetUserCIAccess(p, u, val)
      PROVE  UsersStay
  <2>1. users' = [users EXCEPT ![u].ci = val]  BY <1>2 DEF SetUserCIAccess, UpdateUserCIAccess
  <2>. QED  BY <2>1, CIWritten DEF AccountInv, UsersStay
<1>3. ASSUME ~RequestCIAccess(p), ~\E u \in DOMAIN users, val \in BOOLEAN : SetUserCIAccess(p, u, val)
      PROVE  users' = users
  BY <1>3 DEF Authenticated, Logout, CreateToken, DeleteToken, UpdateSignup, AddMemberAccount
<1>. QED  BY <1>1, <1>2, <1>3, UsersUntouched

LEMMA UsersOfNext ==
  ASSUME AccountInv, [AccountsNext]_accountVars
  PROVE  /\ UsersStay \/ UserAdded
         /\ \/ CIStays
            \/ UserAdded
            \/ \E p \in Callers : \E u \in DOMAIN users : \E val \in BOOLEAN : SetUserCIAccess(p, u, val)
<1>1. CASE UNCHANGED accountVars
  BY <1>1, UsersUntouched DEF accountVars
<1>2. ASSUME NEW p \in Callers, Request(p) \/ CallAborts(p)
      PROVE  UsersStay /\ CIStays
  BY <1>2, UsersOfRequests, UsersUntouched
<1>3. CASE Environment
  BY <1>3, UsersOfEnvironment, UsersUntouched
<1>4. ASSUME NEW p \in Callers, Continue(p)
      PROVE  UserAdded \/ (UsersStay /\ CIStays)
  BY <1>4, UsersOfContinue, UsersUntouched
<1>5. ASSUME NEW p \in Callers, Authenticated(p)
      PROVE  /\ UsersStay
             /\ CIStays \/ \E u \in DOMAIN users : \E val \in BOOLEAN : SetUserCIAccess(p, u, val)
  BY <1>5, UsersOfAuthenticated
<1>. QED  BY <1>1, <1>2, <1>3, <1>4, <1>5 DEF AccountsNext

(* Who is about to insert an account for a mailbox: its steps end a request  *)
(* there or begin one, and one begins only where there is no account yet.    *)

LEMMA QuitsEnds == ASSUME NEW p \in Callers, CallEnds(p) PROVE Quits(p)
<1>1. NoCall.op \notin CreateOps  BY DEF NoCall, CreateOps
<1>. QED  BY <1>1 DEF CallEnds, Quits

LEMMA QuitsRequest == ASSUME NEW p \in Callers, Request(p) \/ CallAborts(p) PROVE Quits(p)
<1>1. ASSUME NEW e, SendMagicLink(p, e) PROVE Quits(p)
  <2>. DEFINE r == [op |-> IF GetUserByEmail(e) = {} THEN "send_signup" ELSE "send_store", email |-> e]
  <2>1. CallGoto(p, r) /\ r.op \notin CreateOps  BY <1>1 DEF SendMagicLink, CallBegin, CreateOps
  <2>. QED  BY <2>1 DEF Quits
<1>2. ASSUME NEW l, ExchangeToken(p, l) PROVE Quits(p)
  <2>1. PICK k : CallGoto(p, [op |-> "ex_use", link |-> l, email |-> k.email])
    BY <1>2 DEF ExchangeToken, CallBegin
  <2>2. [op |-> "ex_use", link |-> l, email |-> k.email].op \notin CreateOps  BY DEF CreateOps
  <2>. QED  BY <2>1, <2>2 DEF Quits
<1>3. ASSUME NEW s, RefreshToken(p, s) PROVE Quits(p)
  <2>. DEFINE r == [op |-> IF s.expired THEN "rf_drop" ELSE "rf_issue", session |-> s.id, user |-> s.user]
  <2>1. CallGoto(p, r) /\ r.op \notin CreateOps  BY <1>3 DEF RefreshToken, CallBegin, CreateOps
  <2>. QED  BY <2>1 DEF Quits
<1>4. ASSUME NEW u, WithAuth(p, u) PROVE Quits(p)
  <2>. DEFINE r == [op |-> "auth", user |-> u, row |-> users[u]]
  <2>1. CallGoto(p, r) /\ r.op \notin CreateOps  BY <1>4 DEF WithAuth, CallBegin, CreateOps
  <2>. QED  BY <2>1 DEF Quits
<1>5. CASE CallAborts(p)
  BY <1>5, QuitsEnds DEF CallAborts
<1>. QED  BY <1>1, <1>2, <1>3, <1>4, <1>5 DEF Request

(* Request p is about to insert an account for a mailbox that has none. *)
Begins(p) ==
    \E e \in Emails :
        /\ GetUserByEmail(e) = {}
        /\ UNCHANGED users
        /\ \E r : CallGoto(p, r) /\ (r.op \in CreateOps => r.email = e)

LEMMA QuitsAuthenticated ==
  ASSUME NEW p \in Callers, Authenticated(p) PROVE Quits(p) \/ Begins(p)
<1>1. ASSUME NEW e \in Emails, AddMemberAccount(p, e) PROVE Quits(p) \/ Begins(p)
  <2>. DEFINE r == [op |-> "am_create", email |-> e]
  <2>1. CallEnds(p) \/ (GetUserByEmail(e) = {} /\ UNCHANGED users /\ CallGoto(p, r))
    BY <1>1 DEF AddMemberAccount
  <2>2. r.email = e  OBVIOUS
  <2>. HIDE DEF r
  <2>. QED  BY <2>1, <2>2, QuitsEnds DEF Begins
<1>2. ASSUME NEW id, DeleteToken(p, id) PROVE Quits(p)
  <2>. DEFINE r == [op |-> "del_token", id |-> id, user |-> call[p].user]
  <2>1. CallGoto(p, r) /\ r.op \notin CreateOps  BY <1>2 DEF DeleteToken, CreateOps
  <2>. QED  BY <2>1 DEF Quits
<1>3. CASE Logout(p) \/ RequestCIAccess(p) \/ CreateToken(p)
  BY <1>3, QuitsEnds DEF Logout, RequestCIAccess, CreateToken
<1>4. ASSUME NEW s, NEW status, UpdateSignup(p, s, status) PROVE Quits(p)
  BY <1>4, QuitsEnds DEF UpdateSignup
<1>5. ASSUME NEW u, NEW val, SetUserCIAccess(p, u, val) PROVE Quits(p)
  BY <1>5, QuitsEnds DEF SetUserCIAccess
<1>. QED  BY <1>1, <1>2, <1>3, <1>4, <1>5 DEF Authenticated

LEMMA QuitsContinue ==
  ASSUME AccountInv, NEW p \in Callers, Continue(p) PROVE Quits(p) \/ Begins(p)
<1>. DEFINE k == call[p]
<1>1. ReqKnown(k, users, links, admitted)  BY DEF AccountInv, ReqInv
<1>2. CASE GetOrCreateUser(p)
  <2>. DEFINE c    == [k EXCEPT !.op = "ex_create"]
              f(u) == [op |-> "ex_session", link |-> k.link, user |-> u]
  <2>1. k.op = "ex_find"  BY <1>2 DEF GetOrCreateUser, CallAt
  <2>2. k.email \in Emails /\ DOMAIN k = {"op", "link", "email"}  BY <1>1, <2>1 DEF ReqKnown
  <2>3. c.email = k.email  BY <2>2
  <2>4. \A u : f(u).op \notin CreateOps  BY DEF CreateOps
  <2>5. (GetUserByEmail(k.email) = {} /\ UNCHANGED users /\ CallGoto(p, c)) \/ \E u : CallGoto(p, f(u))
    BY <1>2 DEF GetOrCreateUser
  <2>. HIDE DEF c, f
  <2>. QED  BY <2>2, <2>3, <2>4, <2>5 DEF Begins, Quits
<1>3. CASE ExchangeUse(p)
  <2>. DEFINE c == [k EXCEPT !.op = "ex_find"]
  <2>1. k.op = "ex_use" /\ CallGoto(p, c)  BY <1>3 DEF ExchangeUse, CallAt
  <2>2. DOMAIN k = {"op", "link", "email"}  BY <1>1, <2>1 DEF ReqKnown
  <2>3. c.op \notin CreateOps  BY <2>2 DEF CreateOps
  <2>. QED  BY <2>1, <2>3 DEF Quits
<1>4. CASE ExchangeCreate(p)
  <2>. DEFINE r == [op |-> "ex_session", link |-> k.link, user |-> Len(users) + 1]
  <2>1. CallGoto(p, r) \/ CallEnds(p)  BY <1>4 DEF ExchangeCreate
  <2>2. r.op \notin CreateOps  BY DEF CreateOps
  <2>. QED  BY <2>1, <2>2, QuitsEnds DEF Quits
<1>5. CASE SendNeedsApproval(p)
  <2>. DEFINE r == [op |-> "send_store", email |-> k.email]
  <2>1. CallGoto(p, r) \/ CallEnds(p)  BY <1>5 DEF SendNeedsApproval
  <2>2. r.op \notin CreateOps  BY DEF CreateOps
  <2>. QED  BY <2>1, <2>2, QuitsEnds DEF Quits
<1>6. CASE \/ SendStore(p) \/ ExchangeSession(p) \/ RefreshDrop(p) \/ RefreshIssue(p)
           \/ DeleteTokenRow(p) \/ AddMemberCreate(p)
  BY <1>6, QuitsEnds
     DEF SendStore, ExchangeSession, RefreshDrop, RefreshIssue, DeleteTokenRow, AddMemberCreate
<1>. QED  BY <1>2, <1>3, <1>4, <1>5, <1>6 DEF Continue

LEMMA CreatingOfNext ==
  ASSUME AccountInv, [AccountsNext]_accountVars
  PROVE  \/ UsersStay /\ (call' = call \/ \E p \in Callers : Quits(p))
         \/ \E p \in Callers : Begins(p)
         \/ UserAdded
<1>1. CASE UNCHANGED accountVars
  BY <1>1, UsersUntouched DEF accountVars
<1>2. ASSUME NEW p \in Callers, Request(p) \/ CallAborts(p)
      PROVE  UsersStay /\ Quits(p)
  BY <1>2, UsersOfRequests, UsersUntouched, QuitsRequest
<1>3. CASE Environment
  BY <1>3, UsersOfEnvironment, UsersUntouched
     DEF Environment, SubmitSignup, CleanupExpiredMagicLinks, LinkExpires, SessionExpires,
         AccessTokenExpires
<1>4. ASSUME NEW p \in Callers, Continue(p)
      PROVE  UserAdded \/ Begins(p) \/ (UsersStay /\ Quits(p))
  BY <1>4, UsersOfContinue, UsersUntouched, QuitsContinue
<1>5. ASSUME NEW p \in Callers, Authenticated(p)
      PROVE  Begins(p) \/ (UsersStay /\ Quits(p))
  BY <1>5, UsersOfAuthenticated, QuitsAuthenticated
<1>. QED  BY <1>1, <1>2, <1>3, <1>4, <1>5 DEF AccountsNext

-----------------------------------------------------------------------------
(* The accounts of a mailbox. GetOrCreateUser looks for one and inserts it   *)
(* in two statements. Where the column ignores case (0001_init.sql, on       *)
(* SQLite) there is one; where it does not (Postgres), an account and a      *)
(* request that is about to insert one each stand for a request that saw     *)
(* none, and nobody starts to insert where there is one.                     *)

Accs(us, f)     == {u \in DOMAIN us : Fold(us[u].email) = f}
Creating(rq, f) == {p \in Callers : rq[p].op \in CreateOps /\ Fold(rq[p].email) = f}
MailKnown(us, rq, f) ==
    /\ IsFiniteSet(Accs(us, f))
    /\ Cardinality(Accs(us, f)) + Cardinality(Creating(rq, f)) <= Cardinality(Callers)
OneEach(us) ==
    \A u, v \in DOMAIN us : Fold(us[u].email) = Fold(us[v].email) => u = v
MailInv ==
    /\ \A e \in Emails : MailKnown(users, call, Fold(e))
    /\ NoCaseEmails => OneEach(users)

LEMMA CreatingFinite ==
  ASSUME IsFiniteSet(Callers), NEW rq, NEW f
  PROVE  /\ IsFiniteSet(Creating(rq, f))
         /\ Cardinality(Creating(rq, f)) \in Nat
         /\ Cardinality(Creating(rq, f)) <= Cardinality(Callers)
         /\ Cardinality(Callers) \in Nat
<1>1. Creating(rq, f) \subseteq Callers  BY DEF Creating
<1>2. IsFiniteSet(Creating(rq, f)) /\ Cardinality(Creating(rq, f)) <= Cardinality(Callers)
  BY <1>1, FS_Subset
<1>. QED  BY <1>2, FS_CardinalityType

LEMMA MailShrinks ==
  ASSUME IsFiniteSet(Callers), NEW f, MailKnown(users, call, f),
         Accs(users', f) = Accs(users, f), Creating(call', f) \subseteq Creating(call, f)
  PROVE  MailKnown(users', call', f)
<1>1. Cardinality(Creating(call', f)) <= Cardinality(Creating(call, f))
  BY CreatingFinite, FS_Subset
<1>2. Cardinality(Accs(users, f)) \in Nat  BY FS_CardinalityType DEF MailKnown
<1>. QED  BY <1>1, <1>2, CreatingFinite DEF MailKnown

LEMMA CreatingQuits ==
  ASSUME AccountInv, NEW p \in Callers, Quits(p), NEW f
  PROVE  Creating(call', f) = Creating(call, f) \ {p}
<1>1. PICK r : CallGoto(p, r) /\ r.op \notin CreateOps  BY DEF Quits
<1>2. DOMAIN call' = Callers /\ call'[p] = r /\ \A q \in Callers \ {p} : call'[q] = call[q]
  BY <1>1, CallGotoFacts DEF AccountInv
<1>. QED  BY <1>1, <1>2 DEF Creating

LEMMA MailInit == ASSUME AccountsAssumption, AccountsInit PROVE MailInv
<1>1. IsFiniteSet(Callers) /\ Callers # {}  BY DEF AccountsAssumption
<1>2. Cardinality(Callers) \in Nat /\ Cardinality(Callers) # 0
  BY <1>1, FS_CardinalityType, FS_EmptySet
<1>3. DOMAIN users = {1}  BY DEF AccountsInit
<1>4. ASSUME NEW e \in Emails PROVE MailKnown(users, call, Fold(e))
  <2>1. Accs(users, Fold(e)) \subseteq {1}  BY <1>3 DEF Accs
  <2>2. IsFiniteSet({1}) /\ Cardinality({1}) = 1  BY FS_Singleton
  <2>3. IsFiniteSet(Accs(users, Fold(e))) /\ Cardinality(Accs(users, Fold(e))) <= 1
    BY <2>1, <2>2, FS_Subset
  <2>4. \A p \in Callers : call[p] = NoCall  BY DEF AccountsInit
  <2>5. NoCall.op \notin CreateOps  BY DEF NoCall, CreateOps
  <2>6. Creating(call, Fold(e)) = {}  BY <2>4, <2>5 DEF Creating
  <2>7. Cardinality(Creating(call, Fold(e))) = 0  BY <2>6, FS_EmptySet
  <2>8. Cardinality(Accs(users, Fold(e))) \in Nat  BY <2>3, FS_CardinalityType
  <2>. QED  BY <1>2, <2>3, <2>7, <2>8 DEF MailKnown
<1>5. OneEach(users)  BY <1>3 DEF OneEach
<1>. QED  BY <1>4, <1>5 DEF MailInv

LEMMA MailStep ==
  ASSUME AccountsAssumption, AccountInv, MailInv, [AccountsNext]_accountVars
  PROVE  MailInv'
<1>. IsFiniteSet(Callers)  BY DEF AccountsAssumption
<1>1. CASE UsersStay /\ (call' = call \/ \E p \in Callers : Quits(p))
  <2>1. ASSUME NEW e \in Emails PROVE MailKnown(users', call', Fold(e))
    <3>1. Accs(users', Fold(e)) = Accs(users, Fold(e))  BY <1>1 DEF UsersStay, Accs
    <3>2. Creating(call', Fold(e)) \subseteq Creating(call, Fold(e))  BY <1>1, CreatingQuits
    <3>. QED  BY <3>1, <3>2, MailShrinks DEF MailInv
  <2>2. OneEach(users) => OneEach(users')  BY <1>1 DEF UsersStay, OneEach
  <2>. QED  BY <2>1, <2>2 DEF MailInv
<1>2. ASSUME NEW p \in Callers, Begins(p) PROVE MailInv'
  <2>1. PICK c \in Emails :
          GetUserByEmail(c) = {} /\ users' = users /\ \E r : CallGoto(p, r) /\ (r.op \in CreateOps => r.email = c)
    BY <1>2 DEF Begins
  <2>2. PICK r : CallGoto(p, r) /\ (r.op \in CreateOps => r.email = c)  BY <2>1
  <2>3. DOMAIN call' = Callers /\ call'[p] = r /\ \A q \in Callers \ {p} : call'[q] = call[q]
    BY <2>2, CallGotoFacts DEF AccountInv
  <2>4. ASSUME NEW e \in Emails PROVE MailKnown(users', call', Fold(e))
    <3>1. CASE Fold(e) = Fold(c)
      <4>1. Accs(users', Fold(e)) = {}  BY <2>1, <3>1 DEF Accs, GetUserByEmail
      <4>2. IsFiniteSet(Accs(users', Fold(e))) /\ Cardinality(Accs(users', Fold(e))) = 0
        BY <4>1, FS_EmptySet
      <4>. QED  BY <4>2, CreatingFinite DEF MailKnown
    <3>2. CASE Fold(e) # Fold(c)
      <4>1. Creating(call', Fold(e)) \subseteq Creating(call, Fold(e))  BY <2>2, <2>3, <3>2 DEF Creating
      <4>. QED  BY <2>1, <4>1, MailShrinks DEF MailInv
    <3>. QED  BY <3>1, <3>2
  <2>. QED  BY <2>1, <2>4 DEF MailInv
<1>3. ASSUME NEW p \in Callers, AddedBy(p) PROVE MailInv'
  <2>. DEFINE c == call[p].email
              n == Len(users) + 1
  <2>1. /\ call[p].op \in CreateOps /\ c \in Emails /\ Fold(c) \in admitted /\ ~EmailTaken(c)
        /\ users' = Append(users, UserRowOf(c)) /\ Quits(p)
        /\ UNCHANGED <<signups, links, sessions, tokens, jwts, opened, admitted>>
    BY <1>3 DEF AddedBy
  <2>2. /\ DOMAIN users' = DOMAIN users \cup {n} /\ n \notin DOMAIN users
        /\ users'[n] = UserRowOf(c) /\ \A i \in DOMAIN users : users'[i] = users[i]
    BY <2>1, UserAppended
  <2>3. UserRowOf(c).email = c  BY DEF UserRowOf
  <2>4. p \in Creating(call, Fold(c))  BY <2>1 DEF Creating
  <2>. HIDE DEF c, n
  <2>5. ASSUME NEW e \in Emails PROVE MailKnown(users', call', Fold(e))
    <3>1. CASE Fold(e) = Fold(c)
      <4>1. Accs(users', Fold(e)) = Accs(users, Fold(e)) \cup {n} /\ n \notin Accs(users, Fold(e))
        BY <2>2, <2>3, <3>1 DEF Accs
      <4>2. MailKnown(users, call, Fold(e))  BY DEF MailInv
      <4>3. /\ IsFiniteSet(Accs(users', Fold(e)))
            /\ Cardinality(Accs(users', Fold(e))) = Cardinality(Accs(users, Fold(e))) + 1
        BY <4>1, <4>2, FS_AddElement DEF MailKnown
      <4>4. Creating(call', Fold(e)) = Creating(call, Fold(e)) \ {p}  BY <2>1, CreatingQuits
      <4>5. Cardinality(Creating(call', Fold(e))) = Cardinality(Creating(call, Fold(e))) - 1
        BY <2>4, <3>1, <4>4, CreatingFinite, FS_RemoveElement
      <4>6. Cardinality(Accs(users, Fold(e))) \in Nat  BY <4>2, FS_CardinalityType DEF MailKnown
      <4>. QED  BY <4>2, <4>3, <4>5, <4>6, CreatingFinite DEF MailKnown
    <3>2. CASE Fold(e) # Fold(c)
      <4>1. Accs(users', Fold(e)) = Accs(users, Fold(e))  BY <2>2, <2>3, <3>2 DEF Accs
      <4>2. Creating(call', Fold(e)) \subseteq Creating(call, Fold(e))  BY <2>1, CreatingQuits
      <4>. QED  BY <4>1, <4>2, MailShrinks DEF MailInv
    <3>. QED  BY <3>1, <3>2
  <2>6. ASSUME NoCaseEmails PROVE OneEach(users')
    <3>1. \A u \in DOMAIN users : Fold(users[u].email) # Fold(c)  BY <2>1, <2>6 DEF EmailTaken
    <3>2. OneEach(users)  BY <2>6 DEF MailInv
    <3>. QED  BY <2>2, <2>3, <3>1, <3>2 DEF OneEach
  <2>. QED  BY <2>5, <2>6 DEF MailInv
<1>. QED  BY <1>1, <1>2, <1>3, CreatingOfNext DEF UserAdded

LEMMA MailMeans ==
  ASSUME AccountsAssumption, AccountInv, MailInv
  PROVE  FewAccountsPerMailbox
<1>1. SUFFICES ASSUME NEW u \in DOMAIN users
               PROVE  LET same == {v \in DOMAIN users : Fold(users[v].email) = Fold(users[u].email)}
                      IN /\ Cardinality(same) <= Cardinality(Callers)
                         /\ NoCaseEmails => same = {u}
  BY DEF FewAccountsPerMailbox
<1>. DEFINE f == Fold(users[u].email)
<1>2. users[u] \in UserRow  BY DEF AccountInv, RowInv
<1>3. users[u].email \in Emails  BY <1>2 DEF UserRow
<1>4. MailKnown(users, call, f)  BY <1>3 DEF MailInv
<1>5. IsFiniteSet(Callers)  BY DEF AccountsAssumption
<1>6. Cardinality(Accs(users, f)) \in Nat  BY <1>4, FS_CardinalityType DEF MailKnown
<1>7. Cardinality(Accs(users, f)) <= Cardinality(Callers)
  BY <1>4, <1>5, <1>6, CreatingFinite DEF MailKnown
<1>8. NoCaseEmails => Accs(users, f) = {u}  BY DEF MailInv, OneEach, Accs
<1>. QED  BY <1>7, <1>8 DEF Accs

(* Logins are sound: accounts whose address was approved or invited, one for *)
(* each mailbox where the column ignores case and never more than there are  *)
(* requests at once where it does not, and sessions of a link that do not    *)
(* multiply (auth.go, db.go, orgs.go).                                       *)
THEOREM LoginsHold ==
  ASSUME AccountsAssumption
  PROVE  AccountsSpec => []LoginsAreSound
<1>1. AccountsSpec => []AccountInv  BY AccountInvHolds
<1>2. AccountsInit => MailInv  BY MailInit
<1>3. AccountInv /\ MailInv /\ [AccountsNext]_accountVars => MailInv'  BY MailStep
<1>4. AccountsSpec => []MailInv  BY <1>1, <1>2, <1>3, PTL DEF AccountsSpec
<1>5. AccountInv /\ MailInv => LoginsAreSound  BY AccountInvMeans, MailMeans DEF LoginsAreSound
<1>. QED  BY <1>1, <1>4, <1>5, PTL

-----------------------------------------------------------------------------
(* Grants of CI access. *)

LEMMA GrantStep ==
  ASSUME AccountInv, [AccountsNext]_accountVars, NEW u \in DOMAIN users, users[u].ci, ~users'[u].ci
  PROVE  \E p \in Callers : CallAt(p, "auth") /\ IsAdmin(p) /\ SetUserCIAccess(p, u, FALSE)
<1>1. CASE CIStays
  BY <1>1 DEF CIStays
<1>2. CASE UserAdded
  <2>1. PICK p \in Callers : AddedBy(p)  BY <1>2 DEF UserAdded
  <2>2. users'[u] = users[u]  BY <2>1, UserAppended DEF AddedBy
  <2>. QED  BY <2>2
<1>3. ASSUME NEW p \in Callers, NEW v \in DOMAIN users, NEW val \in BOOLEAN, SetUserCIAccess(p, v, val)
      PROVE  CallAt(p, "auth") /\ IsAdmin(p) /\ SetUserCIAccess(p, u, FALSE)
  <2>1. users' = [users EXCEPT ![v].ci = val] /\ CallAt(p, "auth") /\ IsAdmin(p)
    BY <1>3 DEF SetUserCIAccess, UpdateUserCIAccess
  <2>2. /\ \A w \in DOMAIN users : w # v => users'[w] = users[w]
        /\ users'[v].ci = val
    BY <2>1, CIWritten DEF AccountInv
  <2>3. u = v  BY <2>2
  <2>4. val = FALSE  BY <2>2, <2>3
  <2>. QED  BY <1>3, <2>1, <2>3, <2>4
<1>. QED  BY <1>1, <1>2, <1>3, UsersOfNext

(* A grant of CI access is taken back by an administrator only: the row a    *)
(* user's own request has read may be old when RequestCIAccess (auth.go,     *)
(* db.go) writes its column.                                                 *)
THEOREM GrantsHold == ASSUME AccountsAssumption PROVE AccountsSpec => GrantsAreKept
<1>1. AccountsSpec => []AccountInv  BY AccountInvHolds
<1>2. AccountInv /\ [AccountsNext]_accountVars =>
        [\A u \in DOMAIN users :
          users[u].ci /\ ~users'[u].ci
            => \E p \in Callers : CallAt(p, "auth") /\ IsAdmin(p) /\ SetUserCIAccess(p, u, FALSE)]_accountVars
  BY GrantStep
<1>. QED  BY <1>1, <1>2, PTL DEF AccountsSpec, GrantsAreKept
=============================================================================
