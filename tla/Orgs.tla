--------------------------------- MODULE Orgs ---------------------------------
(***************************************************************************)
(* Organisations of the control plane: orgs and their members, the rows of *)
(* repositories, SSH keys, webhooks and their deliveries, the two ways in  *)
(* (the HTTP proxy and the SSH key check), and the handles that a data-    *)
(* plane shard keeps for repositories on Postgres (PgRegistry), where both *)
(* planes share the table of repositories.                                 *)
(*                                                                         *)
(* A request reads the org, the membership and the repository first and    *)
(* acts on what it has read; every SQL statement and every call to the     *)
(* shard is one step, and each may fail (OrgAbort).                        *)
(***************************************************************************)
EXTENDS Naturals, Sequences, FiniteSets

CONSTANTS
    Procs,          \* requests that are handled at the same time
    Slugs, Names, Keys, Urls,
    Users,          \* accounts, those that AddMember makes for new addresses included
    NoUser,         \* no user
    MaxRepos, MaxHooks, MaxDeliveries, MaxRequests, MaxCrashes   \* bounds

OrgsAssumption == NoUser \notin Users

VARIABLES
    orgs,       \* slug -> org.owner_id, NoUser while the org does not exist
    role,       \* memberships: slug -> user -> role or "none"
    repoRows,      \* rows of repoRows in the order of creation; live = not deleted
    keys,       \* ssh_keys: fingerprint -> user_id or NoUser
    hooks,      \* rows of webhooks
    deliveries, \* rows of webhook_deliveries; lost (history): the UPDATE that
                \* should have recorded the outcome has failed
    senders,    \* ids of deliveries whose goroutine is running
    handles,    \* PgRegistry.repos of the shard: <<slug, name>> -> repo id
    asked,        \* what each request is doing
    count,      \* requests, hooks, deliveries and crashes so far
    cut         \* history: orgs whose creation stopped after its first INSERT

orgVars == <<orgs, role, repoRows, keys, hooks, deliveries, senders, handles, asked, count, cut>>

Visibilities == {"private", "public", "internal"}
NoRequest  == [op |-> "idle"]
NoId  == 0

-----------------------------------------------------------------------------
(* Roles and permissions. *)

RoleHierarchy == <<"guest", "reporter", "developer", "maintainer", "admin", "owner">>
Roles == {RoleHierarchy[i] : i \in 1..6}

HasAtLeastRole(have, want) ==
    \E i, j \in 1..6 : RoleHierarchy[i] = have /\ RoleHierarchy[j] = want /\ i >= j

roleToPermission(r) ==
    CASE r \in {"owner", "admin"}          -> "admin"
      [] r \in {"maintainer", "developer"} -> "write"
      [] OTHER                             -> "read"

Row(o, n) == {i \in DOMAIN repoRows : repoRows[i].live /\ repoRows[i].org = o /\ repoRows[i].name = n}

GetMembership(o, u) == role[o][u]

(* VerifySSHKey: what a key may do with a repository.  broken: the query   *)
(* of the membership fails.                                                *)
VerifySSHKey(k, o, n, broken) ==
    IF keys[k] = NoUser \/ orgs[o] = NoUser \/ Row(o, n) = {} \/ broken THEN "denied"
    ELSE LET r == GetMembership(o, keys[k]) IN
         IF r # "none" THEN roleToPermission(r)
         ELSE IF \E i \in Row(o, n) : repoRows[i].vis = "public" THEN "read" ELSE "denied"

(* ProxyHandler: whether a request with a full-scope token is forwarded.   *)
(* Only the answer "not a member" is refused: when the query of the        *)
(* membership fails, there is no role to compare and the request goes on.  *)
ProxyHandler(u, o, n, isReadOnly, broken) ==
    /\ Row(o, n) # {}
    /\ LET isPublic == \E i \in Row(o, n) : repoRows[i].vis = "public" IN
         IF u = NoUser THEN isPublic /\ isReadOnly
         ELSE broken \/
              LET r == GetMembership(o, u) IN
              IF r = "none" THEN isPublic /\ isReadOnly
              ELSE HasAtLeastRole(r, IF isReadOnly THEN "reporter" ELSE "developer")

-----------------------------------------------------------------------------
(* Requests. *)

OrgGoto(p, r) == asked' = [asked EXCEPT ![p] = r]
OrgFinish(p)  == OrgGoto(p, NoRequest)
OrgAt(p, op)  == asked[p].op = op
Count(f)   == count' = [count EXCEPT ![f] = @ + 1]
OrgBegin(p, r) ==
    /\ asked[p] = NoRequest
    /\ count.requests < MaxRequests
    /\ Count("requests")
    /\ OrgGoto(p, r)
AsRole(p, want) == HasAtLeastRole(asked[p].role, want)

(* A statement or a call fails, or the request is refused: nothing of what *)
(* it has done is undone.                                                  *)
OrgAbort(p) ==
    /\ asked[p] # NoRequest
    /\ cut' = cut \cup (IF OrgAt(p, "org_member") THEN {asked[p].org} ELSE {})
    /\ OrgFinish(p)
    /\ UNCHANGED <<orgs, role, repoRows, keys, hooks, deliveries, senders, handles, count>>

(* The control plane stops: requests and delivery goroutines are gone. *)
Crash ==
    /\ count.crashes < MaxCrashes
    /\ Count("crashes")
    /\ cut' = cut \cup {asked[p].org : p \in {q \in Procs : OrgAt(q, "org_member")}}
    /\ asked' = [p \in Procs |-> NoRequest]
    /\ senders' = {}
    /\ UNCHANGED <<orgs, role, repoRows, keys, hooks, deliveries, handles>>

(* CreateOrg: the org's row, then the owner's membership, in two           *)
(* statements without a transaction.                                       *)
CreateOrg(p, u, o) ==
    /\ orgs[o] = NoUser
    /\ OrgBegin(p, [op |-> "org_member", org |-> o, user |-> u])
    /\ orgs' = [orgs EXCEPT ![o] = u]
    /\ UNCHANGED <<role, repoRows, keys, hooks, deliveries, senders, handles, cut>>

CreateOrgMember(p) ==
    /\ OrgAt(p, "org_member")
    /\ role' = [role EXCEPT ![asked[p].org][asked[p].user] = "owner"]
    /\ OrgFinish(p)
    /\ UNCHANGED <<orgs, repoRows, keys, hooks, deliveries, senders, handles, count, cut>>

(* WithOrg and RequireMembership: the org and the caller's role are read   *)
(* once, before the handler runs.                                          *)
RequireMembership(p, u, o) ==
    /\ orgs[o] # NoUser
    /\ GetMembership(o, u) # "none"
    /\ OrgBegin(p, [op |-> "member", user |-> u, org |-> o, role |-> GetMembership(o, u)])
    /\ UNCHANGED <<orgs, role, repoRows, keys, hooks, deliveries, senders, handles, cut>>

(* GetOrCreateUser finds the account of the address or makes one, approved *)
(* or not (AddMemberAccount of the module Accounts).                       *)
AddMember(p, u, r) ==
    /\ OrgAt(p, "member")
    /\ AsRole(p, "admin")
    /\ OrgGoto(p, [op |-> "add_member", org |-> asked[p].org, user |-> u, role |-> r])
    /\ UNCHANGED <<orgs, role, repoRows, keys, hooks, deliveries, senders, handles, count, cut>>

(* The upsert replaces whatever role the user had, the owner's included. *)
AddMemberRow(p) ==
    /\ OrgAt(p, "add_member")
    /\ role' = [role EXCEPT ![asked[p].org][asked[p].user] = asked[p].role]
    /\ OrgFinish(p)
    /\ UNCHANGED <<orgs, repoRows, keys, hooks, deliveries, senders, handles, count, cut>>

RemoveMember(p, u) ==
    /\ OrgAt(p, "member")
    /\ AsRole(p, "admin")
    /\ u # orgs[asked[p].org]
    /\ role' = [role EXCEPT ![asked[p].org][u] = "none"]
    /\ OrgFinish(p)
    /\ UNCHANGED <<orgs, repoRows, keys, hooks, deliveries, senders, handles, count, cut>>

-----------------------------------------------------------------------------
(* Repositories. *)

NameFree(o, n, id) == Row(o, n) \subseteq {id}     \* UNIQUE (org_id, name)

CreateRepo(p, n, vis) ==
    /\ OrgAt(p, "member")
    /\ AsRole(p, "developer")
    /\ Len(repoRows) < MaxRepos
    /\ NameFree(asked[p].org, n, NoId)
    /\ repoRows' = Append(repoRows, [org |-> asked[p].org, name |-> n, vis |-> vis, live |-> TRUE])
    /\ OrgGoto(p, [op |-> "get", org |-> asked[p].org, name |-> n])     \* provision on the shard
    /\ UNCHANGED <<orgs, role, keys, hooks, deliveries, senders, handles, count, cut>>

WithRepo(p, n) ==
    /\ OrgAt(p, "member")
    /\ \E i \in Row(asked[p].org, n) :
         OrgGoto(p, [op |-> "repo", user |-> asked[p].user, org |-> asked[p].org,
                  role |-> asked[p].role, id |-> i, row |-> repoRows[i]])
    /\ UNCHANGED <<orgs, role, repoRows, keys, hooks, deliveries, senders, handles, count, cut>>

(* Both columns are written, each from the request or else from the row    *)
(* read before; the shard is not told of a new name.                       *)
UpdateRepo(p, n, vis) ==
    /\ OrgAt(p, "repo")
    /\ AsRole(p, "admin")
    /\ repoRows[asked[p].id].live
    /\ NameFree(asked[p].org, n, asked[p].id)
    /\ n = asked[p].row.name \/ vis = asked[p].row.vis
    /\ repoRows' = [repoRows EXCEPT ![asked[p].id].name = n, ![asked[p].id].vis = vis]
    /\ OrgFinish(p)
    /\ UNCHANGED <<orgs, role, keys, hooks, deliveries, senders, handles, count, cut>>

(* DeleteRepo calls the shard first and goes on when the call fails.       *)
(* PgRegistry.Delete drops the handle; its DELETE statements compare the   *)
(* repo_id with "org/name", which no row has.                              *)
DeleteRepo(p) ==
    /\ OrgAt(p, "repo")
    /\ AsRole(p, "admin")
    /\ \/ handles' = [handles EXCEPT ![<<asked[p].org, asked[p].row.name>>] = NoId]
       \/ UNCHANGED handles
    /\ OrgGoto(p, [op |-> "delete_row", id |-> asked[p].id])
    /\ UNCHANGED <<orgs, role, repoRows, keys, hooks, deliveries, senders, count, cut>>

(* ON DELETE CASCADE takes the webhooks and their deliveries along. *)
DeleteRepoRow(p) ==
    /\ OrgAt(p, "delete_row")
    /\ repoRows' = [repoRows EXCEPT ![asked[p].id].live = FALSE]
    /\ hooks' = {h \in hooks : h.repo # asked[p].id}
    /\ deliveries' = {d \in deliveries : d.repo # asked[p].id}
    /\ OrgFinish(p)
    /\ UNCHANGED <<orgs, role, keys, senders, handles, count, cut>>

-----------------------------------------------------------------------------
(* The shard: PgRegistry.Get answers from its map, or reads the row and    *)
(* then, in a second step, stores the handle. Create is Get.               *)

Push(p, o, n) ==
    /\ OrgBegin(p, [op |-> "get", org |-> o, name |-> n])
    /\ UNCHANGED <<orgs, role, repoRows, keys, hooks, deliveries, senders, handles, cut>>

(* Mutant: the query has lost its join with orgs. *)
RowOfAnyOrg(o, n) == {i \in DOMAIN repoRows : repoRows[i].live /\ repoRows[i].name = n}

RowForGet(o, n) == Row(o, n)

GetHandle(p) ==
    /\ OrgAt(p, "get")
    /\ handles[<<asked[p].org, asked[p].name>>] = NoId
    /\ \E i \in RowForGet(asked[p].org, asked[p].name) :
         OrgGoto(p, [op |-> "got", org |-> asked[p].org, name |-> asked[p].name, id |-> i])
    /\ UNCHANGED <<orgs, role, repoRows, keys, hooks, deliveries, senders, handles, count, cut>>

GetCached(p) ==
    /\ OrgAt(p, "get")
    /\ handles[<<asked[p].org, asked[p].name>>] # NoId
    /\ OrgFinish(p)
    /\ UNCHANGED <<orgs, role, repoRows, keys, hooks, deliveries, senders, handles, count, cut>>

StoreHandle(p) ==
    /\ OrgAt(p, "got")
    /\ handles' = [handles EXCEPT ![<<asked[p].org, asked[p].name>>] = asked[p].id]
    /\ OrgFinish(p)
    /\ UNCHANGED <<orgs, role, repoRows, keys, hooks, deliveries, senders, count, cut>>

-----------------------------------------------------------------------------
(* SSH keys: the fingerprint is unique, and only its user deletes a key. *)

CreateSSHKey(u, k) ==
    /\ keys[k] = NoUser
    /\ keys' = [keys EXCEPT ![k] = u]
    /\ UNCHANGED <<orgs, role, repoRows, hooks, deliveries, senders, handles, asked, count, cut>>

DeleteSSHKey(u, k) ==
    /\ keys[k] = u
    /\ keys' = [keys EXCEPT ![k] = NoUser]
    /\ UNCHANGED <<orgs, role, repoRows, hooks, deliveries, senders, handles, asked, count, cut>>

-----------------------------------------------------------------------------
(* Webhooks. Their handlers want a maintainer and read the repository's    *)
(* and the webhook's row before they write.                                *)

CreateWebhook(p, url) ==
    /\ OrgAt(p, "repo")
    /\ AsRole(p, "maintainer")
    /\ repoRows[asked[p].id].live
    /\ count.hooks < MaxHooks
    /\ hooks' = hooks \cup {[id |-> count.hooks + 1, repo |-> asked[p].id, url |-> url, active |-> TRUE]}
    /\ Count("hooks")
    /\ OrgFinish(p)
    /\ UNCHANGED <<orgs, role, repoRows, keys, deliveries, senders, handles, cut>>

GetWebhookByID(p, h) ==
    /\ OrgAt(p, "repo")
    /\ AsRole(p, "maintainer")
    /\ h \in hooks
    /\ h.repo = asked[p].id
    /\ OrgGoto(p, [op |-> "hook", hook |-> h])
    /\ UNCHANGED <<orgs, role, repoRows, keys, hooks, deliveries, senders, handles, count, cut>>

(* The whole row is written; the columns that the request leaves out get   *)
(* the values read before.                                                 *)
UpdateWebhook(p, url, active) ==
    /\ OrgAt(p, "hook")
    /\ url = asked[p].hook.url \/ active = asked[p].hook.active
    /\ hooks' = {IF h.id = asked[p].hook.id THEN [h EXCEPT !.url = url, !.active = active] ELSE h : h \in hooks}
    /\ OrgFinish(p)
    /\ UNCHANGED <<orgs, role, repoRows, keys, deliveries, senders, handles, count, cut>>

DeleteWebhook(p) ==
    /\ OrgAt(p, "hook")
    /\ hooks' = {h \in hooks : h.id # asked[p].hook.id}
    /\ deliveries' = {d \in deliveries : d.hook # asked[p].hook.id}
    /\ OrgFinish(p)
    /\ UNCHANGED <<orgs, role, repoRows, keys, senders, handles, count, cut>>

(* TriggerWebhooks lists the active webhooks of the repository, then, for  *)
(* each of them, stores a delivery and starts a goroutine that sends it.   *)
ListActiveWebhooksForEvent(i) == {h \in hooks : h.repo = i /\ h.active}

TriggerWebhooks(p, o, n) ==
    /\ \E i \in Row(o, n) :
         OrgBegin(p, [op |-> "trigger", todo |-> ListActiveWebhooksForEvent(i)])
    /\ UNCHANGED <<orgs, role, repoRows, keys, hooks, deliveries, senders, handles, cut>>

(* The INSERT fails for a webhook that is gone (foreign key). *)
CreateWebhookDelivery(p) ==
    /\ OrgAt(p, "trigger")
    /\ \E h \in asked[p].todo :
         /\ OrgGoto(p, IF asked[p].todo = {h} THEN NoRequest ELSE [asked[p] EXCEPT !.todo = @ \ {h}])
         /\ IF \E g \in hooks : g.id = h.id
            THEN /\ count.deliveries < MaxDeliveries
                 /\ Count("deliveries")
                 /\ LET id == count.deliveries + 1 IN
                      /\ deliveries' = deliveries \cup
                           {[id |-> id, hook |-> h.id, repo |-> h.repo, status |-> "pending",
                             lost |-> FALSE]}
                      /\ senders' = senders \cup {id}
            ELSE UNCHANGED <<deliveries, senders, count>>
    /\ UNCHANGED <<orgs, role, repoRows, keys, hooks, handles, cut>>

(* Mutant: a request that cannot be built or sent is not recorded. *)
deliverWebhookQuietly(id) ==
    /\ senders' = senders \ {id}
    /\ \/ deliveries' = {IF d.id = id THEN [d EXCEPT !.status = "success"] ELSE d : d \in deliveries}
       \/ UNCHANGED deliveries
    /\ UNCHANGED <<orgs, role, repoRows, keys, hooks, handles, asked, count, cut>>

(* The answer, or the lack of one, is recorded, unless the UPDATE fails,   *)
(* of which nobody takes notice; nothing is tried again.                   *)
deliverWebhook(id) ==
    /\ senders' = senders \ {id}
    /\ \/ \E status \in {"success", "failed"} :
            deliveries' = {IF d.id = id THEN [d EXCEPT !.status = status] ELSE d : d \in deliveries}
       \/ deliveries' = {IF d.id = id THEN [d EXCEPT !.lost = TRUE] ELSE d : d \in deliveries}
    /\ UNCHANGED <<orgs, role, repoRows, keys, hooks, handles, asked, count, cut>>

-----------------------------------------------------------------------------
OrgsInit ==
    /\ orgs = [o \in Slugs |-> NoUser]
    /\ role = [o \in Slugs |-> [u \in Users |-> "none"]]
    /\ repoRows = <<>>
    /\ keys = [k \in Keys |-> NoUser]
    /\ hooks = {}
    /\ deliveries = {}
    /\ senders = {}
    /\ handles = [x \in Slugs \X Names |-> NoId]
    /\ asked = [p \in Procs |-> NoRequest]
    /\ count = [requests |-> 0, hooks |-> 0, deliveries |-> 0, crashes |-> 0]
    /\ cut = {}

OrgStep(p) ==
    \/ \E u \in Users, o \in Slugs : CreateOrg(p, u, o) \/ RequireMembership(p, u, o)
    \/ CreateOrgMember(p)
    \/ \E u \in Users, r \in Roles : AddMember(p, u, r)
    \/ AddMemberRow(p)
    \/ \E u \in Users : RemoveMember(p, u)

RepoStep(p) ==
    \/ \E n \in Names, vis \in Visibilities : CreateRepo(p, n, vis) \/ UpdateRepo(p, n, vis)
    \/ \E n \in Names : WithRepo(p, n)
    \/ DeleteRepo(p) \/ DeleteRepoRow(p)
    \/ \E o \in Slugs, n \in Names : Push(p, o, n)
    \/ GetHandle(p) \/ GetCached(p) \/ StoreHandle(p)

HookStep(p) ==
    \/ \E url \in Urls : CreateWebhook(p, url)
    \/ \E h \in hooks : GetWebhookByID(p, h)
    \/ \E url \in Urls, active \in BOOLEAN : UpdateWebhook(p, url, active)
    \/ DeleteWebhook(p)
    \/ \E o \in Slugs, n \in Names : TriggerWebhooks(p, o, n)
    \/ CreateWebhookDelivery(p)

OrgsNext ==
    \/ \E p \in Procs : OrgStep(p) \/ RepoStep(p) \/ HookStep(p) \/ OrgAbort(p)
    \/ \E u \in Users, k \in Keys : CreateSSHKey(u, k) \/ DeleteSSHKey(u, k)
    \/ \E id \in senders : deliverWebhook(id)
    \/ Crash

OrgsSpec == OrgsInit /\ [][OrgsNext]_orgVars

-----------------------------------------------------------------------------
(* Properties. *)

OrgsTypeOK ==
    /\ orgs \in [Slugs -> Users \cup {NoUser}]
    /\ role \in [Slugs -> [Users -> Roles \cup {"none"}]]
    /\ \A i \in DOMAIN repoRows :
         repoRows[i] \in [org : Slugs, name : Names, vis : Visibilities, live : BOOLEAN]
    /\ \A h \in hooks : h.repo \in DOMAIN repoRows /\ repoRows[h.repo].live
    /\ \A d \in deliveries : \E h \in hooks : h.id = d.hook

(* An org never loses its owner: once it has been created, owner_id is a   *)
(* member, whatever administrators do to the members; only an org whose    *)
(* creation stopped between its two statements is without one.             *)
OwnerStaysMember ==
    \A o \in Slugs :
        orgs[o] # NoUser /\ role[o][orgs[o]] = "none"
          => o \in cut \/ \E p \in Procs : OrgAt(p, "org_member") /\ asked[p].org = o

(* Whoever may write to a repository over SSH may write to it through the  *)
(* HTTP proxy, also when the membership cannot be read, and the other way  *)
(* round when it can: roleToPermission and HasAtLeastRole draw the same    *)
(* line, and after a failing query only the proxy forwards.                *)
TransportsAgreeOnWrites ==
    \A k \in Keys, o \in Slugs, n \in Names, broken \in BOOLEAN :
        LET ssh   == VerifySSHKey(k, o, n, broken) \in {"write", "admin"}
            proxy == ProxyHandler(keys[k], o, n, FALSE, broken)
        IN keys[k] # NoUser => /\ ssh => proxy
                               /\ ~broken /\ proxy => ssh

(* A shard's handle for org/name leads to a repository of that org, even   *)
(* when repositories are renamed, deleted and created again.               *)
HandlesStayInTheirOrg ==
    \A o \in Slugs, n \in Names :
        handles[<<o, n>>] # NoId => repoRows[handles[<<o, n>>]].org = o

(* A delivery that is pending has a goroutine that sends it, however       *)
(* webhooks are changed and deleted meanwhile, unless the control plane    *)
(* was stopped or the UPDATE of the outcome failed; and what has been sent *)
(* is never sent again.                                                    *)
DeliveriesAreAccounted ==
    \A d \in deliveries :
        /\ count.crashes = 0 /\ d.status = "pending" => d.id \in senders \/ d.lost
        /\ d.id \in senders => d.status = "pending" /\ ~d.lost

(* Who may reach which repository does not depend on the way in or on what *)
(* other requests do: rows refer to rows that exist, owners are members, the*)
(* two transports agree and handles lead into the org they are named for.  *)
AccessIsConsistent ==
    /\ OrgsTypeOK
    /\ OwnerStaysMember
    /\ TransportsAgreeOnWrites
    /\ HandlesStayInTheirOrg
=============================================================================
