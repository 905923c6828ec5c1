------------------------------- MODULE Accounts -------------------------------
(***************************************************************************)
(* Accounts of the control plane: early-access signups, passwordless login *)
(* through magic links, refresh sessions, access tokens (JWTs), personal   *)
(* access tokens (PATs) and the CI-access flag of a user's row.            *)
(*                                                                         *)
(* Every SQL statement is one step; a handler that issues several of them  *)
(* holds what it has read in call[p] between two steps, and any statement  *)
(* may fail (CallAborts), which ends the request and undoes nothing.       *)
(***************************************************************************)
EXTENDS Naturals, Sequences, FiniteSets

CONSTANTS
    Callers,          \* requests that the server handles at the same time
    Emails,         \* the spellings of addresses that clients send
    Fold(_),        \* the case-folded form of a spelling
    AdminEmail,     \* cfg.AdminEmail
    NoCaseEmails,   \* TRUE: users.email is COLLATE NOCASE UNIQUE (SQLite);
                    \* FALSE: it is UNIQUE as it is spelled (Postgres)
    MaxUsers, MaxSignups, MaxLinks, MaxSessions, MaxPATs,   \* bounds on the rows
    MaxCalls     \* bound on the requests of one behaviour

AccountsAssumption == AdminEmail \in Emails /\ IsFiniteSet(Callers) /\ Callers # {}

VARIABLES
    users,      \* rows of users, in the order of their creation
    signups,    \* rows of signups
    links,      \* rows of magic_links
    sessions,   \* rows of sessions
    tokens,     \* rows of api_tokens
    jwts,       \* access tokens that have been handed out
    issued,     \* numbers of requests begun, sessions and PATs created
    opened,     \* history: every session ever created
    admitted,   \* history: folded addresses that an administrator approved, or
                \* that somebody with an account added to an org
    call         \* what each request is doing

accountVars == <<users, signups, links, sessions, tokens, jwts, issued, opened, admitted, call>>

Statuses == {"pending_review", "approved", "rejected", "contacted"}
NoCall     == [op |-> "idle"]

-----------------------------------------------------------------------------
(* The rows, and the queries of internal/db. *)

GetUserByEmail(e) == {u \in DOMAIN users : Fold(users[u].email) = Fold(e)}

(* The UNIQUE constraint of users.email ignores case on SQLite only. *)
EmailTaken(e) ==
    \E u \in DOMAIN users :
        IF NoCaseEmails THEN Fold(users[u].email) = Fold(e) ELSE users[u].email = e

CreateUser(e) ==
    /\ ~EmailTaken(e)
    /\ Len(users) < MaxUsers
    /\ users' = Append(users, [email |-> e, ci |-> FALSE, asked |-> FALSE])

UpdateUserCIAccess(u, val) == users' = [users EXCEPT ![u].ci = val]

(* Mutant: the whole row is written back as it was read. *)
WriteRowBack(u, row) == users' = [users EXCEPT ![u] = [row EXCEPT !.asked = TRUE]]

MarkCIRequested(u, row) == users' = [users EXCEPT ![u].asked = TRUE]

(* signups.email is not unique and is compared exactly: the query returns  *)
(* one of the rows.                                                        *)
GetSignupByEmail(e) == {s \in DOMAIN signups : signups[s].email = e}

CreateSignup(e) ==
    signups' = Append(signups, [email |-> e, status |-> "pending_review"])

UpdateSignupStatus(s, status) == signups' = [signups EXCEPT ![s].status = status]

CreateMagicLink(e) ==
    links' = Append(links, [email |-> e, used |-> FALSE, expired |-> FALSE, gone |-> FALSE])

GetMagicLink(l) == {k \in {links[l]} : ~k.gone}

UseMagicLink(l) == links' = [links EXCEPT ![l].used = TRUE]

CleanupExpiredMagicLinks ==
    /\ \E l \in DOMAIN links : links[l].expired /\ ~links[l].gone
    /\ links' = [l \in DOMAIN links |->
                   [links[l] EXCEPT !.gone = @ \/ links[l].expired]]
    /\ UNCHANGED <<users, signups, sessions, tokens, jwts, issued, opened, admitted, call>>

CreateSession(u, l) ==
    /\ issued.sessions < MaxSessions
    /\ LET s == [id |-> issued.sessions + 1, user |-> u, link |-> l, expired |-> FALSE] IN
         sessions' = sessions \cup {s} /\ opened' = opened \cup {s}
    /\ issued' = [issued EXCEPT !.sessions = @ + 1]

DeleteSession(id) == sessions' = {s \in sessions : s.id # id}

DeleteUserSessions(u) == sessions' = {s \in sessions : s.user # u}

CreateAPIToken(u) ==
    /\ issued.tokens < MaxPATs
    /\ tokens' = tokens \cup {[id |-> issued.tokens + 1, user |-> u]}
    /\ issued' = [issued EXCEPT !.tokens = @ + 1]

GetAPIToken(id) == {t \in tokens : t.id = id}

DeleteAPIToken(id) == tokens' = {t \in tokens : t.id # id}

(* An access token carries its user and an expiry and is never revoked. *)
GenerateAccessToken(u) == jwts' = jwts \cup {u}

ValidateAccessToken(u) == u \in jwts

-----------------------------------------------------------------------------
(* Requests. *)

CallGoto(p, r)  == call' = [call EXCEPT ![p] = r]
CallEnds(p)   == CallGoto(p, NoCall)
CallBegin(p, r) ==
    /\ call[p] = NoCall
    /\ issued.requests < MaxCalls
    /\ issued' = [issued EXCEPT !.requests = @ + 1]
    /\ CallGoto(p, r)
CallAt(p, op)   == call[p].op = op

(* A statement fails, or the server stops: the request ends where it is. *)
CallAborts(p) ==
    /\ call[p] # NoCall
    /\ CallEnds(p)
    /\ UNCHANGED <<users, signups, links, sessions, tokens, jwts, issued, opened, admitted>>

SubmitSignup(e) ==
    /\ Len(signups) < MaxSignups
    /\ CreateSignup(e)
    /\ UNCHANGED <<users, links, sessions, tokens, jwts, issued, opened, admitted, call>>

-----------------------------------------------------------------------------
(* SendMagicLink: an account, or else an approved signup, then the link.   *)
(* The link is stored before the mail is sent and stays when it fails.     *)

SendMagicLink(p, e) ==
    /\ CallBegin(p, [op |-> IF GetUserByEmail(e) = {} THEN "send_signup" ELSE "send_store",
                 email |-> e])
    /\ UNCHANGED <<users, signups, links, sessions, tokens, jwts, opened, admitted>>

(* Mutant: any signup will do, approved or not. *)
SendNeedsSignup(p) ==
    /\ CallAt(p, "send_signup")
    /\ GetSignupByEmail(call[p].email) # {}
    /\ CallGoto(p, [call[p] EXCEPT !.op = "send_store"])
    /\ UNCHANGED <<users, signups, links, sessions, tokens, jwts, issued, opened, admitted>>

SendNeedsApproval(p) ==
    /\ CallAt(p, "send_signup")
    /\ LET e == call[p].email IN
         \/ /\ \E s \in GetSignupByEmail(e) : signups[s].status = "approved"
            /\ CallGoto(p, [op |-> "send_store", email |-> e])
         \/ /\ \/ GetSignupByEmail(e) = {}
               \/ \E s \in GetSignupByEmail(e) : signups[s].status # "approved"
            /\ CallEnds(p)
    /\ UNCHANGED <<users, signups, links, sessions, tokens, jwts, issued, opened, admitted>>

SendStore(p) ==
    /\ CallAt(p, "send_store")
    /\ Len(links) < MaxLinks
    /\ CreateMagicLink(call[p].email)
    /\ CallEnds(p)
    /\ UNCHANGED <<users, signups, sessions, tokens, jwts, issued, opened, admitted>>

-----------------------------------------------------------------------------
(* ExchangeToken: read the link, mark it as used, find or create the user, *)
(* create the session and hand out both tokens.                            *)

ExchangeToken(p, l) ==
    /\ \E k \in GetMagicLink(l) :
         /\ ~k.expired
         /\ ~k.used
         /\ CallBegin(p, [op |-> "ex_use", link |-> l, email |-> k.email])
    /\ UNCHANGED <<users, signups, links, sessions, tokens, jwts, opened, admitted>>

ExchangeUse(p) ==
    /\ CallAt(p, "ex_use")
    /\ UseMagicLink(call[p].link)
    /\ CallGoto(p, [call[p] EXCEPT !.op = "ex_find"])
    /\ UNCHANGED <<users, signups, sessions, tokens, jwts, issued, opened, admitted>>

(* The first half of GetOrCreateUser. *)
GetOrCreateUser(p) ==
    /\ CallAt(p, "ex_find")
    /\ LET found == GetUserByEmail(call[p].email) IN
         IF found = {}
         THEN CallGoto(p, [call[p] EXCEPT !.op = "ex_create"])
         ELSE \E u \in found : CallGoto(p, [op |-> "ex_session", link |-> call[p].link, user |-> u])
    /\ UNCHANGED <<users, signups, links, sessions, tokens, jwts, issued, opened, admitted>>

(* Its second half; when another request has inserted the row meanwhile,   *)
(* the INSERT fails, the answer is 500 and the link is spent.              *)
ExchangeCreate(p) ==
    /\ CallAt(p, "ex_create")
    /\ \/ /\ CreateUser(call[p].email)
          /\ CallGoto(p, [op |-> "ex_session", link |-> call[p].link, user |-> Len(users) + 1])
       \/ /\ EmailTaken(call[p].email)
          /\ CallEnds(p)
          /\ UNCHANGED users
    /\ UNCHANGED <<signups, links, sessions, tokens, jwts, issued, opened, admitted>>

ExchangeSession(p) ==
    /\ CallAt(p, "ex_session")
    /\ CreateSession(call[p].user, call[p].link)
    /\ GenerateAccessToken(call[p].user)
    /\ CallEnds(p)
    /\ UNCHANGED <<users, signups, links, tokens, admitted>>

-----------------------------------------------------------------------------
(* RefreshToken keeps the session and issues a new access token; a session *)
(* past its expiry is deleted instead.                                     *)

RefreshToken(p, s) ==
    /\ s \in sessions
    /\ CallBegin(p, [op |-> IF s.expired THEN "rf_drop" ELSE "rf_issue",
                 session |-> s.id, user |-> s.user])
    /\ UNCHANGED <<users, signups, links, sessions, tokens, jwts, opened, admitted>>

RefreshDrop(p) ==
    /\ CallAt(p, "rf_drop")
    /\ DeleteSession(call[p].session)
    /\ CallEnds(p)
    /\ UNCHANGED <<users, signups, links, tokens, jwts, issued, opened, admitted>>

RefreshIssue(p) ==
    /\ CallAt(p, "rf_issue")
    /\ GenerateAccessToken(call[p].user)
    /\ CallEnds(p)
    /\ UNCHANGED <<users, signups, links, sessions, tokens, issued, opened, admitted>>

-----------------------------------------------------------------------------
(* Authenticated requests. WithAuth accepts a JWT that has not expired or  *)
(* a PAT that is stored, and puts the user's row, as it is then, into the  *)
(* request's context.                                                      *)

WithAuth(p, u) ==
    /\ \/ ValidateAccessToken(u)
       \/ \E t \in tokens : t.user = u
    /\ CallBegin(p, [op |-> "auth", user |-> u, row |-> users[u]])
    /\ UNCHANGED <<users, signups, links, sessions, tokens, jwts, opened, admitted>>

IsAdmin(p) == call[p].row.email = AdminEmail

Logout(p) ==
    /\ CallAt(p, "auth")
    /\ DeleteUserSessions(call[p].user)
    /\ CallEnds(p)
    /\ UNCHANGED <<users, signups, links, tokens, jwts, issued, opened, admitted>>

RequestCIAccess(p) ==
    /\ CallAt(p, "auth")
    /\ ~call[p].row.ci
    /\ ~call[p].row.asked
    /\ MarkCIRequested(call[p].user, call[p].row)
    /\ CallEnds(p)
    /\ UNCHANGED <<signups, links, sessions, tokens, jwts, issued, opened, admitted>>

CreateToken(p) ==
    /\ CallAt(p, "auth")
    /\ CreateAPIToken(call[p].user)
    /\ CallEnds(p)
    /\ UNCHANGED <<users, signups, links, sessions, jwts, opened, admitted>>

(* AddMember (orgs.go): whoever has an account can have an org, and for an *)
(* address without an account GetOrCreateUser makes one. The membership    *)
(* itself is Orgs.AddMemberRow.                                            *)
AddMemberAccount(p, e) ==
    /\ CallAt(p, "auth")
    /\ IF GetUserByEmail(e) = {} THEN CallGoto(p, [op |-> "am_create", email |-> e]) ELSE CallEnds(p)
    /\ admitted' = admitted \cup {Fold(e)}
    /\ UNCHANGED <<users, signups, links, sessions, tokens, jwts, issued, opened>>

AddMemberCreate(p) ==
    /\ CallAt(p, "am_create")
    /\ CreateUser(call[p].email)
    /\ CallEnds(p)
    /\ UNCHANGED <<signups, links, sessions, tokens, jwts, issued, opened, admitted>>

(* The token is read, its owner compared, and the row deleted later. *)
DeleteToken(p, id) ==
    /\ CallAt(p, "auth")
    /\ \E t \in GetAPIToken(id) : t.user = call[p].user
    /\ CallGoto(p, [op |-> "del_token", id |-> id, user |-> call[p].user])
    /\ UNCHANGED <<users, signups, links, sessions, tokens, jwts, issued, opened, admitted>>

DeleteTokenRow(p) ==
    /\ CallAt(p, "del_token")
    /\ DeleteAPIToken(call[p].id)
    /\ CallEnds(p)
    /\ UNCHANGED <<users, signups, links, sessions, jwts, issued, opened, admitted>>

UpdateSignup(p, s, status) ==
    /\ CallAt(p, "auth")
    /\ IsAdmin(p)
    /\ UpdateSignupStatus(s, status)
    /\ admitted' = admitted \cup (IF status = "approved" THEN {Fold(signups[s].email)} ELSE {})
    /\ CallEnds(p)
    /\ UNCHANGED <<users, links, sessions, tokens, jwts, issued, opened>>

SetUserCIAccess(p, u, val) ==
    /\ CallAt(p, "auth")
    /\ IsAdmin(p)
    /\ UpdateUserCIAccess(u, val)
    /\ CallEnds(p)
    /\ UNCHANGED <<signups, links, sessions, tokens, jwts, issued, opened, admitted>>

-----------------------------------------------------------------------------
(* Time passes: links, sessions and access tokens reach their expiry. *)

LinkExpires(l) ==
    /\ ~links[l].expired
    /\ links' = [links EXCEPT ![l].expired = TRUE]
    /\ UNCHANGED <<users, signups, sessions, tokens, jwts, issued, opened, admitted, call>>

SessionExpires(s) ==
    /\ ~s.expired
    /\ sessions' = (sessions \ {s}) \cup {[s EXCEPT !.expired = TRUE]}
    /\ UNCHANGED <<users, signups, links, tokens, jwts, issued, opened, admitted, call>>

AccessTokenExpires(u) ==
    /\ jwts' = jwts \ {u}
    /\ UNCHANGED <<users, signups, links, sessions, tokens, issued, opened, admitted, call>>

-----------------------------------------------------------------------------
(* The administrator's account exists and is logged in from the start. *)
AccountsInit ==
    /\ users = <<[email |-> AdminEmail, ci |-> FALSE, asked |-> FALSE]>>
    /\ signups = <<>>
    /\ links = <<>>
    /\ sessions = {}
    /\ tokens = {}
    /\ jwts = {1}
    /\ issued = [requests |-> 0, sessions |-> 0, tokens |-> 0]
    /\ opened = {}
    /\ admitted = {Fold(AdminEmail)}
    /\ call = [p \in Callers |-> NoCall]

Request(p) ==
    \/ \E e \in Emails : SendMagicLink(p, e)
    \/ \E l \in DOMAIN links : ExchangeToken(p, l)
    \/ \E s \in sessions : RefreshToken(p, s)
    \/ \E u \in DOMAIN users : WithAuth(p, u)

Authenticated(p) ==
    \/ Logout(p)
    \/ RequestCIAccess(p)
    \/ CreateToken(p)
    \/ \E e \in Emails : AddMemberAccount(p, e)
    \/ \E id \in 1..issued.tokens : DeleteToken(p, id)
    \/ \E s \in DOMAIN signups, status \in Statuses : UpdateSignup(p, s, status)
    \/ \E u \in DOMAIN users, val \in BOOLEAN : SetUserCIAccess(p, u, val)

Continue(p) ==
    \/ SendNeedsApproval(p) \/ SendStore(p)
    \/ ExchangeUse(p) \/ GetOrCreateUser(p) \/ ExchangeCreate(p) \/ ExchangeSession(p)
    \/ RefreshDrop(p) \/ RefreshIssue(p)
    \/ DeleteTokenRow(p) \/ AddMemberCreate(p)

Environment ==
    \/ \E e \in Emails : SubmitSignup(e)
    \/ CleanupExpiredMagicLinks
    \/ \E l \in DOMAIN links : LinkExpires(l)
    \/ \E s \in sessions : SessionExpires(s)
    \/ \E u \in jwts : AccessTokenExpires(u)

AccountsNext ==
    \/ \E p \in Callers : Request(p) \/ Authenticated(p) \/ Continue(p) \/ CallAborts(p)
    \/ Environment

AccountsSpec == AccountsInit /\ [][AccountsNext]_accountVars

-----------------------------------------------------------------------------
(* Properties. *)

AccountsTypeOK ==
    /\ \A u \in DOMAIN users :
         users[u] \in [email : Emails, ci : BOOLEAN, asked : BOOLEAN]
    /\ \A s \in DOMAIN signups : signups[s] \in [email : Emails, status : Statuses]
    /\ \A l \in DOMAIN links :
         links[l] \in [email : Emails, used : BOOLEAN, expired : BOOLEAN, gone : BOOLEAN]
    /\ \A s \in sessions : s.user \in DOMAIN users /\ s.link \in DOMAIN links
    /\ \A t \in tokens : t.user \in DOMAIN users
    /\ jwts \subseteq DOMAIN users

(* Logins and invitations with one mailbox, in whatever case it is         *)
(* spelled, end in one account although GetOrCreateUser looks before it    *)
(* inserts. Where the UNIQUE column minds the case (Postgres), requests    *)
(* served at the same time may each insert their spelling; later ones find *)
(* an account, so there are never more than that.                          *)
FewAccountsPerMailbox ==
    \A u \in DOMAIN users :
        LET same == {v \in DOMAIN users : Fold(users[v].email) = Fold(users[u].email)}
        IN /\ Cardinality(same) <= Cardinality(Callers)
           /\ NoCaseEmails => same = {u}

(* Nobody gets an account by signing up alone: the address of every        *)
(* account was approved by the administrator, or named in AddMember by     *)
(* somebody who had an account, before its link or its row was made, how-  *)
(* ever signups are resubmitted, rejected and links exchanged meanwhile.   *)
AccountsAreAdmitted ==
    \A u \in DOMAIN users : Fold(users[u].email) \in admitted

(* The check of a link and the mark that it is spent are two statements,   *)
(* so requests served at the same time can share a link; one that comes    *)
(* after them cannot. However a link is exchanged again later, it opens    *)
(* at most as many sessions as the server handles requests at once.        *)
LinkSessionsBounded ==
    \A l \in DOMAIN links :
        Cardinality({s \in opened : s.link = l}) <= Cardinality(Callers)

(* CI access is taken away by an administrator and by nobody else: a       *)
(* user's own request, decided on a row read earlier, cannot undo a grant  *)
(* given in between.                                                       *)
GrantsAreKept ==
    [][\A u \in DOMAIN users :
         users[u].ci /\ ~users'[u].ci
           => \E p \in Callers : CallAt(p, "auth") /\ IsAdmin(p) /\ SetUserCIAccess(p, u, FALSE)]_accountVars

(* Logins lead to accounts that were approved or invited, do not multiply  *)
(* the accounts of a mailbox, and do not multiply sessions.                *)
LoginsAreSound ==
    /\ AccountsTypeOK
    /\ FewAccountsPerMailbox
    /\ AccountsAreAdmitted
    /\ LinkSessionsBounded
=============================================================================
