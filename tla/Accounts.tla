------------------------------ MODULE Accounts ------------------------------
(***************************************************************************)
(* apps/api: registration, login, single sign-on, logout and the check     *)
(* every protected route makes first.  A request is a sequence of awaited  *)
(* statements on a connection pool, each its own transaction, so requests  *)
(* interleave between any two of them and a crash may end one anywhere.    *)
(***************************************************************************)
EXTENDS Integers, FiniteSets

CONSTANTS
    Requests,       \* the requests clients ever make
    Emails,         \* addresses, compared in lower case by query and index
    SsoOrgs,        \* organizations with an SSO connection
    Plans,
    Allowed,        \* ENTITLEMENTS: the plans that grant the feature
    MaxPlanChanges, \* bound on changes of an organization's plan
    None

ASSUME AccountsAssumption ==
    /\ Allowed \subseteq Plans /\ Plans # {}
    /\ SsoOrgs \cap Requests = {} /\ MaxPlanChanges \in Nat
    /\ None \notin Requests \cup Emails \cup SsoOrgs \cup Plans
    /\ None \notin [request : Requests, email : Emails, org : SsoOrgs \cup Requests]

VARIABLES
    request,        \* what each request is and how far it got
    users,          \* rows of users: [email, org], by unique e-mail
    organizations,  \* rows of organizations
    plan,           \* their plans
    audit,          \* rows of audit_events: [type, request, email]
    sessions,       \* sessions ever created: [request, email, org]
    gone,           \* those deleted by a logout
    expired,        \* those past expires_at
    planChanges

tables == <<users, organizations, plan, audit, sessions>>
accountsVars == <<request, tables, gone, expired, planChanges>>

\* Organizations registered are named after the request that inserted them.
Organizations == SsoOrgs \cup Requests
UserOf(email) == {u \in users : u.email = email}

\* Only a registration stores a password, with an organization of its own.
HasPassword(email) == \E u \in UserOf(email) : u.org \notin SsoOrgs

Alive == {s \in sessions : s \notin gone /\ s \notin expired}

Idle == [kind |-> "none", step |-> "none", email |-> None, org |-> None,
         session |-> None, stale |-> FALSE]

AccountsInit ==
    /\ request = [r \in Requests |-> Idle]
    /\ users = {}
    /\ organizations = SsoOrgs
    /\ plan \in [Organizations -> Plans]
    /\ audit = {}
    /\ sessions = {}
    /\ gone = {}
    /\ expired = {}
    /\ planChanges = 0

At(r, kind, step) == request[r].kind = kind /\ request[r].step = step
Goto(r, step) == request' = [request EXCEPT ![r].step = step]

-----------------------------------------------------------------------------
(* A client sends a request, with the cookie of a session it was given.    *)

Arrive(r, kind, email, org, session) ==
    /\ request[r] = Idle
    /\ request' = [request EXCEPT ![r] =
            [kind |-> kind, step |-> "first", email |-> email, org |-> org,
             session |-> session, stale |-> session \in gone]]
    /\ UNCHANGED <<tables, gone, expired, planChanges>>

Send(r) ==
    \/ \E email \in Emails, kind \in {"register", "login"} : Arrive(r, kind, email, None, None)
    \/ \E email \in Emails, org \in SsoOrgs : Arrive(r, "sso", email, org, None)
    \/ \E s \in sessions, kind \in {"read", "logout"} : Arrive(r, kind, None, None, s)

-----------------------------------------------------------------------------
(* POST /auth/register                                                     *)

\* SELECT id FROM users: an address already there is answered with 409.
CheckEmail(r) ==
    /\ At(r, "register", "first")
    /\ Goto(r, IF UserOf(request[r].email) = {} THEN "organization" ELSE "refused")
    /\ UNCHANGED <<tables, gone, expired, planChanges>>

InsertOrganization(r) ==
    /\ At(r, "register", "organization")
    /\ organizations' = organizations \cup {r}
    /\ request' = [request EXCEPT ![r].step = "user", ![r].org = r]
    /\ UNCHANGED <<users, plan, audit, sessions, gone, expired, planChanges>>

\* Mutant of InsertUserRow: no unique index on lower(email).
InsertAnyUserRow(r) ==
    /\ users' = users \cup {[email |-> request[r].email, org |-> request[r].org]}
    /\ Goto(r, "audit")

\* Mutant of InsertUserRow: ON CONFLICT DO NOTHING.
InsertUserRowOrGoOn(r) ==
    /\ users' = IF UserOf(request[r].email) = {}
                THEN users \cup {[email |-> request[r].email, org |-> request[r].org]}
                ELSE users
    /\ Goto(r, "audit")

\* INSERT INTO users: the unique index refuses a second row, the request fails.
InsertUserRow(r) ==
    IF UserOf(request[r].email) = {}
    THEN /\ users' = users \cup {[email |-> request[r].email, org |-> request[r].org]}
         /\ Goto(r, "audit")
    ELSE /\ Goto(r, "failed")
         /\ UNCHANGED users

InsertUser(r) ==
    /\ At(r, "register", "user") \/ At(r, "sso", "user")
    /\ InsertUserRow(r)
    /\ UNCHANGED <<organizations, plan, audit, sessions, gone, expired, planChanges>>

-----------------------------------------------------------------------------
(* POST /auth/login and GET /auth/sso/:organizationId/callback             *)

\* The row of the address and the verified password, or 401 and a row of
\* audit_events.
Login(r) ==
    /\ At(r, "login", "first")
    /\ \E verified \in BOOLEAN :
        IF HasPassword(request[r].email) /\ verified
        THEN Goto(r, "audit") /\ UNCHANGED audit
        ELSE /\ Goto(r, "refused")
             /\ audit' = audit \cup
                    {[type |-> "login_failed", request |-> r, email |-> request[r].email]}
    /\ UNCHANGED <<users, organizations, plan, sessions, gone, expired, planChanges>>

\* The identity provider vouched for the address; a user of another
\* organization is answered with 403, an unknown one is provisioned.
SsoCallback(r) ==
    /\ At(r, "sso", "first")
    /\ LET found == UserOf(request[r].email)
       IN  Goto(r, IF found = {} THEN "user"
                   ELSE IF \E u \in found : u.org = request[r].org THEN "audit" ELSE "refused")
    /\ UNCHANGED <<tables, gone, expired, planChanges>>

-----------------------------------------------------------------------------
(* What the three have in common: audit, then session and cookie.          *)

WriteAudit(r) ==
    /\ \E kind \in {"register", "login", "sso"} : At(r, kind, "audit")
    /\ audit' = audit \cup
            {[type |-> request[r].kind, request |-> r, email |-> request[r].email]}
    /\ Goto(r, "session")
    /\ UNCHANGED <<users, organizations, plan, sessions, gone, expired, planChanges>>

CreateSession(r) ==
    /\ \E kind \in {"register", "login", "sso"} : At(r, kind, "session")
    /\ \E u \in UserOf(request[r].email) :
        sessions' = sessions \cup {[request |-> r, email |-> u.email, org |-> u.org]}
    /\ Goto(r, "done")
    /\ UNCHANGED <<users, organizations, plan, audit, gone, expired, planChanges>>

-----------------------------------------------------------------------------
(* authenticate(), requireEntitlement() and POST /auth/logout              *)

\* Mutant of ValidateSession: a session is good until it expires.
ValidateUnexpired(r) ==
    /\ At(r, "read", "first") \/ At(r, "logout", "first")
    /\ Goto(r, IF request[r].session \notin expired THEN "identity" ELSE "refused")
    /\ UNCHANGED <<tables, gone, expired, planChanges>>

\* validateSession: the row is there and not past its expiry.
ValidateSession(r) ==
    /\ At(r, "read", "first") \/ At(r, "logout", "first")
    /\ Goto(r, IF request[r].session \in Alive THEN "identity" ELSE "refused")
    /\ UNCHANGED <<tables, gone, expired, planChanges>>

\* The second query reads role and plan, the entitlement is checked at once; a
\* logout needs none.
LoadIdentity(r) ==
    /\ At(r, "read", "identity") \/ At(r, "logout", "identity")
    /\ Goto(r, IF request[r].kind = "logout" THEN "revoke"
               ELSE IF plan[request[r].session.org] \in Allowed THEN "admitted" ELSE "refused")
    /\ UNCHANGED <<tables, gone, expired, planChanges>>

RevokeSession(r) ==
    /\ At(r, "logout", "revoke")
    /\ gone' = gone \cup {request[r].session}
    /\ Goto(r, "logged")
    /\ UNCHANGED <<tables, expired, planChanges>>

AuditLogout(r) ==
    /\ At(r, "logout", "logged")
    /\ audit' = audit \cup
            {[type |-> "logout", request |-> r, email |-> request[r].session.email]}
    /\ Goto(r, "done")
    /\ UNCHANGED <<users, organizations, plan, sessions, gone, expired, planChanges>>

-----------------------------------------------------------------------------

\* A statement is rejected or the process ends: what was inserted stays.
Fail(r) ==
    /\ request[r].step \notin {"none", "refused", "failed", "done", "admitted"}
    /\ Goto(r, "failed")
    /\ UNCHANGED <<tables, gone, expired, planChanges>>

Expire ==
    /\ \E s \in sessions \ expired : expired' = expired \cup {s}
    /\ UNCHANGED <<request, tables, gone, planChanges>>

\* An administrator changes a plan in the database.
ChangePlan ==
    /\ planChanges < MaxPlanChanges
    /\ planChanges' = planChanges + 1
    /\ \E o \in organizations, p \in Plans : plan' = [plan EXCEPT ![o] = p]
    /\ UNCHANGED <<request, users, organizations, audit, sessions, gone, expired>>

AccountsNext ==
    \/ \E r \in Requests :
        \/ Send(r) \/ Fail(r)
        \/ CheckEmail(r) \/ InsertOrganization(r) \/ InsertUser(r)
        \/ Login(r) \/ SsoCallback(r)
        \/ WriteAudit(r) \/ CreateSession(r)
        \/ ValidateSession(r) \/ LoadIdentity(r) \/ RevokeSession(r) \/ AuditLogout(r)
    \/ Expire
    \/ ChangePlan

AccountsSpec == AccountsInit /\ [][AccountsNext]_accountsVars

-----------------------------------------------------------------------------

AccountsTypeOK ==
    /\ users \subseteq [email : Emails, org : Organizations]
    /\ \A email \in Emails : Cardinality(UserOf(email)) <= 1
    /\ SsoOrgs \subseteq organizations /\ organizations \subseteq Organizations
    /\ plan \in [Organizations -> Plans]
    /\ sessions \subseteq [request : Requests, email : Emails, org : Organizations]
    /\ gone \subseteq sessions /\ expired \subseteq sessions

\* Between the check of an address and the insert of its user other requests
\* run.  Whatever they do, a session that a callback of one organization's
\* identity provider started is a session of a user of that organization.
SsoStaysInItsOrganization ==
    \A s \in sessions :
        request[s.request].kind = "sso" => s.org = request[s.request].org

\* Registration is three statements without a transaction, so an organization
\* may end up without a user.  That is the mark of a request still running, or
\* one that failed: lost to another request for its address, or cut short.
EmptyOrganizationsAreFailures ==
    \A o \in organizations \ SsoOrgs :
        (\A u \in users : u.org # o) => request[o].step \in {"user", "failed"}

\* A request that arrived after its session was revoked is never admitted.
\* One that arrived before may be, whatever happens between its two queries.
RevokedStaysOut ==
    \A r \in Requests : request[r].stale =>
        request[r].step \in {"first", "refused", "failed"}

=============================================================================
