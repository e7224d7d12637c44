--------------------------- MODULE PlatformProofs ---------------------------
(***************************************************************************)
(* What the platform around the pipeline guarantees: Migrations for any    *)
(* number of runners, files and crashes; Accounts for any number of        *)
(* requests, addresses, organizations and plans; LivePage and the event    *)
(* streams under it for any number of streams, channels and records.       *)
(***************************************************************************)
EXTENDS Accounts, Migrations, LivePage, DataLemmas

-----------------------------------------------------------------------------
(* Migrations                                                              *)

\* A runner has seen every file before its own marked.
BehindAreMarked ==
    \A r \in Runners : step[r] # "ended" => 1..(file[r] - 1) \subseteq marks

\* The insert of a mark is what rules a second commit out.
CommitIsNew == \A r \in Runners : step[r] = "commit" => file[r] \notin marks

\* Two open transactions hold the same file only once it is marked.
HoldersExclude ==
    \A r, q \in Runners :
        r # q /\ Holds(r, file[r]) /\ Holds(q, file[r]) => file[r] \in marks

MigrationsInv == MigrationsTypeOK /\ SchemaIsAPrefixOfTheFiles /\ BehindAreMarked /\ CommitIsNew /\ HoldersExclude

-----------------------------------------------------------------------------

\* Leaving a file that is marked now: the runner stays in range, and what is
\* behind it is marked.
LEMMA NextFileIsInRange ==
    ASSUME MigrationsInv, NEW r \in Runners, step[r] # "ended", NextFile(r),
           marks \subseteq marks', file[r] \in marks', last' = last
    PROVE  /\ step' \in [Runners -> {"ended", "check", "execute", "mark", "commit"}]
           /\ file' \in [Runners -> 1..(LastFile + 1)]
           /\ \A q \in Runners :
                /\ step'[q] # "ended" => file'[q] <= last[q] /\ 1..(file'[q] - 1) \subseteq marks'
                /\ q # r => step'[q] = step[q] /\ file'[q] = file[q]
           /\ step'[r] \in {"check", "ended"}
<1> USE MigrationsAssumption DEF MigrationsInv, MigrationsTypeOK, NextFile, RunnerGoto
<1>1. file[r] \in 1..(LastFile + 1) /\ last[r] \in 0..LastFile
  OBVIOUS
<1>2. step' \in [Runners -> {"ended", "check", "execute", "mark", "commit"}]
  OBVIOUS
<1>3. file' \in [Runners -> 1..(LastFile + 1)]
  BY <1>1
<1>4. ASSUME NEW q \in Runners, q # r
      PROVE  step'[q] = step[q] /\ file'[q] = file[q]
  BY <1>4
<1>5. step'[r] \in {"check", "ended"}
  OBVIOUS
<1>6. ASSUME NEW q \in Runners, step'[q] # "ended"
      PROVE  file'[q] <= last[q] /\ 1..(file'[q] - 1) \subseteq marks'
  <2>1. CASE q # r
    BY <1>4, <1>6, <2>1 DEF BehindAreMarked
  <2>2. CASE q = r
    <3>1. file[r] < last[r] /\ file'[r] = file[r] + 1
      BY <1>6, <2>2
    <3>2. 1..file[r] \subseteq marks'
      BY <1>1 DEF BehindAreMarked
    <3> QED
      BY <1>1, <2>2, <3>1, <3>2
  <2> QED
    BY <2>1, <2>2
<1> QED
  BY <1>2, <1>3, <1>4, <1>5, <1>6

LEMMA MigrationsInvInit == MigrationsInit => MigrationsInv
BY MigrationsAssumption
DEF MigrationsInit, MigrationsInv, MigrationsTypeOK, SchemaIsAPrefixOfTheFiles, BehindAreMarked, CommitIsNew,
    HoldersExclude, Holds

\* Every step of every runner, one by one.
LEMMA MigrationsInvStep == MigrationsInv /\ [MigrationsNext]_migrationsVars => MigrationsInv'
<1> SUFFICES ASSUME MigrationsInv, [MigrationsNext]_migrationsVars
             PROVE  MigrationsInv'
  OBVIOUS
<1> USE MigrationsAssumption
<1>1. CASE Release
  BY <1>1 DEF Release, MigrationsInv, runner, MigrationsTypeOK, SchemaIsAPrefixOfTheFiles, BehindAreMarked,
              CommitIsNew, HoldersExclude, Holds
<1>2. ASSUME NEW r \in Runners, Start(r)
      PROVE  MigrationsInv'
  BY <1>2 DEF Start, RunnerGoto, MigrationsInv, MigrationsTypeOK, SchemaIsAPrefixOfTheFiles, BehindAreMarked,
              CommitIsNew, HoldersExclude, Holds
<1>3. ASSUME NEW r \in Runners, Check(r)
      PROVE  MigrationsInv'
  <2> USE DEF MigrationsInv
  <2>1. CASE file[r] \in marks
    <3>1. NextFile(r) /\ UNCHANGED <<released, last, marks, applied, crashes>> /\ step[r] = "check"
      BY <1>3, <2>1 DEF Check
    <3>2. /\ step' \in [Runners -> {"ended", "check", "execute", "mark", "commit"}]
          /\ file' \in [Runners -> 1..(LastFile + 1)]
          /\ \A q \in Runners :
                /\ step'[q] # "ended" => file'[q] <= last[q] /\ 1..(file'[q] - 1) \subseteq marks'
                /\ q # r => step'[q] = step[q] /\ file'[q] = file[q]
          /\ step'[r] \in {"check", "ended"}
      BY <2>1, <3>1, NextFileIsInRange
    <3> QED
      BY <3>1, <3>2 DEF MigrationsTypeOK, SchemaIsAPrefixOfTheFiles, BehindAreMarked, CommitIsNew,
                        HoldersExclude, Holds
  <2>2. CASE file[r] \notin marks
    <3>1. /\ step[r] = "check" /\ step' = [step EXCEPT ![r] = "execute"]
          /\ UNCHANGED <<released, file, last, marks, applied, crashes>>
      BY <1>3, <2>2 DEF Check, RunnerGoto
    <3>2. MigrationsTypeOK' /\ SchemaIsAPrefixOfTheFiles' /\ BehindAreMarked' /\ CommitIsNew'
      BY <3>1 DEF MigrationsTypeOK, SchemaIsAPrefixOfTheFiles, BehindAreMarked, CommitIsNew
    <3>3. \A q \in Runners : \A g : Holds(q, g)' => Holds(q, g)
      BY <3>1 DEF MigrationsTypeOK, Holds
    <3>4. HoldersExclude'
      BY <3>1, <3>3 DEF HoldersExclude, Holds
    <3> QED
      BY <3>2, <3>4
  <2> QED
    BY <2>1, <2>2
<1>4. ASSUME NEW r \in Runners, Execute(r)
      PROVE  MigrationsInv'
  BY <1>4 DEF Execute, RunnerGoto, MigrationsInv, MigrationsTypeOK, SchemaIsAPrefixOfTheFiles, BehindAreMarked,
              CommitIsNew, HoldersExclude, Holds
<1>5. ASSUME NEW r \in Runners, Mark(r)
      PROVE  MigrationsInv'
  <2>1. /\ step[r] = "mark" /\ step' = [step EXCEPT ![r] = IF file[r] \in marks THEN "ended" ELSE "commit"]
        /\ UNCHANGED <<released, file, last, marks, applied, crashes>>
    BY <1>5 DEF Mark, RunnerGoto
  <2>2. MigrationsTypeOK' /\ SchemaIsAPrefixOfTheFiles' /\ BehindAreMarked' /\ CommitIsNew'
    BY <2>1 DEF MigrationsInv, MigrationsTypeOK, SchemaIsAPrefixOfTheFiles, BehindAreMarked, CommitIsNew
  <2>3. \A q \in Runners : \A g : Holds(q, g)' => Holds(q, g)
    BY <2>1 DEF MigrationsInv, MigrationsTypeOK, Holds
  <2>4. HoldersExclude'
    BY <2>1, <2>3 DEF MigrationsInv, HoldersExclude, Holds
  <2> QED
    BY <2>2, <2>4 DEF MigrationsInv
<1>6. ASSUME NEW r \in Runners, Commit(r)
      PROVE  MigrationsInv'
  <2> DEFINE f == file[r]
  <2>1. /\ step[r] = "commit" /\ f \notin marks /\ f \in 1..LastFile
        /\ marks' = marks \cup {f}
        /\ applied' = [applied EXCEPT ![f] = @ + 1]
        /\ NextFile(r) /\ UNCHANGED <<released, last, crashes>>
    BY <1>6 DEF Commit, MigrationsInv, CommitIsNew, MigrationsTypeOK
  <2>2. /\ step' \in [Runners -> {"ended", "check", "execute", "mark", "commit"}]
        /\ file' \in [Runners -> 1..(LastFile + 1)]
        /\ \A q \in Runners :
            /\ step'[q] # "ended" => file'[q] <= last[q] /\ 1..(file'[q] - 1) \subseteq marks'
            /\ q # r => step'[q] = step[q] /\ file'[q] = file[q]
        /\ step'[r] \in {"check", "ended"}
    BY <2>1, NextFileIsInRange
  <2>3. MigrationsTypeOK'
    <3>1. marks' \subseteq 1..LastFile /\ applied' \in [1..LastFile -> Nat]
      <4>1. applied \in [1..LastFile -> Nat] /\ marks \subseteq 1..LastFile
        BY DEF MigrationsInv, MigrationsTypeOK
      <4>2. applied[f] + 1 \in Nat
        BY <2>1, <4>1
      <4>3. applied' \in [1..LastFile -> Nat]
        BY <2>1, <4>1, <4>2 DEF MigrationsInv, MigrationsTypeOK
      <4> QED
        BY <2>1, <4>1, <4>3
    <3> QED
      BY <2>1, <2>2, <3>1 DEF MigrationsInv, MigrationsTypeOK
  <2>4. SchemaIsAPrefixOfTheFiles'
    <3>0. f \in 1..LastFile /\ f \notin marks => applied[f] = 0
      BY DEF MigrationsInv, SchemaIsAPrefixOfTheFiles
    <3>1. ASSUME NEW g \in 1..LastFile
          PROVE  applied'[g] = IF g \in marks' THEN 1 ELSE 0
      <4>1. CASE g = f
        BY <2>1, <3>0, <4>1 DEF MigrationsInv, MigrationsTypeOK
      <4>2. CASE g # f
        BY <2>1, <4>2 DEF MigrationsInv, MigrationsTypeOK, SchemaIsAPrefixOfTheFiles
      <4> QED
        BY <4>1, <4>2
    <3>2. 1..f \subseteq marks'
      BY <2>1 DEF MigrationsInv, BehindAreMarked
    <3>3. ASSUME NEW g \in 1..LastFile, g \in marks'
          PROVE  1..g \subseteq marks'
      BY <2>1, <3>2, <3>3 DEF MigrationsInv, SchemaIsAPrefixOfTheFiles
    <3> QED
      BY <3>1, <3>3 DEF SchemaIsAPrefixOfTheFiles
  <2>5. BehindAreMarked'
    BY <2>2 DEF BehindAreMarked
  <2>6. CommitIsNew'
    <3> SUFFICES ASSUME NEW q \in Runners, step'[q] = "commit"
                 PROVE  file'[q] \notin marks'
      BY DEF CommitIsNew
    <3>1. q # r /\ step[q] = "commit" /\ file'[q] = file[q]
      BY <2>2
    <3>2. file[q] \notin marks /\ file[q] # f
      BY <2>1, <3>1 DEF MigrationsInv, CommitIsNew, HoldersExclude, Holds
    <3> QED
      BY <2>1, <3>1, <3>2
  <2>7. HoldersExclude'
    <3> SUFFICES ASSUME NEW p \in Runners, NEW q \in Runners,
                        (p # q /\ Holds(p, file[p]) /\ Holds(q, file[p]))'
                 PROVE  file'[p] \in marks'
      BY DEF HoldersExclude
    <3>1. p # r /\ q # r
      BY <2>2 DEF Holds
    <3>2. p # q /\ Holds(p, file[p]) /\ Holds(q, file[p]) /\ file'[p] = file[p]
      BY <2>2, <3>1 DEF Holds
    <3> QED
      BY <2>1, <3>2 DEF MigrationsInv, HoldersExclude
  <2> QED
    BY <2>3, <2>4, <2>5, <2>6, <2>7 DEF MigrationsInv
<1>7. ASSUME NEW r \in Runners, Crash(r)
      PROVE  MigrationsInv'
  BY <1>7 DEF Crash, RunnerGoto, MigrationsInv, MigrationsTypeOK, SchemaIsAPrefixOfTheFiles, BehindAreMarked,
              CommitIsNew, HoldersExclude, Holds
<1>8. CASE UNCHANGED migrationsVars
  BY <1>8 DEF migrationsVars, runner, MigrationsInv, MigrationsTypeOK, SchemaIsAPrefixOfTheFiles, BehindAreMarked,
              CommitIsNew, HoldersExclude, Holds
<1> QED
  BY <1>1, <1>2, <1>3, <1>4, <1>5, <1>6, <1>7, <1>8 DEF MigrationsNext, Step

\* apply_migrations.py: whatever runners overlap, race for a file or crash
\* between two statements, the schema is that of a prefix of the files, each
\* applied once and marked.
THEOREM SchemaIsAPrefix == MigrationsSpec => []SchemaIsAPrefixOfTheFiles
<1>1. MigrationsInv => SchemaIsAPrefixOfTheFiles
  BY DEF MigrationsInv
<1> QED
  BY MigrationsInvInit, MigrationsInvStep, <1>1, PTL DEF MigrationsSpec

-----------------------------------------------------------------------------
(* Accounts                                                                *)

Sessions == [request : Requests, email : Emails, org : Organizations]

AccountRequest ==
    [kind : {"none", "register", "login", "sso", "read", "logout"},
     step : {"none", "first", "organization", "user", "audit", "session", "identity",
             "revoke", "logged", "admitted", "done", "refused", "failed"},
     email : Emails \cup {None}, org : Organizations \cup {None},
     session : Sessions \cup {None}, stale : BOOLEAN]

SignsIn(q) == q.kind \in {"register", "login", "sso"}

AccountsTyped ==
    /\ request \in [Requests -> AccountRequest]
    /\ users \subseteq [email : Emails, org : Organizations]
    /\ SsoOrgs \subseteq organizations /\ organizations \subseteq Organizations
    /\ sessions \subseteq Sessions /\ gone \subseteq sessions
    /\ \A r \in Requests :
        /\ SignsIn(request[r]) => request[r].email \in Emails
        /\ request[r].kind = "sso" => request[r].org \in SsoOrgs
        /\ request[r].step = "user" => request[r].org \in Organizations
        /\ request[r].kind \in {"read", "logout"} => request[r].session \in sessions

\* The unique index on lower(email).
OneUserPerAddress == \A u, v \in users : u.email = v.email => u = v

\* A callback past the choice of its user has one of its own organization.
SsoUserIsOurs ==
    \A r \in Requests :
        request[r].kind = "sso" /\ request[r].step \in {"audit", "session"} =>
            [email |-> request[r].email, org |-> request[r].org] \in users

\* A request that has created its session is over.
SessionsAreOfEndedRequests ==
    \A s \in sessions : SignsIn(request[s.request]) /\ request[s.request].step = "done"

\* An organization is its request's, until a user of its own belongs to it.
OrganizationsWaitForTheirUser ==
    \A o \in organizations \ SsoOrgs :
        /\ request[o].kind = "register"
        /\ request[o].step = "user" => request[o].org = o
        /\ request[o].step \in {"user", "failed"} \/ \E u \in users : u.org = o

\* A request that arrived too late carries a session that is gone.
StaleIsGone ==
    \A r \in Requests : request[r].stale =>
        /\ request[r].session \in gone
        /\ request[r].kind \in {"read", "logout"}
        /\ request[r].step \in {"first", "refused", "failed"}

AccountsInv ==
    /\ AccountsTyped /\ OneUserPerAddress
    /\ SsoUserIsOurs /\ SessionsAreOfEndedRequests /\ SsoStaysInItsOrganization
    /\ OrganizationsWaitForTheirUser
    /\ StaleIsGone

-----------------------------------------------------------------------------

LEMMA AccountsInvInit == AccountsInit => AccountsInv
<1> SUFFICES ASSUME AccountsInit
             PROVE  AccountsInv
  OBVIOUS
<1>1. Idle \in AccountRequest
  BY DEF Idle, AccountRequest
<1> QED
  BY <1>1, AccountsAssumption
  DEF AccountsInit, AccountsInv, AccountsTyped, OneUserPerAddress, SsoUserIsOurs, SessionsAreOfEndedRequests,
      SsoStaysInItsOrganization, OrganizationsWaitForTheirUser, StaleIsGone,
      Organizations, SignsIn, Idle

\* Whether a request may go on to `to': the user row it waited for is there
\* or the request failed, a callback has its user, a late request ends.
MayGoTo(r, to) ==
    LET q == request[r]
    IN  /\ q.step \notin {"none", "done", "failed"}
        /\ q.step = "user" => to = "failed" \/ \E u \in users' : u.org = q.org
        /\ to = "user" => q.kind = "sso"
        /\ q.kind = "sso" /\ to \in {"audit", "session"} =>
            [email |-> q.email, org |-> q.org] \in users'
        /\ q.stale => to \in {"refused", "failed"}

\* A step of one request that creates no session and no organization.
LEMMA RequestMoves ==
    ASSUME AccountsInv, NEW r \in Requests,
           NEW to \in {"organization", "user", "audit", "session", "identity", "revoke",
                         "logged", "admitted", "done", "refused", "failed"},
           Goto(r, to), MayGoTo(r, to),
           users \subseteq users', users' \subseteq [email : Emails, org : Organizations],
           OneUserPerAddress',
           gone \subseteq gone', gone' \subseteq sessions,
           UNCHANGED <<organizations, sessions>>
    PROVE  AccountsInv'
<1> DEFINE q == request[r]
<1>1. /\ request \in [Requests -> AccountRequest] /\ q \in AccountRequest
      /\ request' = [request EXCEPT ![r].step = to]
  BY DEF AccountsInv, AccountsTyped, Goto
<1>2. /\ request' \in [Requests -> AccountRequest]
      /\ request'[r] = [q EXCEPT !.step = to]
      /\ \A p \in Requests : p # r => request'[p] = request[p]
  BY <1>1 DEF AccountRequest
<1>3. /\ request'[r].kind = q.kind /\ request'[r].email = q.email
      /\ request'[r].org = q.org /\ request'[r].session = q.session
      /\ request'[r].stale = q.stale /\ request'[r].step = to
  BY <1>1, <1>2 DEF AccountRequest
<1>4. /\ q.step \notin {"none", "done", "failed"}
      /\ q.step = "user" => to = "failed" \/ \E u \in users' : u.org = q.org
      /\ to = "user" => q.kind = "sso"
      /\ q.kind = "sso" /\ to \in {"audit", "session"} =>
            [email |-> q.email, org |-> q.org] \in users'
      /\ q.stale => to \in {"refused", "failed"}
  BY DEF MayGoTo
<1> HIDE DEF q
<1>5. AccountsTyped'
  BY <1>2, <1>3, <1>4 DEF AccountsInv, AccountsTyped, SignsIn, Organizations, q
<1>6. SsoUserIsOurs'
  BY <1>2, <1>3, <1>4 DEF AccountsInv, SsoUserIsOurs
<1>7. SessionsAreOfEndedRequests' /\ SsoStaysInItsOrganization'
  <2> SUFFICES ASSUME NEW s \in sessions
               PROVE  /\ SignsIn(request'[s.request]) /\ request'[s.request].step = "done"
                      /\ request'[s.request].kind = "sso" => s.org = request'[s.request].org
    BY DEF SessionsAreOfEndedRequests, SsoStaysInItsOrganization, SignsIn
  <2>1. s.request \in Requests /\ request[s.request].step = "done"
    BY DEF AccountsInv, AccountsTyped, Sessions, SessionsAreOfEndedRequests
  <2> QED
    BY <1>2, <1>4, <2>1 DEF AccountsInv, SessionsAreOfEndedRequests, SsoStaysInItsOrganization, q
<1>8. OrganizationsWaitForTheirUser'
  <2> SUFFICES ASSUME NEW o \in organizations \ SsoOrgs
               PROVE  /\ request'[o].kind = "register"
                      /\ request'[o].step = "user" => request'[o].org = o
                      /\ request'[o].step \in {"user", "failed"} \/ \E u \in users' : u.org = o
    BY DEF OrganizationsWaitForTheirUser
  <2>1. /\ o \in Requests /\ request[o].kind = "register"
        /\ request[o].step = "user" => request[o].org = o
        /\ request[o].step \in {"user", "failed"} \/ \E u \in users : u.org = o
    BY DEF AccountsInv, AccountsTyped, Organizations, OrganizationsWaitForTheirUser
  <2>2. CASE o # r
    <3>1. request'[o] = request[o]
      BY <1>2, <2>1, <2>2
    <3> QED
      BY <2>1, <3>1
  <2>3. CASE o = r
    <3>1. q.kind = "register" /\ (q.step = "user" => q.org = o) /\ to # "user"
      BY <1>4, <2>1, <2>3 DEF q
    <3>2. q.step \in {"user", "failed"} \/ \E u \in users' : u.org = o
      BY <2>1, <2>3 DEF q
    <3>3. q.step = "user" => to = "failed" \/ \E u \in users' : u.org = o
      BY <1>4, <3>1
    <3> QED
      BY <1>3, <1>4, <2>3, <3>1, <3>2, <3>3
  <2> QED
    BY <2>2, <2>3
<1>9. StaleIsGone'
  BY <1>2, <1>3, <1>4 DEF AccountsInv, StaleIsGone, q
<1> QED
  BY <1>5, <1>6, <1>7, <1>8, <1>9 DEF AccountsInv

LEMMA SendStep == ASSUME AccountsInv, NEW r \in Requests, Send(r) PROVE AccountsInv'
<1>1. PICK kind \in {"register", "login", "sso", "read", "logout"},
           email \in Emails \cup {None}, org \in SsoOrgs \cup {None},
           session \in sessions \cup {None} :
        /\ Arrive(r, kind, email, org, session)
        /\ kind \in {"register", "login", "sso"} => email \in Emails /\ session = None
        /\ kind = "sso" => org \in SsoOrgs
        /\ kind \in {"read", "logout"} => session \in sessions
  BY DEF Send
<1> DEFINE q == [kind |-> kind, step |-> "first", email |-> email, org |-> org,
                 session |-> session, stale |-> session \in gone]
<1>2. /\ request[r] = Idle /\ request' = [request EXCEPT ![r] = q]
      /\ UNCHANGED <<users, organizations, sessions, gone>>
  BY <1>1 DEF Arrive, tables
<1>3. None \notin sessions
  BY AccountsAssumption DEF AccountsInv, AccountsTyped, Sessions, Organizations
<1>4. /\ q \in AccountRequest
      /\ SignsIn(q) => q.email \in Emails
      /\ q.kind = "sso" => q.org \in SsoOrgs
      /\ q.step = "first"
      /\ q.kind \in {"read", "logout"} => q.session \in sessions
      /\ q.stale => q.session \in gone /\ q.kind \in {"read", "logout"}
  <2>1. gone \subseteq sessions /\ sessions \subseteq Sessions
    BY DEF AccountsInv, AccountsTyped
  <2>2. q \in AccountRequest
    BY <1>1, <2>1 DEF AccountRequest, Organizations
  <2>3. q.stale => session # None
    BY <1>3, <2>1
  <2> QED
    BY <1>1, <2>1, <2>2, <2>3 DEF SignsIn
<1> HIDE DEF q
<1>5. /\ request' \in [Requests -> AccountRequest] /\ request'[r] = q
      /\ \A p \in Requests : p # r => request'[p] = request[p]
  BY <1>2, <1>4 DEF AccountsInv, AccountsTyped
<1>6. AccountsTyped'
  BY <1>2, <1>4, <1>5 DEF AccountsInv, AccountsTyped, SignsIn
<1>7. SsoUserIsOurs' /\ OneUserPerAddress' /\ StaleIsGone'
  BY <1>2, <1>4, <1>5 DEF AccountsInv, SsoUserIsOurs, OneUserPerAddress, StaleIsGone
<1>8. request[r].kind = "none" /\ request[r].step = "none"
  BY <1>2 DEF Idle
<1>9. SessionsAreOfEndedRequests' /\ SsoStaysInItsOrganization'
  <2> SUFFICES ASSUME NEW s \in sessions
               PROVE  /\ SignsIn(request'[s.request]) /\ request'[s.request].step = "done"
                      /\ request'[s.request].kind = "sso" => s.org = request'[s.request].org
    BY <1>2 DEF SessionsAreOfEndedRequests, SsoStaysInItsOrganization, SignsIn
  <2>1. s.request \in Requests /\ request[s.request].step = "done"
    BY DEF AccountsInv, AccountsTyped, Sessions, SessionsAreOfEndedRequests
  <2> QED
    BY <1>5, <1>8, <2>1 DEF AccountsInv, SessionsAreOfEndedRequests, SsoStaysInItsOrganization
<1>10. OrganizationsWaitForTheirUser'
  <2> SUFFICES ASSUME NEW o \in organizations \ SsoOrgs
               PROVE  /\ request'[o].kind = "register"
                      /\ request'[o].step = "user" => request'[o].org = o
                      /\ request'[o].step \in {"user", "failed"} \/ \E u \in users : u.org = o
    BY <1>2 DEF OrganizationsWaitForTheirUser
  <2>1. /\ o \in Requests /\ o # r
    BY <1>8 DEF AccountsInv, AccountsTyped, Organizations, OrganizationsWaitForTheirUser
  <2> QED
    BY <1>5, <2>1 DEF AccountsInv, OrganizationsWaitForTheirUser
<1> QED
  BY <1>6, <1>7, <1>9, <1>10 DEF AccountsInv

LEMMA InsertOrganizationStep ==
    ASSUME AccountsInv, NEW r \in Requests, InsertOrganization(r) PROVE AccountsInv'
<1> DEFINE q == [request[r] EXCEPT !.step = "user", !.org = r]
<1>1. /\ request[r].kind = "register" /\ request[r].step = "organization"
      /\ organizations' = organizations \cup {r}
      /\ request' = [request EXCEPT ![r] = q]
      /\ UNCHANGED <<users, sessions, gone>>
      /\ request \in [Requests -> AccountRequest] /\ request[r] \in AccountRequest
  BY DEF InsertOrganization, At, AccountsInv, AccountsTyped
<1>2. /\ q \in AccountRequest /\ q.step = "user" /\ q.org = r /\ q.kind = "register"
      /\ q.email = request[r].email /\ q.stale = request[r].stale /\ q.session = request[r].session
  BY <1>1 DEF AccountRequest, Organizations
<1> HIDE DEF q
<1>3. /\ request' \in [Requests -> AccountRequest] /\ request'[r] = q
      /\ \A p \in Requests : p # r => request'[p] = request[p]
  BY <1>1, <1>2
<1>4. ~request[r].stale
  BY <1>1 DEF AccountsInv, StaleIsGone
<1>5. AccountsTyped'
  BY <1>1, <1>2, <1>3 DEF AccountsInv, AccountsTyped, SignsIn, Organizations
<1>6. SsoUserIsOurs' /\ OneUserPerAddress' /\ StaleIsGone'
  BY <1>1, <1>2, <1>3, <1>4 DEF AccountsInv, SsoUserIsOurs, OneUserPerAddress, StaleIsGone
<1>7. SessionsAreOfEndedRequests' /\ SsoStaysInItsOrganization'
  <2> SUFFICES ASSUME NEW s \in sessions
               PROVE  /\ SignsIn(request'[s.request]) /\ request'[s.request].step = "done"
                      /\ request'[s.request].kind = "sso" => s.org = request'[s.request].org
    BY <1>1 DEF SessionsAreOfEndedRequests, SsoStaysInItsOrganization, SignsIn
  <2>1. s.request \in Requests /\ request[s.request].step = "done"
    BY DEF AccountsInv, AccountsTyped, Sessions, SessionsAreOfEndedRequests
  <2> QED
    BY <1>1, <1>3, <2>1 DEF AccountsInv, SessionsAreOfEndedRequests, SsoStaysInItsOrganization
<1>8. OrganizationsWaitForTheirUser'
  <2> SUFFICES ASSUME NEW o \in organizations' \ SsoOrgs
               PROVE  /\ request'[o].kind = "register"
                      /\ request'[o].step = "user" => request'[o].org = o
                      /\ request'[o].step \in {"user", "failed"} \/ \E u \in users : u.org = o
    BY <1>1 DEF OrganizationsWaitForTheirUser
  <2>1. CASE o = r
    BY <1>2, <1>3, <2>1
  <2>2. CASE o # r
    <3>1. o \in organizations \ SsoOrgs /\ o \in Requests
      BY <1>1, <2>2 DEF AccountsInv, AccountsTyped, Organizations
    <3> QED
      BY <1>3, <2>2, <3>1 DEF AccountsInv, OrganizationsWaitForTheirUser
  <2> QED
    BY <2>1, <2>2
<1> QED
  BY <1>5, <1>6, <1>7, <1>8 DEF AccountsInv

\* The row goes in only where no row has the address.
LEMMA InsertUserStep == ASSUME AccountsInv, NEW r \in Requests, InsertUser(r) PROVE AccountsInv'
<1> DEFINE row == [email |-> request[r].email, org |-> request[r].org]
<1>1. /\ request[r].kind \in {"register", "sso"} /\ request[r].step = "user"
      /\ InsertUserRow(r) /\ UNCHANGED <<organizations, sessions, gone>>
  BY DEF InsertUser, At
<1>2. row \in [email : Emails, org : Organizations]
  BY <1>1 DEF AccountsInv, AccountsTyped, SignsIn
<1>3. ~request[r].stale
  BY <1>1 DEF AccountsInv, StaleIsGone
<1>4. CASE UserOf(request[r].email) = {}
  <2>1. users' = users \cup {row} /\ Goto(r, "audit")
    BY <1>1, <1>4 DEF InsertUserRow
  <2>2. OneUserPerAddress'
    BY <1>4, <2>1 DEF AccountsInv, OneUserPerAddress, UserOf
  <2>3. MayGoTo(r, "audit")
    <3>1. row \in users' /\ row.org = request[r].org
      BY <2>1
    <3> QED
      BY <1>1, <1>3, <3>1 DEF MayGoTo
  <2>4. users' \subseteq [email : Emails, org : Organizations] /\ gone \subseteq sessions
    BY <1>2, <2>1 DEF AccountsInv, AccountsTyped
  <2> QED
    BY <1>1, <2>1, <2>2, <2>3, <2>4, RequestMoves
<1>5. CASE UserOf(request[r].email) # {}
  <2>1. users' = users /\ Goto(r, "failed")
    BY <1>1, <1>5 DEF InsertUserRow
  <2>2. OneUserPerAddress'
    BY <2>1 DEF AccountsInv, OneUserPerAddress
  <2>3. MayGoTo(r, "failed")
    BY <1>1, <1>3, <2>1 DEF MayGoTo
  <2>4. users' \subseteq [email : Emails, org : Organizations] /\ gone \subseteq sessions
    BY <2>1 DEF AccountsInv, AccountsTyped
  <2> QED
    BY <1>1, <2>1, <2>2, <2>3, <2>4, RequestMoves
<1> QED
  BY <1>4, <1>5

\* The session is of the one user with the request's address.
LEMMA CreateSessionStep == ASSUME AccountsInv, NEW r \in Requests, CreateSession(r) PROVE AccountsInv'
<1>1. /\ SignsIn(request[r]) /\ request[r].step = "session"
      /\ Goto(r, "done") /\ UNCHANGED <<users, organizations, gone>>
      /\ request[r].kind \in {"register", "login", "sso"}
  BY DEF CreateSession, At, SignsIn
<1>2. PICK u \in UserOf(request[r].email) :
        sessions' = sessions \cup {[request |-> r, email |-> u.email, org |-> u.org]}
  BY DEF CreateSession
<1> DEFINE q == [request[r] EXCEPT !.step = "done"]
           new == [request |-> r, email |-> u.email, org |-> u.org]
<1>3. /\ request' = [request EXCEPT ![r] = q] /\ request[r] \in AccountRequest
      /\ request \in [Requests -> AccountRequest]
  BY <1>1 DEF Goto, AccountsInv, AccountsTyped
<1>4. /\ q \in AccountRequest /\ q.step = "done" /\ q.kind = request[r].kind
      /\ q.email = request[r].email /\ q.org = request[r].org
      /\ q.stale = request[r].stale /\ q.session = request[r].session
  BY <1>3 DEF AccountRequest
<1>5. u \in users /\ u.email = request[r].email /\ new \in Sessions
  BY <1>2 DEF UserOf, AccountsInv, AccountsTyped, Sessions
<1>6. new.request = r /\ new.org = u.org
  OBVIOUS
<1> HIDE DEF q, new
<1>7. /\ request' \in [Requests -> AccountRequest] /\ request'[r] = q
      /\ \A p \in Requests : p # r => request'[p] = request[p]
  BY <1>3, <1>4
<1>8. sessions' = sessions \cup {new}
  BY <1>2 DEF new
<1>9. AccountsTyped'
  BY <1>1, <1>4, <1>5, <1>7, <1>8 DEF AccountsInv, AccountsTyped, SignsIn
<1>10. ~request[r].stale
  BY <1>1 DEF AccountsInv, StaleIsGone
<1>11. SsoUserIsOurs' /\ OneUserPerAddress' /\ StaleIsGone'
  BY <1>1, <1>4, <1>7, <1>10 DEF AccountsInv, SsoUserIsOurs, OneUserPerAddress, StaleIsGone
<1>12. request[r].kind = "sso" => u.org = request[r].org
  <2> SUFFICES ASSUME request[r].kind = "sso"
               PROVE  u.org = request[r].org
    OBVIOUS
  <2> DEFINE ours == [email |-> request[r].email, org |-> request[r].org]
  <2>1. ours \in users
    BY <1>1 DEF AccountsInv, SsoUserIsOurs
  <2>2. ours.email = u.email /\ ours.org = request[r].org
    BY <1>5
  <2>3. u = ours
    BY <1>5, <2>1, <2>2 DEF AccountsInv, OneUserPerAddress
  <2> QED
    BY <2>2, <2>3
<1>13. SessionsAreOfEndedRequests' /\ SsoStaysInItsOrganization'
  <2> SUFFICES ASSUME NEW s \in sessions'
               PROVE  /\ SignsIn(request'[s.request]) /\ request'[s.request].step = "done"
                      /\ request'[s.request].kind = "sso" => s.org = request'[s.request].org
    BY DEF SessionsAreOfEndedRequests, SsoStaysInItsOrganization, SignsIn
  <2>1. CASE s = new
    BY <1>1, <1>4, <1>6, <1>7, <1>12, <2>1 DEF SignsIn
  <2>2. CASE s \in sessions
    <3>1. s.request \in Requests /\ request[s.request].step = "done"
      BY <2>2 DEF AccountsInv, AccountsTyped, Sessions, SessionsAreOfEndedRequests
    <3> QED
      BY <1>1, <1>7, <2>2, <3>1
      DEF AccountsInv, SessionsAreOfEndedRequests, SsoStaysInItsOrganization
  <2> QED
    BY <1>8, <2>1, <2>2
<1>14. OrganizationsWaitForTheirUser'
  <2> SUFFICES ASSUME NEW o \in organizations \ SsoOrgs
               PROVE  /\ request'[o].kind = "register"
                      /\ request'[o].step = "user" => request'[o].org = o
                      /\ request'[o].step \in {"user", "failed"} \/ \E v \in users : v.org = o
    BY <1>1 DEF OrganizationsWaitForTheirUser
  <2>1. o \in Requests
    BY DEF AccountsInv, AccountsTyped, Organizations
  <2> QED
    BY <1>1, <1>4, <1>7, <2>1 DEF AccountsInv, OrganizationsWaitForTheirUser
<1> QED
  BY <1>9, <1>11, <1>13, <1>14 DEF AccountsInv

\* Every other statement only moves its request on.
LEMMA StatementStep ==
    ASSUME AccountsInv, NEW r \in Requests,
           \/ CheckEmail(r) \/ Login(r) \/ SsoCallback(r) \/ WriteAudit(r)
           \/ ValidateSession(r) \/ LoadIdentity(r) \/ AuditLogout(r) \/ Fail(r)
           \/ RevokeSession(r)
    PROVE  AccountsInv'
<1> DEFINE q == request[r]
<1>1. /\ gone \subseteq sessions /\ users \subseteq [email : Emails, org : Organizations]
      /\ OneUserPerAddress
      /\ q.stale => q.session \in gone /\ q.kind \in {"read", "logout"}
                    /\ q.step \in {"first", "refused", "failed"}
      /\ q.kind = "logout" => q.session \in sessions
      /\ q.kind = "sso" /\ q.step = "audit" =>
            [email |-> q.email, org |-> q.org] \in users
  BY DEF AccountsInv, AccountsTyped, StaleIsGone, SsoUserIsOurs
<1>2. /\ UNCHANGED <<users, organizations, sessions>>
      /\ gone' \in {gone, gone \cup {q.session}}
      /\ gone' # gone => q.kind = "logout"
  BY DEF CheckEmail, Login, SsoCallback, WriteAudit, ValidateSession, LoadIdentity,
         AuditLogout, Fail, RevokeSession, At, tables
<1>3. \E to \in {"organization", "user", "audit", "session", "identity", "revoke",
                   "logged", "admitted", "done", "refused", "failed"} :
        Goto(r, to) /\ MayGoTo(r, to)
  <2>1. CASE CheckEmail(r)
    BY <1>1, <1>2, <2>1 DEF CheckEmail, At, MayGoTo
  <2>2. CASE Login(r)
    BY <1>1, <1>2, <2>2 DEF Login, At, MayGoTo
  <2>3. CASE SsoCallback(r)
    <3> DEFINE found == UserOf(q.email)
    <3>1. q.kind = "sso" /\ q.step = "first" /\ ~q.stale
      BY <1>1, <2>3 DEF SsoCallback, At
    <3>2. CASE \E u \in found : u.org = q.org
      <4>1. PICK u \in found : u.org = q.org
        BY <3>2
      <4>2. u \in users /\ u.email = q.email
        BY <4>1 DEF UserOf
      <4>3. u = [email |-> q.email, org |-> q.org]
        BY <1>1, <4>1, <4>2
      <4>4. MayGoTo(r, "audit")
        BY <1>2, <3>1, <4>2, <4>3 DEF MayGoTo
      <4>5. Goto(r, "audit")
        BY <2>3, <3>2 DEF SsoCallback
      <4> QED
        BY <4>4, <4>5
    <3>3. CASE ~\E u \in found : u.org = q.org
      <4>1. Goto(r, "user") \/ Goto(r, "refused")
        BY <2>3, <3>3 DEF SsoCallback
      <4>2. MayGoTo(r, "user") /\ MayGoTo(r, "refused")
        BY <3>1 DEF MayGoTo
      <4> QED
        BY <4>1, <4>2
    <3> QED
      BY <3>2, <3>3
  <2>4. CASE WriteAudit(r)
    BY <1>1, <1>2, <2>4 DEF WriteAudit, At, MayGoTo
  <2>5. CASE ValidateSession(r)
    BY <1>1, <1>2, <2>5 DEF ValidateSession, At, MayGoTo, Alive
  <2>6. CASE LoadIdentity(r)
    BY <1>1, <1>2, <2>6 DEF LoadIdentity, At, MayGoTo
  <2>7. CASE AuditLogout(r)
    BY <1>1, <1>2, <2>7 DEF AuditLogout, At, MayGoTo
  <2>8. CASE Fail(r)
    BY <1>1, <1>2, <2>8 DEF Fail, MayGoTo
  <2>9. CASE RevokeSession(r)
    BY <1>1, <1>2, <2>9 DEF RevokeSession, At, MayGoTo
  <2> QED
    BY <2>1, <2>2, <2>3, <2>4, <2>5, <2>6, <2>7, <2>8, <2>9
<1>4. /\ gone \subseteq gone' /\ gone' \subseteq sessions
      /\ OneUserPerAddress' /\ users' \subseteq [email : Emails, org : Organizations]
  BY <1>1, <1>2 DEF OneUserPerAddress
<1> QED
  BY <1>2, <1>3, <1>4, RequestMoves

LEMMA AccountsInvStep == AccountsInv /\ [AccountsNext]_accountsVars => AccountsInv'
<1> SUFFICES ASSUME AccountsInv, [AccountsNext]_accountsVars
             PROVE  AccountsInv'
  OBVIOUS
<1>1. ASSUME UNCHANGED <<request, users, organizations, sessions, gone>>
      PROVE  AccountsInv'
  BY <1>1 DEF AccountsInv, AccountsTyped, OneUserPerAddress, SsoUserIsOurs, SessionsAreOfEndedRequests,
              SsoStaysInItsOrganization, OrganizationsWaitForTheirUser, StaleIsGone, SignsIn
<1>2. CASE Expire \/ ChangePlan \/ UNCHANGED accountsVars
  BY <1>1, <1>2 DEF Expire, ChangePlan, accountsVars, tables
<1>3. ASSUME NEW r \in Requests,
             \/ Send(r) \/ Fail(r)
             \/ CheckEmail(r) \/ InsertOrganization(r) \/ InsertUser(r)
             \/ Login(r) \/ SsoCallback(r)
             \/ WriteAudit(r) \/ CreateSession(r)
             \/ ValidateSession(r) \/ LoadIdentity(r) \/ RevokeSession(r) \/ AuditLogout(r)
      PROVE  AccountsInv'
  BY <1>3, SendStep, InsertOrganizationStep, InsertUserStep, CreateSessionStep, StatementStep
<1> QED
  BY <1>2, <1>3 DEF AccountsNext

-----------------------------------------------------------------------------

\* routes/sso.ts: whatever requests run between a callback's look-up and its
\* insert, its session is one of a user of the organization that vouched.
THEOREM SsoSessionsAreOurs == AccountsSpec => []SsoStaysInItsOrganization
<1>1. AccountsInv => SsoStaysInItsOrganization
  BY DEF AccountsInv
<1> QED
  BY AccountsInvInit, AccountsInvStep, <1>1, PTL DEF AccountsSpec

\* routes/auth.ts: an organization without a user is the mark of a request
\* that is about to insert it, or failed.
THEOREM EmptyOrganizationsFailed == AccountsSpec => []EmptyOrganizationsAreFailures
<1>1. AccountsInv => EmptyOrganizationsAreFailures
  BY DEF AccountsInv, OrganizationsWaitForTheirUser, EmptyOrganizationsAreFailures
<1> QED
  BY AccountsInvInit, AccountsInvStep, <1>1, PTL DEF AccountsSpec

\* session.ts: a request that arrives after the logout is never let in.
THEOREM RevokedSessionsStayOut == AccountsSpec => []RevokedStaysOut
<1>1. AccountsInv => RevokedStaysOut
  BY DEF AccountsInv, StaleIsGone, RevokedStaysOut
<1> QED
  BY AccountsInvInit, AccountsInvStep, <1>1, PTL DEF AccountsSpec

\* No statement removes a session, none but the administrator's writes a plan.
LEMMA SessionsStay ==
    ASSUME AccountsInv, NEW r \in Requests,
           \/ Send(r) \/ Fail(r)
           \/ CheckEmail(r) \/ InsertOrganization(r) \/ InsertUser(r)
           \/ Login(r) \/ SsoCallback(r)
           \/ WriteAudit(r) \/ CreateSession(r)
           \/ ValidateSession(r) \/ LoadIdentity(r) \/ RevokeSession(r) \/ AuditLogout(r)
    PROVE  sessions \subseteq sessions' /\ UNCHANGED <<plan, expired>>
BY DEF Send, Arrive, Fail, CheckEmail, InsertOrganization, InsertUser, Login, SsoCallback,
       WriteAudit, CreateSession, ValidateSession, LoadIdentity, RevokeSession, AuditLogout,
       tables

\* The tables keep their form under any interleaving: an address has at most
\* one user, and only sessions that exist are revoked or expire.
THEOREM TablesAreWellFormed == AccountsSpec => []AccountsTypeOK
<1> DEFINE Rest == plan \in [Organizations -> Plans] /\ expired \subseteq sessions
<1>1. AccountsInit => Rest
  BY DEF AccountsInit
<1>2. AccountsInv /\ Rest /\ [AccountsNext]_accountsVars => Rest'
  <2> SUFFICES ASSUME AccountsInv, Rest, [AccountsNext]_accountsVars
               PROVE  Rest'
    OBVIOUS
  <2>1. CASE Expire
    BY <2>1 DEF Expire, tables
  <2>2. CASE ChangePlan
    BY <2>2 DEF ChangePlan
  <2>3. CASE UNCHANGED accountsVars
    BY <2>3 DEF accountsVars, tables
  <2>4. ASSUME NEW r \in Requests,
               \/ Send(r) \/ Fail(r)
               \/ CheckEmail(r) \/ InsertOrganization(r) \/ InsertUser(r)
               \/ Login(r) \/ SsoCallback(r)
               \/ WriteAudit(r) \/ CreateSession(r)
               \/ ValidateSession(r) \/ LoadIdentity(r) \/ RevokeSession(r) \/ AuditLogout(r)
        PROVE  Rest'
    BY <2>4, SessionsStay
  <2> QED
    BY <2>1, <2>2, <2>3, <2>4 DEF AccountsNext
<1>3. AccountsInv /\ Rest => AccountsTypeOK
  <2> SUFFICES ASSUME AccountsInv, Rest
               PROVE  AccountsTypeOK
    OBVIOUS
  <2>1. ASSUME NEW email \in Emails
        PROVE  Cardinality(UserOf(email)) <= 1
    <3>1. CASE UserOf(email) = {}
      BY <3>1, FS_EmptySet
    <3>2. ASSUME NEW u \in UserOf(email)
          PROVE  Cardinality(UserOf(email)) = 1
      <4>1. UserOf(email) = {u}
        BY <3>2 DEF AccountsInv, OneUserPerAddress, UserOf
      <4> QED
        BY <4>1, FS_Singleton
    <3> QED
      BY <3>1, <3>2
  <2> QED
    BY <2>1 DEF AccountsInv, AccountsTyped, Sessions, AccountsTypeOK
<1> QED
  BY <1>1, <1>2, <1>3, AccountsInvInit, AccountsInvStep, PTL DEF AccountsSpec

-----------------------------------------------------------------------------
(* LivePage and MarketStream                                               *)

Event == [channel : ChannelSet, no : Nat \ {0}]

StreamTyped ==
    /\ handler \in [Streams -> Unopened..Len(Channels)]
    /\ client \in [Streams -> {"here", "early", "late"}]
    /\ listeners \in [ChannelSet -> SUBSET Streams]
    /\ unsubscribing \subseteq Streams \X ChannelSet
    /\ stored \in [ChannelSet -> Nat] /\ published \in [ChannelSet -> Nat]
    /\ \A c \in ChannelSet : published[c] <= stored[c] /\ stored[c] <= published[c] + 1
    /\ pipe \in [Streams -> Seq(Event)]

\* The channels a stream's route has subscribed so far.
Subscribed(k) == {Channels[i] : i \in 1..handler[k]}

\* Only a client that left a fully subscribed stream unsubscribes anything.
UnsubscribersAreLate ==
    /\ \A k \in Streams, c \in ChannelSet : <<k, c>> \in unsubscribing => client[k] = "late"
    /\ \A k \in Streams : client[k] = "late" => Registered(k)

\* A stream listens to what it subscribed, no more; and no less, unless some
\* other stream's client has left.
ListenersSubscribed ==
    \A k \in Streams, c \in ChannelSet :
        /\ k \in listeners[c] => c \in Subscribed(k)
        /\ c \in Subscribed(k) /\ client[k] = "here" /\ k \notin listeners[c] =>
            \E other \in Streams \ {k} : client[other] = "late"

StreamInv == StreamTyped /\ UnsubscribersAreLate /\ ListenersSubscribed /\ LeaversAreForgotten

-----------------------------------------------------------------------------

LEMMA ChannelsAreNumbered ==
    /\ Channels \in Seq(ChannelSet) /\ Len(Channels) \in Nat
    /\ ChannelSet = {Channels[i] : i \in 1..Len(Channels)}
    /\ \A i, j \in 1..Len(Channels) : Channels[i] = Channels[j] => i = j
<1>1. Channels \in Seq(ToSet(Channels)) /\ IsInjective(Channels)
  BY MarketStreamAssumption
<1>2. DOMAIN Channels = 1..Len(Channels) /\ Len(Channels) \in Nat
  BY <1>1
<1> QED
  BY <1>1, <1>2 DEF ChannelSet, ToSet, IsInjective

\* A stream that subscribed all its channels subscribed every channel.
LEMMA RegisteredIsSubscribed ==
    ASSUME NEW k \in Streams, Registered(k)
    PROVE  Subscribed(k) = ChannelSet
BY ChannelsAreNumbered DEF Registered, Subscribed

LEMMA StreamInitInv == Init => StreamInv
<1> SUFFICES ASSUME StreamInit
             PROVE  StreamInv
  BY DEF Init
<1>1. Len(Channels) \in Nat /\ << >> \in Seq(Event)
  BY ChannelsAreNumbered
<1>2. \A k \in Streams : handler[k] = -1 /\ client[k] = "here"
  BY DEF StreamInit, Unopened
<1>3. StreamTyped
  BY <1>1 DEF StreamInit, StreamTyped, Unopened
<1>4. \A k \in Streams : Subscribed(k) = {}
  BY <1>2 DEF Subscribed
<1> QED
  BY <1>2, <1>3, <1>4 DEF StreamInit, StreamInv, UnsubscribersAreLate, ListenersSubscribed,
     LeaversAreForgotten

-----------------------------------------------------------------------------
(* Each step of the streams                                                *)

LEMMA OpenKeeps ==
    ASSUME StreamInv, NEW k \in Streams, Open(k)
    PROVE  StreamInv'
<1> USE ChannelsAreNumbered DEF StreamInv, StreamTyped, Unopened
<1>1. /\ handler' = [handler EXCEPT ![k] = 0] /\ handler[k] = -1 /\ client[k] = "here"
      /\ UNCHANGED <<client, listeners, unsubscribing, stored, published, pipe>>
  BY DEF Open, feed
<1>2. Len(Channels) # 0
  BY MarketStreamAssumption
<1>3. StreamTyped'
  <2>1. 0 \in Unopened..Len(Channels)
    OBVIOUS
  <2>2. handler' \in [Streams -> Unopened..Len(Channels)]
    BY <1>1, <2>1
  <2> QED
    BY <1>1, <2>2
<1>4. UnsubscribersAreLate'
  BY <1>1, <1>2 DEF UnsubscribersAreLate, Registered
<1>5. \A q \in Streams : Subscribed(q)' = Subscribed(q)
  <2>1. Subscribed(k)' = {} /\ Subscribed(k) = {}
    BY <1>1 DEF Subscribed
  <2>2. \A q \in Streams \ {k} : handler'[q] = handler[q]
    BY <1>1
  <2> QED
    BY <2>1, <2>2 DEF Subscribed
<1>6. ListenersSubscribed'
  <2> SUFFICES ASSUME NEW q \in Streams, NEW d \in ChannelSet
               PROVE  /\ q \in listeners[d] => d \in Subscribed(q)'
                      /\ d \in Subscribed(q)' /\ client[q] = "here" /\ q \notin listeners[d] =>
                            \E other \in Streams \ {q} : client[other] = "late"
    BY <1>1 DEF ListenersSubscribed
  <2>1. d \in Subscribed(q)' <=> d \in Subscribed(q)
    BY <1>5
  <2> QED
    BY <2>1 DEF ListenersSubscribed
<1>7. LeaversAreForgotten'
  BY <1>1 DEF LeaversAreForgotten
<1> QED
  BY <1>3, <1>4, <1>6, <1>7

\* The next channel is one the stream has not subscribed yet.
LEMMA SubscribeAddsOne ==
    ASSUME StreamInv, NEW k \in Streams, Subscribe(k)
    PROVE  LET c == Channels[handler[k] + 1]
           IN  /\ c \in ChannelSet /\ c \notin Subscribed(k)
               /\ Subscribed(k)' = Subscribed(k) \cup {c}
               /\ \A q \in Streams \ {k} : Subscribed(q)' = Subscribed(q)
               /\ handler' = [handler EXCEPT ![k] = @ + 1]
               /\ listeners' = [listeners EXCEPT ![c] = @ \cup {k}]
<1> USE ChannelsAreNumbered DEF StreamInv, StreamTyped, Unopened
<1>1. /\ handler[k] \in 0..(Len(Channels) - 1)
      /\ handler' = [handler EXCEPT ![k] = @ + 1]
      /\ listeners' = [listeners EXCEPT ![Channels[handler'[k]]] = @ \cup {k}]
  BY DEF Subscribe
<1>2. handler'[k] = handler[k] + 1 /\ \A q \in Streams \ {k} : handler'[q] = handler[q]
  BY <1>1
<1>3. /\ handler[k] + 1 \in 1..Len(Channels) /\ 1..handler[k] \subseteq 1..Len(Channels)
      /\ handler[k] + 1 \notin 1..handler[k]
      /\ 1..(handler[k] + 1) = 1..handler[k] \cup {handler[k] + 1}
  <2>1. handler[k] \in Nat /\ handler[k] < Len(Channels) /\ Len(Channels) \in Nat
    BY <1>1
  <2> QED
    BY <2>1
<1>4. Channels[handler[k] + 1] \in ChannelSet
  BY <1>3
<1>5. Channels[handler[k] + 1] \notin Subscribed(k)
  <2>1. \A i \in 1..handler[k] : Channels[i] # Channels[handler[k] + 1]
    BY ONLY <1>3, ChannelsAreNumbered
  <2> QED
    BY ONLY <2>1 DEF Subscribed
<1>6. Subscribed(k)' = Subscribed(k) \cup {Channels[handler[k] + 1]}
  <2>1. Subscribed(k)' = {Channels[i] : i \in 1..(handler[k] + 1)}
    BY <1>2 DEF Subscribed
  <2>2. \A i : i \in 1..(handler[k] + 1) <=> i \in 1..handler[k] \/ i = handler[k] + 1
    BY <1>3
  <2>3. \A x : x \in Subscribed(k)' <=> x \in Subscribed(k) \/ x = Channels[handler[k] + 1]
    BY <2>1, <2>2 DEF Subscribed
  <2> QED
    BY <2>3
<1>7. \A q \in Streams \ {k} : Subscribed(q)' = Subscribed(q)
  BY <1>2 DEF Subscribed
<1> QED
  BY <1>1, <1>2, <1>4, <1>5, <1>6, <1>7

LEMMA SubscribeKeeps ==
    ASSUME StreamInv, NEW k \in Streams, Subscribe(k)
    PROVE  StreamInv'
<1> USE ChannelsAreNumbered DEF StreamInv, StreamTyped, Unopened
<1> DEFINE c == Channels[handler[k] + 1]
<1>1. /\ handler[k] \in 0..(Len(Channels) - 1)
      /\ UNCHANGED <<client, unsubscribing, stored, published, pipe>>
  BY DEF Subscribe, feed
<1>2. /\ c \in ChannelSet /\ Subscribed(k)' = Subscribed(k) \cup {c}
      /\ \A q \in Streams \ {k} : Subscribed(q)' = Subscribed(q)
      /\ handler' = [handler EXCEPT ![k] = @ + 1]
      /\ listeners' = [listeners EXCEPT ![c] = @ \cup {k}]
  BY SubscribeAddsOne
<1>3. client[k] # "late"
  BY <1>1 DEF UnsubscribersAreLate, Registered
<1> HIDE DEF c
<1>4. StreamTyped'
  <2>1. handler[k] + 1 \in Unopened..Len(Channels)
    BY <1>1
  <2>2. handler' \in [Streams -> Unopened..Len(Channels)]
    BY <1>2, <2>1
  <2>3. listeners' \in [ChannelSet -> SUBSET Streams]
    BY <1>2
  <2> QED
    BY <1>1, <2>2, <2>3
<1>5. UnsubscribersAreLate'
  BY <1>1, <1>2, <1>3 DEF UnsubscribersAreLate, Registered
<1>6. ListenersSubscribed'
  <2> SUFFICES ASSUME NEW q \in Streams, NEW d \in ChannelSet
               PROVE  /\ q \in listeners'[d] => d \in Subscribed(q)'
                      /\ d \in Subscribed(q)' /\ client[q] = "here" /\ q \notin listeners'[d] =>
                            \E other \in Streams \ {q} : client[other] = "late"
    BY <1>1 DEF ListenersSubscribed
  <2>1. CASE q = k /\ d = c
    BY <1>2, <2>1
  <2>2. CASE ~(q = k /\ d = c)
    <3>1. q \in listeners'[d] <=> q \in listeners[d]
      BY <1>2, <2>2
    <3>2. d \in Subscribed(q)' <=> d \in Subscribed(q)
      BY <1>2, <2>2
    <3> QED
      BY <3>1, <3>2 DEF ListenersSubscribed
  <2> QED
    BY <2>1, <2>2
<1>7. LeaversAreForgotten'
  BY <1>1, <1>2, <1>3 DEF LeaversAreForgotten
<1> QED
  BY <1>4, <1>5, <1>6, <1>7

LEMMA LeaveKeeps ==
    ASSUME StreamInv, NEW k \in Streams, Leave(k)
    PROVE  StreamInv'
<1> USE DEF StreamInv, StreamTyped, Unopened
<1> DEFINE left == IF Registered(k) THEN "late" ELSE "early"
           forgotten == {<<k, c>> : c \in IF Registered(k) THEN ChannelSet ELSE {}}
<1>1. /\ client[k] = "here" /\ client' = [client EXCEPT ![k] = left]
      /\ unsubscribing' = unsubscribing \cup forgotten
      /\ pipe' = [pipe EXCEPT ![k] = << >>]
      /\ UNCHANGED <<handler, listeners, stored, published>>
  BY DEF Leave, feed
<1>2. left \in {"early", "late"} /\ (left = "late" <=> Registered(k))
  OBVIOUS
<1>3. /\ forgotten \subseteq {k} \X ChannelSet
      /\ left = "late" => \A c \in ChannelSet : <<k, c>> \in forgotten
      /\ forgotten # {} => left = "late"
  OBVIOUS
<1> HIDE DEF left, forgotten
<1>4. StreamTyped'
  <2>1. << >> \in Seq(Event)
    OBVIOUS
  <2> QED
    BY <1>1, <1>2, <1>3, <2>1
<1>5. UnsubscribersAreLate'
  BY <1>1, <1>2, <1>3 DEF UnsubscribersAreLate, Registered
<1>6. ListenersSubscribed'
  <2>1. \A q \in Streams : Subscribed(q)' = Subscribed(q)
    BY <1>1 DEF Subscribed
  <2>2. \A q \in Streams : client'[q] = "here" => client[q] = "here"
    BY <1>1, <1>2
  <2>3. \A q \in Streams : client[q] = "late" => client'[q] = "late"
    BY <1>1
  <2> QED
    BY <1>1, <2>1, <2>2, <2>3 DEF ListenersSubscribed
<1>7. LeaversAreForgotten'
  BY <1>1, <1>2, <1>3 DEF LeaversAreForgotten
<1> QED
  BY <1>4, <1>5, <1>6, <1>7

LEMMA UnsubscribeKeeps ==
    ASSUME StreamInv, NEW k \in Streams, NEW c \in ChannelSet, Unsubscribe(k, c)
    PROVE  StreamInv'
<1> USE DEF StreamInv, StreamTyped
<1>1. /\ <<k, c>> \in unsubscribing /\ unsubscribing' = unsubscribing \ {<<k, c>>}
      /\ listeners' = [listeners EXCEPT ![c] = {}]
      /\ UNCHANGED <<handler, client, stored, published, pipe>>
  BY DEF Unsubscribe, feed
<1>2. client[k] = "late"
  BY <1>1 DEF UnsubscribersAreLate
<1>3. StreamTyped'
  BY <1>1
<1>4. UnsubscribersAreLate'
  BY <1>1 DEF UnsubscribersAreLate, Registered
<1>5. ListenersSubscribed'
  <2>1. \A q \in Streams : Subscribed(q)' = Subscribed(q)
    BY <1>1 DEF Subscribed
  <2> SUFFICES ASSUME NEW q \in Streams, NEW d \in ChannelSet
               PROVE  /\ q \in listeners'[d] => d \in Subscribed(q)
                      /\ d \in Subscribed(q) /\ client[q] = "here" /\ q \notin listeners'[d] =>
                            \E other \in Streams \ {q} : client[other] = "late"
    BY <1>1, <2>1 DEF ListenersSubscribed
  <2>2. CASE d = c
    BY <1>1, <1>2, <2>2
  <2>3. CASE d # c
    BY <1>1, <2>3 DEF ListenersSubscribed
  <2> QED
    BY <2>2, <2>3
<1>6. LeaversAreForgotten'
  BY <1>1 DEF LeaversAreForgotten
<1> QED
  BY <1>3, <1>4, <1>5, <1>6

\* Storing, publishing and receiving move events, not listeners.
LEMMA EventsKeep ==
    ASSUME StreamInv, StreamTyped', UNCHANGED hub
    PROVE  StreamInv'
BY DEF StreamInv, hub, UnsubscribersAreLate, ListenersSubscribed, LeaversAreForgotten,
       Registered, Subscribed

LEMMA StoreTyped ==
    ASSUME StreamTyped, NEW c \in ChannelSet, Store(c)
    PROVE  StreamTyped'
BY DEF StreamTyped, Store, hub

LEMMA PublishTyped ==
    ASSUME StreamTyped, NEW c \in ChannelSet, Publish(c)
    PROVE  StreamTyped'
<1>1. /\ published[c] < stored[c] /\ published' = [published EXCEPT ![c] = @ + 1]
      /\ UNCHANGED <<handler, client, listeners, unsubscribing, stored>>
  BY DEF Publish, hub
<1>2. [channel |-> c, no |-> published'[c]] \in Event
  BY <1>1 DEF StreamTyped, Event
<1>3. \A q \in Seq(Event), e \in Event : Append(q, e) \in Seq(Event)
  OBVIOUS
<1>4. pipe' \in [Streams -> Seq(Event)]
  BY <1>2, <1>3 DEF StreamTyped, Publish
<1> QED
  BY <1>1, <1>4 DEF StreamTyped

LEMMA ReceivedTyped ==
    ASSUME StreamTyped, NEW k \in Streams, Received(k)
    PROVE  StreamTyped'
<1>1. /\ pipe[k] # << >> /\ pipe' = [pipe EXCEPT ![k] = Tail(@)]
      /\ UNCHANGED <<handler, client, listeners, unsubscribing, stored, published>>
  BY DEF Received, hub, feed
<1>2. \A q \in Seq(Event) : q # << >> => Tail(q) \in Seq(Event)
  OBVIOUS
<1> QED
  BY <1>1, <1>2 DEF StreamTyped

LEMMA NextKeeps == StreamInv /\ [Next]_vars => StreamInv'
<1> SUFFICES ASSUME StreamInv, [Next]_vars
             PROVE  StreamInv'
  OBVIOUS
<1>1. CASE UNCHANGED streamVars
  BY <1>1, EventsKeep DEF streamVars, feed, hub, StreamInv, StreamTyped
<1>2. ASSUME NEW k \in Streams, Open(k) \/ Subscribe(k) \/ Leave(k)
      PROVE  StreamInv'
  BY <1>2, OpenKeeps, SubscribeKeeps, LeaveKeeps
<1>3. ASSUME NEW k \in Streams, NEW c \in ChannelSet, Unsubscribe(k, c)
      PROVE  StreamInv'
  BY <1>3, UnsubscribeKeeps
<1>4. ASSUME NEW c \in ChannelSet, Store(c)
      PROVE  StreamInv'
  BY <1>4, StoreTyped, EventsKeep DEF Store, StreamInv
<1>5. ASSUME NEW c \in ChannelSet, Publish(c)
      PROVE  StreamInv'
  BY <1>5, PublishTyped, EventsKeep DEF Publish, StreamInv
<1>6. ASSUME NEW k \in Streams, Received(k)
      PROVE  StreamInv'
  BY <1>6, ReceivedTyped, EventsKeep DEF Received, StreamInv
<1>7. CASE ReadSnapshot \/ ApplySnapshot \/ ReadHistory \/ ApplyHistory
  BY <1>1, <1>7 DEF ReadSnapshot, ApplySnapshot, ReadHistory, ApplyHistory
<1> QED
  BY <1>1, <1>2, <1>3, <1>4, <1>5, <1>6, <1>7 DEF Next, StreamNext, vars

\* With any number of streams, a fully subscribed one falls silent only after
\* another fully subscribed one has left: unsubscribe() by channel does harm to
\* the others, and nothing else in the route does.
THEOREM OnlyLeaversDo == Spec => []OnlyLeaversSilence
<1>1. StreamInv => OnlyLeaversSilence
  BY RegisteredIsSubscribed DEF StreamInv, ListenersSubscribed, OnlyLeaversSilence
<1> QED
  BY <1>1, StreamInitInv, NextKeeps, PTL DEF Spec

\* With any number of streams, no fully subscribed stream whose client left is
\* called once its unsubscribe() commands are through.
THEOREM LateLeaversAreForgotten == Spec => []LeaversAreForgotten
<1>1. StreamInv => LeaversAreForgotten
  BY DEF StreamInv
<1> QED
  BY <1>1, StreamInitInv, NextKeeps, PTL DEF Spec

-----------------------------------------------------------------------------
(* The dashboard's price                                                   *)

\* The dashboard's stream has listened to the ticks since before the snapshot
\* was read: it subscribes a channel once, so it cannot have come back to it.
Listening ==
    snapshot.heard /\ Dashboard \in listeners["tick"] /\ client[Dashboard] = "here"

\* The newest tick under way is the newest one published.
LastTickIsNewest ==
    \A i \in DOMAIN pipe[Dashboard] :
        /\ pipe[Dashboard][i].channel = "tick"
        /\ \A j \in DOMAIN pipe[Dashboard] : j > i => pipe[Dashboard][j].channel # "tick"
        => pipe[Dashboard][i].no >= published["tick"]

\* With nothing under way, the newest price is in the answer or on the page.
PriceIsKnown ==
    Drained(Dashboard, "tick") =>
        /\ snapshot.step = "answering" /\ lastPrice = 0 => snapshot.read >= published["tick"]
        /\ snapshot.step = "applied" /\ snapshot.first => lastPrice >= published["tick"]

PageInv ==
    /\ StreamInv
    /\ lastPrice \in Nat /\ snapshot \in Request
    /\ snapshot.heard => snapshot.step # "asked" /\ "tick" \in Subscribed(Dashboard)
    /\ Listening => LastTickIsNewest /\ PriceIsKnown

LEMMA PageConstants ==
    Dashboard \in Streams /\ "tick" \in ChannelSet /\ "tick" \in Wanted[Dashboard]
BY LivePageAssumption

LEMMA PageInitInv == Init => PageInv
<1> SUFFICES ASSUME Init
             PROVE  PageInv
  OBVIOUS
<1>1. snapshot = Asked /\ lastPrice = 0
  BY DEF Init
<1>2. snapshot \in Request /\ ~snapshot.heard
  BY <1>1 DEF Asked, Request
<1> QED
  BY <1>1, <1>2, StreamInitInv DEF PageInv, Listening

\* What a step must not change for the price to stay known.
LEMMA StreamMovesKeep ==
    ASSUME PageInv, StreamInv',
           UNCHANGED <<lastPrice, snapshot>>,
           "tick" \in Subscribed(Dashboard) => "tick" \in Subscribed(Dashboard)',
           Listening' => Listening /\ pipe'[Dashboard] = pipe[Dashboard]
                         /\ published'["tick"] = published["tick"]
    PROVE  PageInv'
BY DEF PageInv, Listening, LastTickIsNewest, PriceIsKnown, Drained

\* A step of the streams' routes brings no stream back to a channel it has
\* subscribed, and leaves what is under way to those that stay.
LEMMA HubBringsNobodyBack ==
    ASSUME StreamInv, NEW q \in Streams, NEW d \in ChannelSet, d \in Subscribed(q),
           NEW k \in Streams,
           Open(k) \/ Subscribe(k) \/ Leave(k) \/ \E c \in ChannelSet : Unsubscribe(k, c)
    PROVE  /\ d \in Subscribed(q)'
           /\ q \in listeners'[d] /\ client'[q] = "here" =>
                q \in listeners[d] /\ client[q] = "here" /\ pipe'[q] = pipe[q]
<1> USE DEF StreamInv, StreamTyped
<1>1. CASE Open(k)
  <2>1. /\ handler' = [handler EXCEPT ![k] = 0] /\ handler[k] = -1
        /\ UNCHANGED <<client, listeners, pipe>>
    BY <1>1 DEF Open, Unopened
  <2>2. handler[q] = -1 \/ handler'[q] = handler[q]
    BY <2>1
  <2>3. handler[q] = -1 => Subscribed(q) = {}
    BY DEF Subscribed
  <2>4. Subscribed(q) \subseteq Subscribed(q)'
    BY <2>2, <2>3 DEF Subscribed
  <2> QED
    BY <2>1, <2>4
<1>2. CASE Subscribe(k)
  <2> DEFINE c == Channels[handler[k] + 1]
  <2>1. /\ c \in ChannelSet /\ c \notin Subscribed(k) /\ Subscribed(k) \subseteq Subscribed(k)'
        /\ \A r \in Streams \ {k} : Subscribed(r)' = Subscribed(r)
        /\ listeners' = [listeners EXCEPT ![c] = @ \cup {k}]
    BY <1>2, SubscribeAddsOne
  <2>2. UNCHANGED <<client, pipe>>
    BY <1>2 DEF Subscribe
  <2> HIDE DEF c
  <2>3. q \in listeners'[d] => q \in listeners[d]
    BY <2>1
  <2> QED
    BY <2>1, <2>2, <2>3
<1>3. CASE Leave(k)
  <2>1. /\ UNCHANGED <<handler, listeners>>
        /\ client' = [client EXCEPT ![k] = IF Registered(k) THEN "late" ELSE "early"]
        /\ pipe' = [pipe EXCEPT ![k] = << >>]
    BY <1>3 DEF Leave
  <2>2. Subscribed(q)' = Subscribed(q)
    BY <2>1 DEF Subscribed
  <2> QED
    BY <2>1, <2>2
<1>4. ASSUME NEW c \in ChannelSet, Unsubscribe(k, c)
      PROVE  /\ d \in Subscribed(q)'
             /\ q \in listeners'[d] /\ client'[q] = "here" =>
                  q \in listeners[d] /\ client[q] = "here" /\ pipe'[q] = pipe[q]
  <2>1. UNCHANGED <<handler, client, pipe>> /\ listeners' = [listeners EXCEPT ![c] = {}]
    BY <1>4 DEF Unsubscribe
  <2>2. Subscribed(q)' = Subscribed(q)
    BY <2>1 DEF Subscribed
  <2> QED
    BY <2>1, <2>2
<1> QED
  BY <1>1, <1>2, <1>3, <1>4

LEMMA HubKeepsPrice ==
    ASSUME PageInv, StreamInv', UNCHANGED pageVars, NEW k \in Streams,
           Open(k) \/ Subscribe(k) \/ Leave(k) \/ \E c \in ChannelSet : Unsubscribe(k, c)
    PROVE  PageInv'
<1>1. UNCHANGED <<stored, published, lastPrice, snapshot>>
  BY DEF Open, Subscribe, Leave, Unsubscribe, feed, pageVars
<1>2. CASE ~snapshot.heard
  BY <1>1, <1>2 DEF PageInv, Listening
<1>3. CASE snapshot.heard
  <2>1. "tick" \in Subscribed(Dashboard) /\ StreamInv
    BY <1>3 DEF PageInv
  <2>2. /\ "tick" \in Subscribed(Dashboard)'
        /\ Dashboard \in listeners'["tick"] /\ client'[Dashboard] = "here" =>
             /\ Dashboard \in listeners["tick"] /\ client[Dashboard] = "here"
             /\ pipe'[Dashboard] = pipe[Dashboard]
    BY <2>1, PageConstants, HubBringsNobodyBack
  <2> QED
    BY <1>1, <2>2, StreamMovesKeep DEF Listening
<1> QED
  BY <1>2, <1>3

\* A published tick is under way behind the others; another channel's record
\* is none.
LEMMA PublishKeepsPrice ==
    ASSUME PageInv, StreamInv', UNCHANGED pageVars, NEW c \in ChannelSet, Publish(c)
    PROVE  PageInv'
<1> DEFINE D == Dashboard
           event == [channel |-> c, no |-> published'[c]]
<1>0. /\ D \in Streams /\ pipe[D] \in Seq(Event) /\ "tick" \in ChannelSet
      /\ published \in [ChannelSet -> Nat] /\ "tick" \in Wanted[D]
      /\ Listening => LastTickIsNewest /\ PriceIsKnown
  BY PageConstants DEF PageInv, StreamInv, StreamTyped
<1>1. /\ published' = [published EXCEPT ![c] = @ + 1]
      /\ UNCHANGED <<handler, client, listeners, stored, lastPrice, snapshot>>
  BY DEF Publish, hub, pageVars
<1>2. pipe'[D] = IF D \in listeners[c] /\ client[D] = "here" /\ c \in Wanted[D]
                 THEN Append(pipe[D], event) ELSE pipe[D]
  BY <1>0 DEF Publish
<1>3. Subscribed(D)' = Subscribed(D) /\ (Listening' <=> Listening)
  BY <1>1 DEF Subscribed, Listening
<1>4. /\ event.channel = c /\ event.no = published'[c] /\ event \in Event
      /\ published'["tick"] \in Nat
  BY <1>0, <1>1 DEF Event
<1>5. ASSUME Listening, pipe'[D] = Append(pipe[D], event)
      PROVE  LastTickIsNewest' /\ PriceIsKnown'
  <2> HIDE DEF event
  <2> DEFINE n == Len(pipe[D]) + 1
  <2>1. /\ DOMAIN pipe[D] \subseteq Nat /\ DOMAIN pipe'[D] = DOMAIN pipe[D] \cup {n}
        /\ n \in Nat /\ pipe'[D][n] = event
        /\ \A i \in DOMAIN pipe[D] : i < n /\ pipe'[D][i] = pipe[D][i]
    BY <1>0, <1>4, <1>5, AppendEntries
  <2> HIDE DEF n
  <2>2. CASE c = "tick"
    <3>1. /\ n \in DOMAIN pipe'[D] /\ pipe'[D][n].channel = "tick"
          /\ pipe'[D][n].no >= published'["tick"]
      BY <1>4, <2>1, <2>2
    <3>2. \A i \in DOMAIN pipe'[D] : i = n \/ n > i
      BY <2>1
    <3>3. LastTickIsNewest'
      BY <3>1, <3>2 DEF LastTickIsNewest
    <3>4. ~Drained(D, "tick")'
      BY <3>1 DEF Drained
    <3> QED
      BY <3>3, <3>4 DEF PriceIsKnown
  <2>3. CASE c # "tick"
    <3>1. published'["tick"] = published["tick"]
      BY <1>0, <1>1, <2>3
    <3>2. \A i \in DOMAIN pipe'[D] : i \in DOMAIN pipe[D] \/ pipe'[D][i].channel # "tick"
      BY <1>4, <2>1, <2>3
    <3>3. \A i \in DOMAIN pipe[D] : i \in DOMAIN pipe'[D] /\ pipe'[D][i] = pipe[D][i]
      BY <2>1
    <3>4. LastTickIsNewest'
      BY <1>0, <1>5, <3>1, <3>2, <3>3 DEF LastTickIsNewest
    <3>5. Drained(D, "tick")' => Drained(D, "tick")
      BY <3>3 DEF Drained
    <3> QED
      BY <1>0, <1>1, <1>5, <3>1, <3>4, <3>5 DEF PriceIsKnown
  <2> QED
    BY <2>2, <2>3
<1>6. ASSUME Listening, pipe'[D] = Append(pipe[D], event)
      PROVE  PageInv'
  BY <1>1, <1>3, <1>5, <1>6 DEF PageInv
<1>7. CASE c = "tick"
  <2>1. Listening => pipe'[D] = Append(pipe[D], event)
    BY <1>0, <1>2, <1>7 DEF Listening
  <2>2. ~Listening => PageInv'
    BY <1>1, <1>3 DEF PageInv
  <2> QED
    BY <1>6, <2>1, <2>2
<1>8. CASE c # "tick" /\ pipe'[D] = pipe[D]
  <2>1. published'["tick"] = published["tick"]
    BY <1>0, <1>1, <1>8
  <2> QED
    BY <1>1, <1>3, <1>8, <2>1, StreamMovesKeep
<1>9. CASE ~Listening
  BY <1>1, <1>3, <1>9 DEF PageInv
<1> QED
  BY <1>2, <1>6, <1>7, <1>8, <1>9

\* The page shows the tick it receives; the last one under way is the newest.
LEMMA ReceivedKeepsPrice ==
    ASSUME PageInv, StreamInv', NEW k \in Streams, Received(k)
    PROVE  PageInv'
<1> DEFINE D == Dashboard
           q == pipe[D]
           event == Head(pipe[k])
<1>1. /\ pipe[k] # << >> /\ pipe' = [pipe EXCEPT ![k] = Tail(@)]
      /\ lastPrice' = IF k = D /\ event.channel = "tick" THEN event.no ELSE lastPrice
      /\ UNCHANGED <<handler, client, listeners, published, snapshot>>
  BY DEF Received, hub, feed
<1>2. Subscribed(D)' = Subscribed(D) /\ (Listening' <=> Listening)
  BY <1>1 DEF Subscribed, Listening
<1>3. /\ D \in Streams /\ pipe \in [Streams -> Seq(Event)] /\ lastPrice \in Nat
      /\ Listening => LastTickIsNewest /\ PriceIsKnown
  BY PageConstants DEF PageInv, StreamInv, StreamTyped
<1>4. CASE k # D
  <2>1. pipe'[D] = q /\ lastPrice' = lastPrice
    BY <1>1, <1>3, <1>4
  <2> QED
    BY <1>1, <1>2, <2>1, StreamMovesKeep
<1>5. CASE k = D
  <2>1. /\ pipe'[D] = Tail(q) /\ q \in Seq(Event) /\ q # << >> /\ event = Head(q)
        /\ lastPrice' = IF event.channel = "tick" THEN event.no ELSE lastPrice
    BY <1>1, <1>3, <1>5
  <2>2. /\ 1 \in DOMAIN q /\ event = q[1] /\ event \in Event
        /\ \A i \in DOMAIN pipe'[D] : i + 1 \in DOMAIN q /\ pipe'[D][i] = q[i + 1]
        /\ \A j \in DOMAIN q \ {1} : j - 1 \in DOMAIN pipe'[D] /\ pipe'[D][j - 1] = q[j]
        /\ DOMAIN q \subseteq Nat /\ DOMAIN pipe'[D] \subseteq Nat \ {0}
    BY <2>1, TailEntries
  <2>3. event.no \in Nat \ {0}
    BY <2>2 DEF Event
  <2> HIDE DEF event
  <2>4. lastPrice' \in Nat
    BY <1>3, <2>1, <2>3
  <2>5. Listening => LastTickIsNewest'
    <3> SUFFICES ASSUME Listening, NEW i \in DOMAIN pipe'[D], pipe'[D][i].channel = "tick",
                        \A j \in DOMAIN pipe'[D] : j > i => pipe'[D][j].channel # "tick"
                 PROVE  pipe'[D][i].no >= published'["tick"]
      BY DEF LastTickIsNewest
    <3>1. i + 1 \in DOMAIN q /\ q[i + 1].channel = "tick"
      BY <2>2
    <3>2. ASSUME NEW j \in DOMAIN q, j > i + 1
          PROVE  q[j].channel # "tick"
      <4>1. i \in Nat \ {0} /\ j \in Nat
        BY <2>2
      <4>2. j # 1 /\ j - 1 > i
        BY <3>2, <4>1
      <4> QED
        BY <2>2, <4>2
    <3>3. q[i + 1].no >= published["tick"]
      BY <1>3, <3>1, <3>2 DEF LastTickIsNewest
    <3> QED
      BY <1>1, <2>2, <3>3
  <2>6. Listening => PriceIsKnown'
    <3> SUFFICES ASSUME Listening, Drained(D, "tick")'
                 PROVE  /\ snapshot.step = "answering" /\ lastPrice' = 0 =>
                               snapshot.read >= published["tick"]
                        /\ snapshot.step = "applied" /\ snapshot.first =>
                               lastPrice' >= published["tick"]
      BY <1>1 DEF PriceIsKnown
    <3>1. \A j \in DOMAIN q \ {1} : q[j].channel # "tick"
      BY <2>2 DEF Drained
    <3>2. CASE event.channel = "tick"
      <4>1. \A j \in DOMAIN q : j > 1 => q[j].channel # "tick"
        BY <3>1
      <4>2. event.no >= published["tick"]
        BY <1>3, <2>2, <3>2, <4>1 DEF LastTickIsNewest
      <4> QED
        BY <2>1, <2>3, <3>2, <4>2
    <3>3. CASE event.channel # "tick"
      <4>1. Drained(D, "tick")
        BY <2>2, <3>1, <3>3 DEF Drained
      <4> QED
        BY <1>3, <2>1, <3>3, <4>1 DEF PriceIsKnown
    <3> QED
      BY <3>2, <3>3
  <2> QED
    BY <1>1, <1>2, <2>4, <2>5, <2>6 DEF PageInv
<1> QED
  BY <1>4, <1>5

\* Whatever was not published yet when the snapshot was read comes later.
LEMMA ReadSnapshotKeepsPrice ==
    ASSUME PageInv, StreamInv', ReadSnapshot
    PROVE  PageInv'
<1> USE PageConstants DEF PageInv, StreamInv, StreamTyped
<1>1. UNCHANGED <<handler, client, listeners, published, stored, pipe, lastPrice>>
  BY DEF ReadSnapshot, streamVars, hub, feed
<1>2. /\ snapshot' \in Request /\ snapshot'.step = "answering"
      /\ snapshot'.read = stored["tick"]
      /\ snapshot'.heard <=> Dashboard \in listeners["tick"] /\ Drained(Dashboard, "tick")
  <2> DEFINE heard == Dashboard \in listeners["tick"] /\ Drained(Dashboard, "tick")
  <2>1. heard \in BOOLEAN /\ stored["tick"] \in Nat
    BY DEF Drained
  <2>2. snapshot' = [snapshot EXCEPT !.step = "answering", !.read = stored["tick"],
                                     !.whole = TRUE, !.heard = heard]
    BY DEF ReadSnapshot
  <2> HIDE DEF heard
  <2>3. snapshot' \in Request /\ snapshot'.step = "answering"
        /\ snapshot'.read = stored["tick"] /\ snapshot'.heard = heard
    BY <2>1, <2>2 DEF Request
  <2> QED
    BY <2>3 DEF heard
<1>3. Subscribed(Dashboard)' = Subscribed(Dashboard)
  BY <1>1 DEF Subscribed
<1>4. snapshot'.heard => "tick" \in Subscribed(Dashboard)
  BY <1>2 DEF ListenersSubscribed
<1>5. snapshot'.heard => LastTickIsNewest'
  BY <1>1, <1>2 DEF LastTickIsNewest, Drained
<1>6. PriceIsKnown'
  BY <1>1, <1>2 DEF PriceIsKnown
<1> QED
  BY <1>1, <1>2, <1>3, <1>4, <1>5, <1>6 DEF Listening

LEMMA ApplySnapshotKeepsPrice ==
    ASSUME PageInv, StreamInv', ApplySnapshot
    PROVE  PageInv'
<1> USE PageConstants DEF PageInv, StreamInv, StreamTyped
<1>1. /\ UNCHANGED <<handler, client, listeners, published, stored, pipe>>
      /\ snapshot.step = "answering"
      /\ lastPrice' = IF snapshot.read = 0 THEN lastPrice ELSE snapshot.read
  BY DEF ApplySnapshot, streamVars, hub, feed
<1>2. /\ snapshot' \in Request /\ snapshot'.step = "applied"
      /\ snapshot'.heard = snapshot.heard /\ (snapshot'.first <=> lastPrice = 0)
  BY DEF ApplySnapshot, Request
<1>3. lastPrice' \in Nat
  BY <1>1 DEF Request
<1>4. Subscribed(Dashboard)' = Subscribed(Dashboard) /\ (Listening' <=> Listening)
  BY <1>1, <1>2 DEF Subscribed, Listening
<1>5. Listening => LastTickIsNewest'
  BY <1>1 DEF LastTickIsNewest
<1>6. Listening => PriceIsKnown'
  BY <1>1, <1>2 DEF PriceIsKnown, Drained, Request
<1> QED
  BY <1>1, <1>2, <1>3, <1>4, <1>5, <1>6

LEMMA NextKeepsPrice == PageInv /\ [Next]_vars => PageInv'
<1> SUFFICES ASSUME PageInv, [Next]_vars
             PROVE  PageInv'
  OBVIOUS
<1>0. StreamInv'
  BY NextKeeps DEF PageInv
<1>1. ASSUME UNCHANGED <<streamVars, lastPrice, snapshot>>
      PROVE  PageInv'
  BY <1>0, <1>1, StreamMovesKeep DEF streamVars, hub, feed, Listening, Subscribed
<1>2. ASSUME NEW k \in Streams, Open(k) \/ Subscribe(k) \/ Leave(k), UNCHANGED pageVars
      PROVE  PageInv'
  BY <1>0, <1>2, HubKeepsPrice
<1>3. ASSUME NEW k \in Streams, NEW c \in ChannelSet, Unsubscribe(k, c), UNCHANGED pageVars
      PROVE  PageInv'
  BY <1>0, <1>3, HubKeepsPrice
<1>4. ASSUME NEW c \in ChannelSet, Store(c), UNCHANGED pageVars
      PROVE  PageInv'
  BY <1>0, <1>4, StreamMovesKeep DEF Store, hub, pageVars, Listening, Subscribed
<1>5. ASSUME NEW c \in ChannelSet, Publish(c), UNCHANGED pageVars
      PROVE  PageInv'
  BY <1>0, <1>5, PublishKeepsPrice
<1>6. CASE ReadSnapshot \/ ApplySnapshot
  BY <1>0, <1>6, ReadSnapshotKeepsPrice, ApplySnapshotKeepsPrice
<1>7. CASE ReadHistory \/ ApplyHistory
  BY <1>1, <1>7 DEF ReadHistory, ApplyHistory
<1>8. ASSUME NEW k \in Streams, Received(k)
      PROVE  PageInv'
  BY <1>0, <1>8, ReceivedKeepsPrice
<1>9. CASE UNCHANGED vars
  BY <1>1, <1>9 DEF vars, pageVars
<1> QED
  BY <1>2, <1>3, <1>4, <1>5, <1>6, <1>7, <1>8, <1>9 DEF Next, StreamNext

\* For any number of streams and records: subscribed before the snapshot was
\* read, answered before the first tick and never unsubscribed, the dashboard
\* that has received its events shows the newest published price.
THEOREM DashboardIsCurrent == Spec => []PriceIsCurrent
<1>1. PageInv => PriceIsCurrent
  BY DEF PageInv, PriceIsKnown, Listening, PriceIsCurrent, InStep
<1> QED
  BY <1>1, PageInitInv, NextKeepsPrice, PTL DEF Spec

-----------------------------------------------------------------------------
(* The chart's series                                                      *)

\* The chart's stream has listened to the bars since before its history was
\* read, and the history was the whole table.
ChartListening ==
    /\ history.heard /\ history.whole
    /\ Chart \in listeners["ohlcv"] /\ client[Chart] = "here"

IsBar(event) == event.channel = "ohlcv"

\* The bars under way to the chart are those from n to the newest published,
\* in order.
UnderWay(n) ==
    LET q == pipe[Chart]
    IN  /\ n \in 1..(published["ohlcv"] + 1)
        /\ \A i \in DOMAIN q : IsBar(q[i]) => q[i].no \in n..published["ohlcv"]
        /\ \A m \in n..published["ohlcv"] : \E i \in DOMAIN q : IsBar(q[i]) /\ q[i].no = m
        /\ \A i, j \in DOMAIN q : i < j /\ IsBar(q[i]) /\ IsBar(q[j]) => q[i].no < q[j].no

\* The array has every bar up to n, without gap, and as many as it may keep.
SeriesUpTo(n) ==
    /\ \A i \in 2..Len(bars) : bars[i] = bars[i - 1] + 1
    /\ Len(bars) < MaxBars /\ bars # << >> => bars[1] = 1
    /\ IF bars = << >> THEN n = 0 ELSE bars[Len(bars)] = n

\* The next bar is the one after the newest known, or that one again: it was
\* stored when the history was read and not published yet.
ChartIsKnown ==
    \E n \in Nat : \E known \in {n - 1, n} :
        /\ UnderWay(n)
        /\ history.step = "answering" /\ bars = << >> => history.read = known
        /\ history.step = "applied" /\ history.first => SeriesUpTo(known)

ChartInv ==
    /\ StreamInv
    /\ bars \in Seq(Nat) /\ history \in Request
    /\ history.heard => history.step # "asked" /\ "ohlcv" \in Subscribed(Chart)
    /\ ChartListening => ChartIsKnown

LEMMA ChartConstants ==
    /\ Chart \in Streams /\ "ohlcv" \in ChannelSet /\ "ohlcv" \in Wanted[Chart]
    /\ HistoryLimit \in Nat \ {0} /\ MaxBars \in Nat \ {0}
BY LivePageAssumption

LEMMA ChartInitInv == Init => ChartInv
<1> SUFFICES ASSUME Init
             PROVE  ChartInv
  OBVIOUS
<1>1. history = Asked /\ bars = << >>
  BY DEF Init
<1>2. history \in Request /\ ~history.heard /\ bars \in Seq(Nat)
  BY <1>1 DEF Asked, Request
<1> QED
  BY <1>2, StreamInitInv DEF ChartInv, ChartListening

\* What a step must not change for the series to stay known.
LEMMA StreamMovesKeepChart ==
    ASSUME ChartInv, StreamInv', UNCHANGED <<bars, history>>,
           "ohlcv" \in Subscribed(Chart) => "ohlcv" \in Subscribed(Chart)',
           ChartListening' => ChartListening /\ pipe'[Chart] = pipe[Chart]
                              /\ published'["ohlcv"] = published["ohlcv"]
    PROVE  ChartInv'
<1>1. CASE ChartListening'
  <2>1. PICK n \in Nat : \E known \in {n - 1, n} :
            /\ UnderWay(n)
            /\ history.step = "answering" /\ bars = << >> => history.read = known
            /\ history.step = "applied" /\ history.first => SeriesUpTo(known)
    BY <1>1 DEF ChartInv, ChartIsKnown
  <2>2. UnderWay(n)' /\ \A known \in {n - 1, n} : SeriesUpTo(known) => SeriesUpTo(known)'
    BY <1>1, <2>1 DEF UnderWay, SeriesUpTo
  <2>3. ChartIsKnown'
    BY <2>1, <2>2 DEF ChartIsKnown
  <2> QED
    BY <2>3 DEF ChartInv
<1>2. CASE ~ChartListening'
  BY <1>2 DEF ChartInv
<1> QED
  BY <1>1, <1>2

LEMMA HubKeepsChart ==
    ASSUME ChartInv, StreamInv', UNCHANGED pageVars, NEW k \in Streams,
           Open(k) \/ Subscribe(k) \/ Leave(k) \/ \E c \in ChannelSet : Unsubscribe(k, c)
    PROVE  ChartInv'
<1>1. UNCHANGED <<stored, published, bars, history>>
  BY DEF Open, Subscribe, Leave, Unsubscribe, feed, pageVars
<1>2. CASE ~history.heard
  BY <1>1, <1>2 DEF ChartInv, ChartListening
<1>3. CASE history.heard
  <2>1. "ohlcv" \in Subscribed(Chart) /\ StreamInv
    BY <1>3 DEF ChartInv
  <2>2. /\ "ohlcv" \in Subscribed(Chart)'
        /\ Chart \in listeners'["ohlcv"] /\ client'[Chart] = "here" =>
             /\ Chart \in listeners["ohlcv"] /\ client[Chart] = "here"
             /\ pipe'[Chart] = pipe[Chart]
    BY <2>1, ChartConstants, HubBringsNobodyBack
  <2> QED
    BY <1>1, <2>2, StreamMovesKeepChart DEF ChartListening
<1> QED
  BY <1>2, <1>3

\* A published bar is under way behind the others.
LEMMA PublishKeepsChart ==
    ASSUME ChartInv, StreamInv', UNCHANGED pageVars, NEW c \in ChannelSet, Publish(c)
    PROVE  ChartInv'
<1> DEFINE q == pipe[Chart]
           event == [channel |-> c, no |-> published'[c]]
<1>1. /\ published' = [published EXCEPT ![c] = @ + 1]
      /\ UNCHANGED <<handler, client, listeners, stored, bars, history>>
  BY DEF Publish, hub, pageVars
<1>2. /\ q \in Seq(Event) /\ published["ohlcv"] \in Nat /\ event \in Event
      /\ Chart \in Streams /\ "ohlcv" \in ChannelSet /\ "ohlcv" \in Wanted[Chart]
      /\ published["ohlcv"] \in Nat /\ published'[c] = published[c] + 1
      /\ c # "ohlcv" => published'["ohlcv"] = published["ohlcv"]
  BY <1>1, ChartConstants DEF ChartInv, StreamInv, StreamTyped, Event
<1>3. pipe'[Chart] = IF Chart \in listeners[c] /\ client[Chart] = "here" /\ c \in Wanted[Chart]
                     THEN Append(q, event) ELSE q
  BY <1>2 DEF Publish
<1>4. Subscribed(Chart)' = Subscribed(Chart) /\ (ChartListening' <=> ChartListening)
  BY <1>1 DEF Subscribed, ChartListening
<1>5. CASE ~ChartListening
  BY <1>1, <1>4, <1>5 DEF ChartInv
<1>6. CASE ChartListening /\ pipe'[Chart] = q
  <2>1. c # "ohlcv"
    <3>1. pipe'[Chart] # Append(q, event)
      BY <1>2, <1>6, AppendEntries
    <3> QED
      BY <1>2, <1>3, <1>6, <3>1 DEF ChartListening
  <2> QED
    BY <1>1, <1>2, <1>4, <1>6, <2>1, StreamMovesKeepChart
<1>7. CASE ChartListening /\ pipe'[Chart] = Append(q, event)
  <2> DEFINE end == Len(q) + 1
             r == pipe'[Chart]
  <2>1. PICK n \in Nat : \E known \in {n - 1, n} :
            /\ UnderWay(n)
            /\ history.step = "answering" /\ bars = << >> => history.read = known
            /\ history.step = "applied" /\ history.first => SeriesUpTo(known)
    BY <1>7 DEF ChartInv, ChartIsKnown
  <2>2. /\ n \in 1..(published["ohlcv"] + 1)
        /\ \A i \in DOMAIN q : IsBar(q[i]) => q[i].no \in n..published["ohlcv"]
        /\ \A m \in n..published["ohlcv"] : \E i \in DOMAIN q : IsBar(q[i]) /\ q[i].no = m
        /\ \A i, j \in DOMAIN q : i < j /\ IsBar(q[i]) /\ IsBar(q[j]) => q[i].no < q[j].no
    BY <2>1 DEF UnderWay
  <2>3. /\ DOMAIN q \subseteq Nat /\ DOMAIN r = DOMAIN q \cup {end}
        /\ end \in Nat /\ \A i \in DOMAIN q : i < end /\ r[i] = q[i]
        /\ r[end] = event
    BY <1>2, <1>7, AppendEntries
  <2>4. event.channel = c /\ event.no = published'[c]
    OBVIOUS
  <2> HIDE DEF end, event, r
  <2>5. ASSUME c = "ohlcv"
        PROVE  UnderWay(n)'
    <3>1. published'["ohlcv"] = published["ohlcv"] + 1
      BY <1>2, <2>5
    <3>2. n \in 1..(published'["ohlcv"] + 1)
      BY <1>2, <2>2, <3>1
    <3>3. \A i \in DOMAIN r : IsBar(r[i]) => r[i].no \in n..published'["ohlcv"]
      BY <1>2, <2>2, <2>3, <2>4, <2>5, <3>1
    <3>4. \A m \in n..published'["ohlcv"] : \E i \in DOMAIN r : IsBar(r[i]) /\ r[i].no = m
      <4> SUFFICES ASSUME NEW m \in n..published'["ohlcv"]
                   PROVE  \E i \in DOMAIN r : IsBar(r[i]) /\ r[i].no = m
        OBVIOUS
      <4>1. CASE m = published'["ohlcv"]
        BY <2>3, <2>4, <2>5, <4>1 DEF IsBar
      <4>2. CASE m # published'["ohlcv"]
        <5>1. m \in n..published["ohlcv"]
          BY <1>2, <3>1, <4>2
        <5> QED
          BY <2>2, <2>3, <5>1
      <4> QED
        BY <4>1, <4>2
    <3>5. \A i, j \in DOMAIN r : i < j /\ IsBar(r[i]) /\ IsBar(r[j]) => r[i].no < r[j].no
      <4> SUFFICES ASSUME NEW i \in DOMAIN r, NEW j \in DOMAIN r, i < j,
                          IsBar(r[i]), IsBar(r[j])
                   PROVE  r[i].no < r[j].no
        OBVIOUS
      <4>1. i \in DOMAIN q
        BY <2>3
      <4>2. CASE j = end
        <5>1. q[i].no <= published["ohlcv"] /\ q[i].no \in Int
          BY <2>2, <2>3, <4>1
        <5>2. r[j].no = published["ohlcv"] + 1
          BY <2>3, <2>4, <2>5, <3>1, <4>2
        <5> QED
          BY <1>2, <2>3, <4>1, <5>1, <5>2
      <4>3. CASE j # end
        BY <2>2, <2>3, <4>1, <4>3
      <4> QED
        BY <4>2, <4>3
    <3> QED
      BY <3>2, <3>3, <3>4, <3>5 DEF UnderWay, r
  <2>6. ASSUME c # "ohlcv"
        PROVE  UnderWay(n)'
    <3>1. \A i \in DOMAIN r : IsBar(r[i]) => i \in DOMAIN q /\ r[i] = q[i]
      BY <2>3, <2>4, <2>6 DEF IsBar
    <3>2. \A i \in DOMAIN q : i \in DOMAIN r /\ r[i] = q[i]
      BY <2>3
    <3>3. published'["ohlcv"] = published["ohlcv"]
      BY <1>2, <2>6
    <3> QED
      BY <2>2, <3>1, <3>2, <3>3 DEF UnderWay, r
  <2>7. UnderWay(n)' /\ \A known \in {n - 1, n} : SeriesUpTo(known) => SeriesUpTo(known)'
    BY <1>1, <2>5, <2>6 DEF SeriesUpTo
  <2>8. ChartIsKnown'
    BY <1>1, <2>1, <2>7 DEF ChartIsKnown
  <2> QED
    BY <1>1, <1>4, <2>8 DEF ChartInv
<1> QED
  BY <1>3, <1>5, <1>6, <1>7

\* The next bar, or the newest one again, continues the series.
LEMMA NextBarContinues ==
    ASSUME bars \in Seq(Nat), NEW n \in Nat \ {0}, NEW known \in {n - 1, n},
           SeriesUpTo(known), bars' = WithBar(n)
    PROVE  bars' \in Seq(Nat) /\ bars' # << >> /\ SeriesUpTo(n)'
<1> DEFINE len == Len(bars)
<1>1. /\ len \in Nat /\ DOMAIN bars = 1..len /\ (bars = << >> <=> len = 0)
      /\ \A i \in 1..len : bars[i] \in Nat
      /\ MaxBars \in Nat \ {0}
  BY ChartConstants
<1>2. CASE bars # << >> /\ bars[len] = n
  <2>1. bars' = bars
    BY <1>2 DEF WithBar, Last
  <2>2. known = n
    BY <1>2 DEF SeriesUpTo
  <2> QED
    BY <1>2, <2>1, <2>2 DEF SeriesUpTo
<1>3. CASE ~(bars # << >> /\ bars[len] = n)
  <2> DEFINE longer == Append(bars, n)
  <2>1. /\ longer \in Seq(Nat) /\ Len(longer) = len + 1 /\ longer # << >>
        /\ longer[len + 1] = n /\ \A i \in 1..len : longer[i] = bars[i]
    BY <1>1
  <2>2. bars' = IF len >= MaxBars THEN Tail(longer) ELSE longer
    BY <1>3 DEF WithBar, Last
  <2> HIDE DEF longer
  <2>3. /\ \A i \in 2..(len + 1) : longer[i] = longer[i - 1] + 1
        /\ bars = << >> => n = 1
    <3>1. CASE bars = << >>
      <4>1. known = 0 /\ len = 0
        BY <1>1, <3>1 DEF SeriesUpTo
      <4> QED
        BY <4>1
    <3>2. CASE bars # << >>
      <4>1. bars[len] = known /\ known # n /\ len \in Nat \ {0}
        BY <1>1, <1>3, <3>2 DEF SeriesUpTo
      <4>2. longer[len + 1] = longer[len] + 1
        BY <2>1, <4>1
      <4>3. \A i \in 2..len : longer[i] = longer[i - 1] + 1
        <5> SUFFICES ASSUME NEW i \in 2..len
                     PROVE  longer[i] = longer[i - 1] + 1
          OBVIOUS
        <5>1. i \in 1..len /\ i - 1 \in 1..len
          BY <4>1
        <5> QED
          BY <2>1, <5>1 DEF SeriesUpTo
      <4>4. \A i \in 2..(len + 1) : i \in 2..len \/ (i = len + 1 /\ i - 1 = len)
        BY <4>1
      <4> QED
        BY <3>2, <4>2, <4>3, <4>4
    <3> QED
      BY <3>1, <3>2
  <2>4. CASE len < MaxBars
    <3>1. bars' = longer
      BY <1>1, <2>2, <2>4
    <3>2. Len(bars') < MaxBars => bars'[1] = 1
      <4>1. CASE bars = << >>
        BY <1>1, <2>1, <2>3, <3>1, <4>1
      <4>2. CASE bars # << >>
        BY <1>1, <2>1, <3>1, <4>2 DEF SeriesUpTo
      <4> QED
        BY <4>1, <4>2
    <3> QED
      BY <2>1, <2>3, <3>1, <3>2 DEF SeriesUpTo
  <2>5. CASE len >= MaxBars
    <3>1. bars' = Tail(longer) /\ len \in Nat \ {0}
      BY <1>1, <2>2, <2>5
    <3>2. /\ bars' \in Seq(Nat) /\ Len(bars') = len
          /\ \A i \in 1..len : bars'[i] = longer[i + 1]
      BY <2>1, <3>1
    <3>3. bars' # << >> /\ ~(Len(bars') < MaxBars) /\ bars'[Len(bars')] = n
      <4>1. len \in 1..len /\ longer[len + 1] = n
        BY <2>1, <3>1
      <4>2. bars'[len] = n
        BY <3>2, <4>1
      <4>3. len # 0 /\ ~(len < MaxBars)
        <5>1. len \in Nat \ {0} /\ MaxBars \in Nat /\ len >= MaxBars
          BY <1>1, <2>5, <3>1
        <5> HIDE DEF len
        <5> QED
          BY ONLY <5>1
      <4>4. Len(bars') = len
        BY <3>2
      <4>5. bars' # << >>
        BY <4>3, <4>4
      <4> QED
        BY <4>2, <4>3, <4>4, <4>5, Zenon
    <3>4. \A i \in 2..Len(bars') : bars'[i] = bars'[i - 1] + 1
      <4> SUFFICES ASSUME NEW i \in 2..len
                   PROVE  bars'[i] = bars'[i - 1] + 1
        BY <3>2
      <4>1. i \in 1..len /\ i - 1 \in 1..len /\ i + 1 \in 2..(len + 1) /\ (i - 1) + 1 = i
            /\ (i + 1) - 1 = i
        BY <3>1
      <4>2. bars'[i] = longer[i + 1] /\ bars'[i - 1] = longer[i]
        BY <3>2, <4>1
      <4> QED
        BY <2>3, <4>1, <4>2
    <3> QED
      BY <3>2, <3>3, <3>4 DEF SeriesUpTo
  <2> QED
    BY <1>1, <2>4, <2>5
<1> QED
  BY <1>2, <1>3

LEMMA WithBarTyped ==
    ASSUME bars \in Seq(Nat), NEW n \in Nat
    PROVE  WithBar(n) \in Seq(Nat) /\ WithBar(n) # << >>
<1> DEFINE longer == Append(bars, n)
<1>1. longer \in Seq(Nat) /\ Len(longer) = Len(bars) + 1 /\ Len(bars) \in Nat /\ longer # << >>
  OBVIOUS
<1>2. MaxBars \in Nat \ {0}
  BY ChartConstants
<1>3. CASE bars # << >> /\ Last(bars) = n
  BY <1>3 DEF WithBar
<1> HIDE DEF longer
<1>4. ASSUME Len(bars) >= MaxBars
      PROVE  Tail(longer) \in Seq(Nat) /\ Tail(longer) # << >>
  <2>1. Len(longer) > 1
    BY <1>1, <1>2, <1>4
  <2>2. Tail(longer) \in Seq(Nat) /\ Len(Tail(longer)) = Len(longer) - 1
    BY <1>1
  <2>3. Len(Tail(longer)) # 0 /\ Len(<< >>) = 0
    BY <1>1, <2>1, <2>2
  <2> QED
    BY <2>2, <2>3
<1>5. CASE ~(bars # << >> /\ Last(bars) = n)
  <2>1. WithBar(n) = IF Len(bars) >= MaxBars THEN Tail(longer) ELSE longer
    BY <1>5 DEF WithBar, longer
  <2> QED
    BY <1>1, <1>4, <2>1
<1> QED
  BY <1>3, <1>5

\* The bar that leaves the front of what is under way is the next one.
LEMMA FrontLeaves ==
    ASSUME StreamInv, NEW n \in Nat, UnderWay(n), pipe[Chart] # << >>,
           pipe'[Chart] = Tail(pipe[Chart]), published' = published
    PROVE  LET event == Head(pipe[Chart])
           IN  IF IsBar(event) THEN n > 0 /\ event.no = n /\ UnderWay(n + 1)' ELSE UnderWay(n)'
<1> DEFINE q == pipe[Chart]
           r == pipe'[Chart]
           event == Head(q)
           newest == published["ohlcv"]
<1>1. q \in Seq(Event) /\ newest \in Nat
  BY ChartConstants DEF StreamInv, StreamTyped
<1>2. /\ 1 \in DOMAIN q /\ event = q[1] /\ DOMAIN q \subseteq Nat \ {0}
      /\ DOMAIN r \subseteq Nat \ {0}
      /\ \A i \in DOMAIN r : i + 1 \in DOMAIN q /\ r[i] = q[i + 1]
      /\ \A j \in DOMAIN q \ {1} : j - 1 \in DOMAIN r /\ r[j - 1] = q[j]
      /\ \A i \in DOMAIN q : q[i].no \in Nat
  <2>1. q # << >> /\ r = Tail(q) /\ event = Head(q)
    OBVIOUS
  <2> HIDE DEF q, r, event, newest
  <2>2. /\ 1 \in DOMAIN q /\ event = q[1]
        /\ \A i \in DOMAIN r : i + 1 \in DOMAIN q /\ r[i] = q[i + 1]
        /\ \A j \in DOMAIN q \ {1} : j - 1 \in DOMAIN r /\ r[j - 1] = q[j]
    BY ONLY <1>1, <2>1, TailEntries
  <2>3. r \in Seq(Event)
    BY ONLY <1>1, <2>1
  <2>4. DOMAIN q \subseteq Nat \ {0} /\ DOMAIN r \subseteq Nat \ {0}
    BY ONLY <1>1, <2>3
  <2>5. \A i \in DOMAIN q : q[i] \in Event
    BY ONLY <1>1
  <2>6. \A i \in DOMAIN q : q[i].no \in Nat
    BY <2>5 DEF Event
  <2> QED
    BY <2>2, <2>4, <2>6
<1>3. /\ n \in 1..(newest + 1)
      /\ \A i \in DOMAIN q : IsBar(q[i]) => q[i].no \in n..newest
      /\ \A m \in n..newest : \E i \in DOMAIN q : IsBar(q[i]) /\ q[i].no = m
      /\ \A i, j \in DOMAIN q : i < j /\ IsBar(q[i]) /\ IsBar(q[j]) => q[i].no < q[j].no
  BY DEF UnderWay
<1>4. published'["ohlcv"] = newest
  OBVIOUS
<1> HIDE DEF q, r, event, newest
<1>5. \A i, j \in DOMAIN r : i < j /\ IsBar(r[i]) /\ IsBar(r[j]) => r[i].no < r[j].no
  <2> SUFFICES ASSUME NEW i \in DOMAIN r, NEW j \in DOMAIN r, i < j, IsBar(r[i]), IsBar(r[j])
               PROVE  r[i].no < r[j].no
    OBVIOUS
  <2>1. i + 1 < j + 1
    BY <1>2
  <2> QED
    BY <1>2, <1>3, <2>1
<1>6. ASSUME ~IsBar(event)
      PROVE  UnderWay(n)'
  <2>1. \A i \in DOMAIN r : IsBar(r[i]) => r[i].no \in n..newest
    BY <1>2, <1>3
  <2>2. \A m \in n..newest : \E i \in DOMAIN r : IsBar(r[i]) /\ r[i].no = m
    <3> SUFFICES ASSUME NEW m \in n..newest
                 PROVE  \E i \in DOMAIN r : IsBar(r[i]) /\ r[i].no = m
      OBVIOUS
    <3>1. PICK j \in DOMAIN q : IsBar(q[j]) /\ q[j].no = m
      BY <1>3
    <3>2. j # 1
      BY <1>2, <1>6, <3>1
    <3> QED
      BY <1>2, <3>1, <3>2
  <2> QED
    BY <1>3, <1>4, <1>5, <2>1, <2>2 DEF UnderWay, r
<1>7. ASSUME IsBar(event)
      PROVE  n > 0 /\ event.no = n /\ UnderWay(n + 1)'
  <2>1. event.no \in n..newest /\ n > 0
    BY <1>2, <1>3, <1>7
  <2>2. PICK first \in DOMAIN q : IsBar(q[first]) /\ q[first].no = n
    <3>1. n \in n..newest
      BY <1>1, <1>3, <2>1
    <3> QED
      BY <1>3, <3>1
  <2>3. event.no = n
    <3>1. first # 1 => 1 < first
      BY <1>2, <2>2
    <3>2. first # 1 => event.no < n
      BY <1>2, <1>3, <1>7, <2>2, <3>1
    <3> QED
      BY <1>1, <1>2, <1>3, <2>1, <2>2, <3>2
  <2>4. n + 1 \in 1..(newest + 1)
    BY <1>1, <2>1
  <2>5. \A i \in DOMAIN r : IsBar(r[i]) => r[i].no \in (n + 1)..newest
    <3> SUFFICES ASSUME NEW i \in DOMAIN r, IsBar(r[i])
                 PROVE  r[i].no \in (n + 1)..newest
      OBVIOUS
    <3>1. i + 1 \in DOMAIN q /\ r[i] = q[i + 1] /\ 1 < i + 1
      BY <1>2
    <3>2. q[1].no < q[i + 1].no /\ q[1].no = n
      BY <1>2, <1>3, <1>7, <2>3, <3>1
    <3>3. q[i + 1].no \in n..newest
      BY <1>3, <3>1
    <3> QED
      BY <1>1, <3>1, <3>2, <3>3
  <2>6. \A m \in (n + 1)..newest : \E i \in DOMAIN r : IsBar(r[i]) /\ r[i].no = m
    <3> SUFFICES ASSUME NEW m \in (n + 1)..newest
                 PROVE  \E i \in DOMAIN r : IsBar(r[i]) /\ r[i].no = m
      OBVIOUS
    <3>1. m \in n..newest /\ m # n
      BY <1>1
    <3>2. PICK j \in DOMAIN q : IsBar(q[j]) /\ q[j].no = m
      BY <1>3, <3>1
    <3>3. j # 1
      BY <1>2, <2>3, <3>1, <3>2
    <3> QED
      BY <1>2, <3>2, <3>3
  <2> QED
    BY <1>4, <1>5, <2>1, <2>3, <2>4, <2>5, <2>6 DEF UnderWay, r
<1> QED
  BY <1>6, <1>7 DEF q, event

\* A bar received is the next one, or the newest one again, and goes on the series.
LEMMA ReceivedKeepsChart ==
    ASSUME ChartInv, StreamInv', NEW k \in Streams, Received(k)
    PROVE  ChartInv'
<1> DEFINE q == pipe[Chart]
           event == Head(pipe[k])
<1>1. /\ pipe[k] # << >> /\ pipe' = [pipe EXCEPT ![k] = Tail(@)]
      /\ bars' = IF k = Chart /\ event.channel = "ohlcv" THEN WithBar(event.no) ELSE bars
      /\ UNCHANGED <<handler, client, listeners, published, history>>
  BY DEF Received, hub, feed
<1>2. Subscribed(Chart)' = Subscribed(Chart) /\ (ChartListening' <=> ChartListening)
  BY <1>1 DEF Subscribed, ChartListening
<1>3. /\ Chart \in Streams /\ pipe \in [Streams -> Seq(Event)] /\ bars \in Seq(Nat)
      /\ pipe[k] \in Seq(Event)
  BY ChartConstants DEF ChartInv, StreamInv, StreamTyped
<1>4. ASSUME bars' = bars, ~ChartListening \/ pipe'[Chart] = q
      PROVE  ChartInv'
  BY <1>1, <1>2, <1>4, StreamMovesKeepChart
<1>5. CASE k # Chart
  BY <1>1, <1>3, <1>4, <1>5
<1>6. CASE k = Chart
  <2>1. /\ pipe'[Chart] = Tail(q) /\ q # << >> /\ event = Head(q) /\ event \in Event
        /\ bars' = IF IsBar(event) THEN WithBar(event.no) ELSE bars
    BY <1>1, <1>3, <1>6, TailEntries DEF IsBar
  <2>2. event.no \in Nat
    BY <2>1 DEF Event
  <2> HIDE DEF event
  <2>3. bars' \in Seq(Nat) /\ (IsBar(event) => bars' # << >>)
    BY <1>3, <2>1, <2>2, WithBarTyped
  <2>4. ASSUME ChartListening
        PROVE  ChartIsKnown'
    <3>0. PICK n \in Nat : \E known \in {n - 1, n} :
              /\ UnderWay(n)
              /\ history.step = "answering" /\ bars = << >> => history.read = known
              /\ history.step = "applied" /\ history.first => SeriesUpTo(known)
      BY <2>4 DEF ChartInv, ChartIsKnown
    <3>1. PICK known \in {n - 1, n} :
              /\ UnderWay(n)
              /\ history.step = "answering" /\ bars = << >> => history.read = known
              /\ history.step = "applied" /\ history.first => SeriesUpTo(known)
      BY <3>0
    <3>2. IF IsBar(event) THEN n > 0 /\ event.no = n /\ UnderWay(n + 1)' ELSE UnderWay(n)'
      BY <1>1, <2>1, <3>1, FrontLeaves DEF ChartInv
    <3>3. CASE ~IsBar(event)
      <4>1. bars' = bars /\ UnderWay(n)'
        BY <2>1, <3>2, <3>3
      <4>2. SeriesUpTo(known) => SeriesUpTo(known)'
        BY <4>1 DEF SeriesUpTo
      <4> QED
        BY <1>1, <3>1, <4>1, <4>2 DEF ChartIsKnown
    <3>4. CASE IsBar(event)
      <4>1. bars' = WithBar(n) /\ UnderWay(n + 1)' /\ n \in Nat \ {0} /\ bars' # << >>
        BY <2>1, <2>3, <3>2, <3>4
      <4>2. SeriesUpTo(known) => SeriesUpTo(n)'
        BY <1>3, <4>1, NextBarContinues
      <4>3. n + 1 \in Nat /\ n = (n + 1) - 1
        OBVIOUS
      <4>4. /\ UnderWay(n + 1)'
            /\ history'.step = "answering" /\ bars' = << >> => history'.read = n
            /\ history'.step = "applied" /\ history'.first => SeriesUpTo(n)'
        BY <1>1, <3>1, <4>1, <4>2
      <4> QED
        BY <4>3, <4>4 DEF ChartIsKnown
    <3> QED
      BY <3>3, <3>4
  <2> QED
    BY <1>1, <1>2, <2>3, <2>4 DEF ChartInv
<1> QED
  BY <1>5, <1>6

\* With nothing under way when the history was read, the next bar is the one
\* after the newest published; at most that one is stored already.
LEMMA ReadHistoryKeepsChart ==
    ASSUME ChartInv, StreamInv', ReadHistory
    PROVE  ChartInv'
<1> DEFINE heard == Chart \in listeners["ohlcv"] /\ Drained(Chart, "ohlcv")
           whole == stored["ohlcv"] <= HistoryLimit
           newest == published["ohlcv"]
           read == OldestBars(stored["ohlcv"])
<1>1. /\ UNCHANGED <<handler, client, listeners, published, stored, pipe, bars>>
      /\ history.step = "asked"
      /\ history' = [history EXCEPT !.step = "answering", !.read = read,
                                    !.whole = whole, !.heard = heard]
  BY DEF ReadHistory, streamVars, hub, feed
<1>2. /\ stored["ohlcv"] \in Nat /\ newest \in Nat
      /\ newest <= stored["ohlcv"] /\ stored["ohlcv"] <= newest + 1
      /\ pipe[Chart] \in Seq(Event) /\ HistoryLimit \in Nat
  BY ChartConstants DEF ChartInv, StreamInv, StreamTyped
<1>3. read \in Nat /\ (whole => read \in {newest, newest + 1})
  BY <1>2 DEF OldestBars
<1>4. whole \in BOOLEAN /\ heard \in BOOLEAN /\ history \in Request
  BY <1>2 DEF Drained, ChartInv
<1>5. whole /\ heard => Chart \in listeners["ohlcv"] /\ Drained(Chart, "ohlcv")
  OBVIOUS
<1>6. heard => "ohlcv" \in Subscribed(Chart)
  BY ChartConstants DEF ChartInv, StreamInv, ListenersSubscribed
<1>7. Subscribed(Chart)' = Subscribed(Chart)
  BY <1>1 DEF Subscribed
<1> HIDE DEF heard, whole, read
<1>8. /\ history' \in Request /\ history'.step = "answering" /\ history'.read = read
      /\ history'.whole = whole /\ history'.heard = heard
  BY <1>1, <1>3, <1>4 DEF Request
<1>9. ASSUME whole, heard
      PROVE  ChartIsKnown'
  <2>1. PICK n \in Nat : n = newest + 1
    BY <1>2
  <2>2. UnderWay(n)'
    BY <1>1, <1>2, <1>5, <1>9, <2>1 DEF UnderWay, Drained, IsBar
  <2>3. read \in {n - 1, n}
    BY <1>2, <1>3, <1>9, <2>1
  <2> HIDE DEF newest
  <2> QED
    BY <1>8, <2>2, <2>3 DEF ChartIsKnown
<1> QED
  BY <1>1, <1>6, <1>7, <1>8, <1>9 DEF ChartInv, ChartListening

\* The answer that comes first is the series read.
LEMMA ApplyHistoryKeepsChart ==
    ASSUME ChartInv, StreamInv', ApplyHistory
    PROVE  ChartInv'
<1> DEFINE n0 == history.read
           answer == [i \in 1..n0 |-> i]
           first == bars = << >>
<1>1. /\ UNCHANGED <<handler, client, listeners, published, stored, pipe>>
      /\ history.step = "answering" /\ bars' = bars \o answer
      /\ history' = [history EXCEPT !.step = "applied", !.first = first]
  BY DEF ApplyHistory, streamVars, hub, feed
<1>2. n0 \in Nat /\ history \in Request /\ bars \in Seq(Nat) /\ MaxBars \in Nat
  BY ChartConstants DEF ChartInv, Request
<1>3. answer \in Seq(Nat) /\ Len(answer) = n0 /\ \A i \in 1..n0 : answer[i] = i
  BY <1>2
<1>4. bars' \in Seq(Nat) /\ (first => bars' = answer)
  <2> HIDE DEF answer
  <2>1. \A s, t \in Seq(Nat) : s \o t \in Seq(Nat) /\ << >> \o t = t
    OBVIOUS
  <2> QED
    BY <1>1, <1>2, <1>3, <2>1
<1>5. first \in BOOLEAN
  OBVIOUS
<1>6. Subscribed(Chart)' = Subscribed(Chart)
  BY <1>1 DEF Subscribed
<1> HIDE DEF first, answer
<1>7. /\ history' \in Request /\ history'.step = "applied" /\ history'.first = first
      /\ history'.heard = history.heard /\ history'.whole = history.whole
  BY <1>1, <1>2, <1>5 DEF Request
<1>8. ChartListening' <=> ChartListening
  BY <1>1, <1>7 DEF ChartListening
<1>9. ASSUME first, NEW n, n = n0
      PROVE  SeriesUpTo(n)'
  <2>1. bars' = answer
    BY <1>4, <1>9
  <2>2. bars' = << >> <=> n0 = 0
    BY <1>2, <1>3, <2>1
  <2>3. \A i \in 2..n0 : i \in 1..n0 /\ i - 1 \in 1..n0 /\ i = (i - 1) + 1
    BY <1>2
  <2>4. n0 # 0 => 1 \in 1..n0 /\ n0 \in 1..n0
    BY <1>2
  <2>5. Len(bars') = n0 /\ \A i \in 1..n0 : bars'[i] = i
    BY <1>3, <2>1
  <2>6. \A i \in 2..n0 : bars'[i] = bars'[i - 1] + 1
    BY <2>3, <2>5
  <2> QED
    BY <1>9, <2>2, <2>4, <2>5, <2>6 DEF SeriesUpTo
<1>10. ASSUME ChartListening
       PROVE  ChartIsKnown'
  <2>1. PICK n \in Nat : \E known \in {n - 1, n} :
            /\ UnderWay(n)
            /\ history.step = "answering" /\ bars = << >> => history.read = known
    BY <1>10 DEF ChartInv, ChartIsKnown
  <2>2. PICK known \in {n - 1, n} :
            /\ UnderWay(n)
            /\ history.step = "answering" /\ bars = << >> => history.read = known
    BY <2>1
  <2>3. UnderWay(n)'
    BY <1>1, <2>2 DEF UnderWay
  <2>4. first => SeriesUpTo(known)'
    BY <1>1, <1>9, <2>2 DEF first
  <2> QED
    BY <1>7, <2>3, <2>4 DEF ChartIsKnown
<1> QED
  BY <1>1, <1>4, <1>6, <1>7, <1>8, <1>10 DEF ChartInv

LEMMA NextKeepsChart == ChartInv /\ [Next]_vars => ChartInv'
<1> SUFFICES ASSUME ChartInv, [Next]_vars
             PROVE  ChartInv'
  OBVIOUS
<1>0. StreamInv'
  BY NextKeeps DEF ChartInv
<1>1. ASSUME UNCHANGED <<streamVars, bars, history>>
      PROVE  ChartInv'
  BY <1>0, <1>1, StreamMovesKeepChart
     DEF streamVars, hub, feed, ChartListening, Subscribed
<1>2. ASSUME NEW k \in Streams, Open(k) \/ Subscribe(k) \/ Leave(k), UNCHANGED pageVars
      PROVE  ChartInv'
  BY <1>0, <1>2, HubKeepsChart
<1>3. ASSUME NEW k \in Streams, NEW c \in ChannelSet, Unsubscribe(k, c), UNCHANGED pageVars
      PROVE  ChartInv'
  BY <1>0, <1>3, HubKeepsChart
<1>4. ASSUME NEW c \in ChannelSet, Store(c), UNCHANGED pageVars
      PROVE  ChartInv'
  BY <1>0, <1>4, StreamMovesKeepChart DEF Store, hub, pageVars, ChartListening, Subscribed
<1>5. ASSUME NEW c \in ChannelSet, Publish(c), UNCHANGED pageVars
      PROVE  ChartInv'
  BY <1>0, <1>5, PublishKeepsChart
<1>6. CASE ReadHistory \/ ApplyHistory
  BY <1>0, <1>6, ReadHistoryKeepsChart, ApplyHistoryKeepsChart
<1>7. CASE ReadSnapshot \/ ApplySnapshot
  BY <1>1, <1>7 DEF ReadSnapshot, ApplySnapshot
<1>8. ASSUME NEW k \in Streams, Received(k)
      PROVE  ChartInv'
  BY <1>0, <1>8, ReceivedKeepsChart
<1>9. CASE UNCHANGED vars
  BY <1>1, <1>9 DEF vars, pageVars
<1> QED
  BY <1>2, <1>3, <1>4, <1>5, <1>6, <1>7, <1>8, <1>9 DEF Next, StreamNext

\* For any number of streams and bars: subscribed before the history was read,
\* answered before the first bar and never unsubscribed, and with no more bars
\* stored than the limit, the chart is the series of bars without gap,
\* repetition or disorder, and ends with the newest published one.
THEOREM ChartIsSeries == Spec => []ChartIsTheSeries
<1>1. ChartInv => ChartIsTheSeries
  <2> SUFFICES ASSUME ChartInv, InStep(history, Chart, "ohlcv")
               PROVE  /\ \A i \in 2..Len(bars) : bars[i] = bars[i - 1] + 1
                      /\ Len(bars) < MaxBars /\ bars # << >> => bars[1] = 1
                      /\ Drained(Chart, "ohlcv") /\ bars # << >> =>
                            Last(bars) >= published["ohlcv"]
    BY DEF ChartIsTheSeries
  <2>1. history.step = "applied" /\ history.first /\ ChartListening
    BY DEF InStep, ChartListening
  <2>2. PICK n \in Nat : \E known \in {n - 1, n} : UnderWay(n) /\ SeriesUpTo(known)
    BY <2>1 DEF ChartInv, ChartIsKnown
  <2>3. PICK known \in {n - 1, n} : UnderWay(n) /\ SeriesUpTo(known)
    BY <2>2
  <2>4. published["ohlcv"] \in Nat
    BY ChartConstants DEF ChartInv, StreamInv, StreamTyped
  <2>5. ASSUME Drained(Chart, "ohlcv")
        PROVE  known >= published["ohlcv"]
    <3>1. \A m \in n..published["ohlcv"] : FALSE
      BY <2>3, <2>5 DEF UnderWay, IsBar, Drained
    <3>2. n > published["ohlcv"]
      BY <2>4, <3>1
    <3> QED
      BY <2>3, <2>4, <3>2
  <2> QED
    BY <2>3, <2>5 DEF SeriesUpTo, Last
<1> QED
  BY <1>1, ChartInitInv, NextKeepsChart, PTL DEF Spec

-----------------------------------------------------------------------------
(* Nothing under way or on the page was never stored                       *)

EventsArePublished ==
    \A k \in Streams : \A i \in DOMAIN pipe[k] :
        pipe[k][i].no <= published[pipe[k][i].channel]

PageIsStored ==
    /\ lastPrice <= stored["tick"] /\ snapshot.read <= stored["tick"]
    /\ bars \in Seq(1..stored["ohlcv"]) /\ history.read <= stored["ohlcv"]

TypeInv ==
    /\ PageInv /\ ChartInv
    /\ \A c \in ChannelSet : stored[c] <= MaxEvents[c]
    /\ EventsArePublished /\ PageIsStored

LEMMA TypeFacts ==
    ASSUME TypeInv
    PROVE  /\ StreamTyped /\ MaxEvents \in [ChannelSet -> Nat]
           /\ {"tick", "ohlcv"} \subseteq ChannelSet
           /\ {snapshot, history} \subseteq Request /\ lastPrice \in Nat
           /\ stored["tick"] \in Nat /\ stored["ohlcv"] \in Nat
BY PageConstants, ChartConstants, MarketStreamAssumption
   DEF TypeInv, PageInv, ChartInv, StreamInv, StreamTyped, ChannelSet

LEMMA TypeInitInv == Init => TypeInv
<1> SUFFICES ASSUME Init
             PROVE  TypeInv
  OBVIOUS
<1>1. /\ lastPrice = 0 /\ bars = << >> /\ snapshot.read = 0 /\ history.read = 0
      /\ stored = [c \in ChannelSet |-> 0] /\ pipe = [k \in Streams |-> << >>]
  BY DEF Init, StreamInit, Asked
<1>2. stored["tick"] = 0 /\ stored["ohlcv"] = 0 /\ MaxEvents \in [ChannelSet -> Nat]
  BY <1>1, PageConstants, ChartConstants, MarketStreamAssumption DEF ChannelSet
<1>3. EventsArePublished /\ PageIsStored
  BY <1>1, <1>2 DEF EventsArePublished, PageIsStored
<1> QED
  BY <1>1, <1>2, <1>3, PageInitInv, ChartInitInv DEF TypeInv

LEMMA LongerTable ==
    ASSUME NEW m \in Nat, NEW n \in Nat, m <= n, NEW s \in Seq(1..m)
    PROVE  s \in Seq(1..n)
<1>1. 1..m \subseteq 1..n
  OBVIOUS
<1> QED
  BY <1>1, LargerAlphabet

\* A step that leaves the page and shortens what is under way.
LEMMA StreamMovesKeepTypes ==
    ASSUME TypeInv, PageInv', ChartInv', UNCHANGED pageVars,
           \A c \in ChannelSet : /\ stored[c] <= stored'[c] /\ stored'[c] <= MaxEvents[c]
                                 /\ published'[c] = published[c],
           \A k \in Streams : pipe'[k] \in {pipe[k], << >>}
    PROVE  TypeInv'
<1> USE TypeFacts
<1>1. EventsArePublished'
  <2> SUFFICES ASSUME NEW k \in Streams, NEW i \in DOMAIN pipe'[k]
               PROVE  pipe'[k][i].no <= published'[pipe'[k][i].channel]
    BY DEF EventsArePublished
  <2>1. pipe'[k] = pipe[k]
    OBVIOUS
  <2>2. pipe[k][i] \in Event
    BY <2>1 DEF StreamTyped
  <2>3. pipe[k][i].channel \in ChannelSet
    BY <2>2 DEF Event
  <2>4. published'[pipe[k][i].channel] = published[pipe[k][i].channel]
    BY <2>3
  <2>5. pipe[k][i].no <= published[pipe[k][i].channel]
    BY <2>1 DEF TypeInv, EventsArePublished
  <2> QED
    BY <2>1, <2>4, <2>5
<1>2. PageIsStored'
  <2>1. /\ stored'["tick"] \in Nat /\ stored'["ohlcv"] \in Nat
        /\ stored["tick"] <= stored'["tick"] /\ stored["ohlcv"] <= stored'["ohlcv"]
    BY DEF PageInv, StreamInv, StreamTyped
  <2>2. bars \in Seq(1..stored'["ohlcv"])
    BY <2>1, LongerTable DEF TypeInv, PageIsStored
  <2>3. snapshot.read \in Nat /\ history.read \in Nat
    BY DEF Request
  <2>4. /\ lastPrice \in Nat /\ stored["tick"] \in Nat /\ stored["ohlcv"] \in Nat
        /\ lastPrice <= stored["tick"] /\ snapshot.read <= stored["tick"]
        /\ history.read <= stored["ohlcv"]
    BY DEF TypeInv, PageIsStored
  <2>5. lastPrice' = lastPrice /\ snapshot' = snapshot /\ bars' = bars /\ history' = history
    BY DEF pageVars
  <2>6. /\ lastPrice <= stored'["tick"] /\ snapshot.read <= stored'["tick"]
        /\ history.read <= stored'["ohlcv"]
    BY ONLY <2>1, <2>3, <2>4
  <2> QED
    BY ONLY <2>2, <2>5, <2>6 DEF PageIsStored
<1> QED
  BY <1>1, <1>2 DEF TypeInv

LEMMA PublishKeepsTypes ==
    ASSUME TypeInv, PageInv', ChartInv', UNCHANGED pageVars, NEW c \in ChannelSet, Publish(c)
    PROVE  TypeInv'
<1> USE TypeFacts
<1> DEFINE event == [channel |-> c, no |-> published'[c]]
<1>1. /\ published' = [published EXCEPT ![c] = @ + 1] /\ UNCHANGED stored
      /\ \A k \in Streams : pipe'[k] \in {pipe[k], Append(pipe[k], event)}
  BY DEF Publish
<1>2. /\ event.channel = c /\ event.no = published'[c] /\ published'[c] \in Nat
      /\ \A d \in ChannelSet : published[d] <= published'[d] /\ published[d] \in Nat
                               /\ published'[d] \in Nat
  <2>1. published \in [ChannelSet -> Nat] /\ event.channel = c /\ event.no = published'[c]
    BY DEF StreamTyped
  <2> HIDE DEF event
  <2>2. \A d \in ChannelSet : published'[d] = IF d = c THEN published[d] + 1 ELSE published[d]
    BY <1>1, <2>1
  <2> QED
    BY <2>1, <2>2
<1>3. event \in Event
  <2>1. published'[c] \in Nat \ {0}
    BY <1>1 DEF StreamTyped
  <2> QED
    BY <2>1 DEF Event
<1> HIDE DEF event
<1>4. EventsArePublished'
  <2> SUFFICES ASSUME NEW k \in Streams, NEW i \in DOMAIN pipe'[k]
               PROVE  pipe'[k][i].no <= published'[pipe'[k][i].channel]
    BY DEF EventsArePublished
  <2>1. ASSUME i \in DOMAIN pipe[k], pipe'[k][i] = pipe[k][i]
        PROVE  pipe'[k][i].no <= published'[pipe'[k][i].channel]
    <3>0. pipe[k] \in Seq(Event)
      BY DEF StreamTyped
    <3>1. pipe[k][i] \in Event
      BY ONLY <2>1, <3>0
    <3>2. pipe[k][i].channel \in ChannelSet /\ pipe[k][i].no \in Nat
      BY <3>1 DEF Event
    <3>3. pipe[k][i].no <= published[pipe[k][i].channel]
      BY <2>1 DEF TypeInv, EventsArePublished
    <3> QED
      BY <1>2, <2>1, <3>2, <3>3
  <2>2. ASSUME pipe'[k][i] = event
        PROVE  pipe'[k][i].no <= published'[pipe'[k][i].channel]
    BY <1>2, <2>2
  <2>3. pipe[k] \in Seq(Event)
    BY DEF StreamTyped
  <2>4. CASE pipe'[k] = Append(pipe[k], event)
    <3>1. i \in DOMAIN Append(pipe[k], event)
      BY <2>4
    <3>2. (i \in DOMAIN pipe[k] /\ pipe'[k][i] = pipe[k][i]) \/ pipe'[k][i] = event
      BY <1>3, <2>3, <2>4, <3>1, AppendEntries
    <3> QED
      BY <2>1, <2>2, <3>2
  <2>5. CASE pipe'[k] = pipe[k]
    BY <2>1, <2>5
  <2> QED
    BY <1>1, <2>4, <2>5
<1> QED
  BY <1>1, <1>4 DEF TypeInv, PageIsStored, pageVars

LEMMA ReceivedKeepsTypes ==
    ASSUME TypeInv, PageInv', ChartInv', NEW k \in Streams, Received(k)
    PROVE  TypeInv'
<1> USE TypeFacts
<1> DEFINE event == Head(pipe[k])
<1>1. /\ pipe[k] # << >> /\ pipe' = [pipe EXCEPT ![k] = Tail(@)]
      /\ lastPrice' = IF k = Dashboard /\ event.channel = "tick" THEN event.no ELSE lastPrice
      /\ bars' = IF k = Chart /\ event.channel = "ohlcv" THEN WithBar(event.no) ELSE bars
      /\ UNCHANGED <<stored, published, snapshot, history>>
  BY DEF Received, hub, feed
<1>2. pipe[k] \in Seq(Event) /\ pipe \in [Streams -> Seq(Event)]
  BY DEF StreamTyped
<1>3. /\ event \in Event /\ 1 \in DOMAIN pipe[k] /\ event = pipe[k][1]
      /\ \A i \in DOMAIN Tail(pipe[k]) : /\ i + 1 \in DOMAIN pipe[k]
                                         /\ Tail(pipe[k])[i] = pipe[k][i + 1]
  BY <1>1, <1>2, TailEntries
<1>4. event.no \in Nat \ {0} /\ event.channel \in ChannelSet /\ event.no <= stored[event.channel]
  <2>1. event.no \in Nat \ {0} /\ event.channel \in ChannelSet
    BY <1>3 DEF Event
  <2>2. event.no <= published[event.channel]
    BY <1>3 DEF TypeInv, EventsArePublished
  <2>3. /\ published[event.channel] <= stored[event.channel]
        /\ published[event.channel] \in Nat /\ stored[event.channel] \in Nat
    BY <2>1 DEF StreamTyped
  <2> QED
    BY <2>1, <2>2, <2>3
<1> HIDE DEF event
<1>5. EventsArePublished'
  <2> SUFFICES ASSUME NEW q \in Streams, NEW i \in DOMAIN pipe'[q]
               PROVE  pipe'[q][i].no <= published[pipe'[q][i].channel]
    BY <1>1 DEF EventsArePublished
  <2>1. CASE q = k
    <3>1. pipe'[k] = Tail(pipe[k])
      BY <1>1, <1>2
    <3> QED
      BY <1>3, <2>1, <3>1 DEF TypeInv, EventsArePublished
  <2>2. CASE q # k
    BY <1>1, <1>2, <2>2 DEF TypeInv, EventsArePublished
  <2> QED
    BY <2>1, <2>2
<1>6. lastPrice' <= stored["tick"]
  BY <1>1, <1>4 DEF TypeInv, PageIsStored
<1>7. bars' \in Seq(1..stored["ohlcv"])
  <2>1. bars \in Seq(1..stored["ohlcv"])
    BY DEF TypeInv, PageIsStored
  <2>2. ASSUME NEW n \in 1..stored["ohlcv"]
        PROVE  WithBar(n) \in Seq(1..stored["ohlcv"])
    <3> DEFINE longer == Append(bars, n)
    <3>1. longer \in Seq(1..stored["ohlcv"]) /\ longer # << >>
      BY <2>1
    <3>2. WithBar(n) \in {bars, Tail(longer), longer}
      BY DEF WithBar
    <3> HIDE DEF longer
    <3>3. Tail(longer) \in Seq(1..stored["ohlcv"])
      BY <3>1
    <3> QED
      BY <2>1, <3>1, <3>2, <3>3
  <2>3. event.channel = "ohlcv" => event.no \in 1..stored["ohlcv"]
    BY <1>4
  <2> QED
    BY <1>1, <2>1, <2>2, <2>3
<1> QED
  BY <1>1, <1>5, <1>6, <1>7 DEF TypeInv, PageIsStored

LEMMA PageStepsKeepTypes ==
    ASSUME TypeInv, PageInv', ChartInv',
           ReadSnapshot \/ ApplySnapshot \/ ReadHistory \/ ApplyHistory
    PROVE  TypeInv'
<1> USE TypeFacts
<1>1. UNCHANGED <<stored, published, pipe>>
  BY DEF ReadSnapshot, ApplySnapshot, ReadHistory, ApplyHistory, streamVars, feed
<1>2. EventsArePublished'
  BY <1>1 DEF TypeInv, EventsArePublished
<1>3. /\ lastPrice <= stored["tick"] /\ snapshot.read <= stored["tick"]
      /\ bars \in Seq(1..stored["ohlcv"]) /\ history.read <= stored["ohlcv"]
  BY DEF TypeInv, PageIsStored
<1>4. snapshot.read \in Nat /\ history.read \in Nat
  BY DEF Request
<1>5. PageIsStored'
  <2>1. CASE ReadSnapshot
    <3>1. snapshot'.read = stored["tick"]
      BY <2>1 DEF ReadSnapshot, Request
    <3> QED
      BY <1>1, <1>3, <2>1, <3>1 DEF PageIsStored, ReadSnapshot
  <2>2. CASE ApplySnapshot
    <3>1. snapshot'.read = snapshot.read
      BY <2>2 DEF ApplySnapshot, Request
    <3> QED
      BY <1>1, <1>3, <2>2, <3>1 DEF PageIsStored, ApplySnapshot
  <2>3. CASE ReadHistory
    <3>1. history'.read = OldestBars(stored["ohlcv"])
      BY <2>3 DEF ReadHistory, Request
    <3>2. OldestBars(stored["ohlcv"]) <= stored["ohlcv"]
      BY ChartConstants DEF OldestBars
    <3> QED
      BY <1>1, <1>3, <2>3, <3>1, <3>2 DEF PageIsStored, ReadHistory
  <2>4. CASE ApplyHistory
    <3> DEFINE answer == [i \in 1..history.read |-> i]
    <3>1. history'.read = history.read /\ bars' = bars \o answer
      BY <2>4 DEF ApplyHistory, Request
    <3>2. answer \in Seq(1..history.read)
      BY <1>4
    <3>3. answer \in Seq(1..stored["ohlcv"])
      BY <1>3, <1>4, <3>2, LongerTable
    <3> HIDE DEF answer
    <3>4. bars' \in Seq(1..stored["ohlcv"])
      BY <1>3, <3>1, <3>3
    <3> QED
      BY <1>1, <1>3, <2>4, <3>1, <3>4 DEF PageIsStored, ApplyHistory
  <2> QED
    BY <2>1, <2>2, <2>3, <2>4
<1> QED
  BY <1>1, <1>2, <1>5 DEF TypeInv

LEMMA NextKeepsTypes == TypeInv /\ [Next]_vars => TypeInv'
<1> SUFFICES ASSUME TypeInv, [Next]_vars
             PROVE  TypeInv'
  OBVIOUS
<1> USE TypeFacts
<1>0. PageInv' /\ ChartInv'
  BY NextKeepsPrice, NextKeepsChart DEF TypeInv
<1>1. ASSUME NEW k \in Streams, UNCHANGED pageVars,
             Open(k) \/ Subscribe(k) \/ Leave(k) \/ \E c \in ChannelSet : Unsubscribe(k, c)
      PROVE  TypeInv'
  <2>1. UNCHANGED <<stored, published>> /\ \A q \in Streams : pipe'[q] \in {pipe[q], << >>}
    BY <1>1 DEF Open, Subscribe, Leave, Unsubscribe, feed, StreamTyped
  <2>2. \A c \in ChannelSet : stored[c] \in Nat /\ stored[c] <= MaxEvents[c]
    BY DEF TypeInv, StreamTyped
  <2> QED
    BY <1>0, <1>1, <2>1, <2>2, StreamMovesKeepTypes
<1>2. ASSUME NEW c \in ChannelSet, Store(c), UNCHANGED pageVars
      PROVE  TypeInv'
  <2>1. /\ stored[c] < MaxEvents[c] /\ stored' = [stored EXCEPT ![c] = @ + 1]
        /\ UNCHANGED <<published, pipe>>
    BY <1>2 DEF Store
  <2>2. stored \in [ChannelSet -> Nat] /\ \A d \in ChannelSet : stored[d] <= MaxEvents[d]
    BY DEF TypeInv, StreamTyped
  <2>3. \A d \in ChannelSet : MaxEvents[d] \in Nat
    BY MarketStreamAssumption DEF MarketStreamAssumption, ChannelSet
  <2>4. ASSUME NEW d \in ChannelSet
        PROVE  stored[d] <= stored'[d] /\ stored'[d] <= MaxEvents[d]
    <3>1. CASE d = c
      <4>1. stored'[d] = stored[d] + 1 /\ stored[d] \in Nat /\ stored[d] < MaxEvents[d]
        BY ONLY <2>1, <2>2, <3>1, c \in ChannelSet
      <4> QED
        BY ONLY <2>3, <4>1, d \in ChannelSet
    <3>2. CASE d # c
      <4>1. stored'[d] = stored[d] /\ stored[d] \in Nat /\ stored[d] <= MaxEvents[d]
        BY ONLY <2>1, <2>2, <3>2, d \in ChannelSet
      <4> QED
        BY ONLY <2>3, <4>1, d \in ChannelSet
    <3> QED
      BY <3>1, <3>2
  <2> QED
    BY <1>0, <1>2, <2>1, <2>4, StreamMovesKeepTypes
<1>3. ASSUME NEW c \in ChannelSet, Publish(c), UNCHANGED pageVars
      PROVE  TypeInv'
  BY <1>0, <1>3, PublishKeepsTypes
<1>4. CASE ReadSnapshot \/ ApplySnapshot \/ ReadHistory \/ ApplyHistory
  BY <1>0, <1>4, PageStepsKeepTypes
<1>5. ASSUME NEW k \in Streams, Received(k)
      PROVE  TypeInv'
  BY <1>0, <1>5, ReceivedKeepsTypes
<1>6. CASE UNCHANGED vars
  BY <1>0, <1>6 DEF TypeInv, EventsArePublished, PageIsStored, vars, streamVars, feed, pageVars
<1> QED
  BY <1>1, <1>2, <1>3, <1>4, <1>5, <1>6 DEF Next, StreamNext

\* Whatever the interleaving, the page shows nothing and no event is under way
\* that was not stored before: publishing comes after the insert.
THEOREM PageTypes == Spec => []TypeOK
<1>1. TypeInv => TypeOK
  <2> SUFFICES ASSUME TypeInv
               PROVE  TypeOK
    OBVIOUS
  <2>1. StreamTypeOK
    BY TypeFacts DEF StreamTypeOK, StreamTyped, TypeInv
  <2>2. ASSUME NEW q \in Seq(Event)
        PROVE  q \in Seq([channel : ChannelSet, no : Nat])
    <3> DEFINE Looser == [channel : ChannelSet, no : Nat]
    <3>1. Event \subseteq Looser
      BY DEF Event
    <3> HIDE DEF Looser
    <3>2. q \in Seq(Looser)
      BY <2>2, <3>1, LargerAlphabet
    <3> QED
      BY <3>2 DEF Looser
  <2>3. \A k \in Streams : pipe[k] \in Seq([channel : ChannelSet, no : Nat])
    BY <2>2, TypeFacts DEF StreamTyped
  <2>4. lastPrice \in 0..stored["tick"] /\ bars \in Seq(1..stored["ohlcv"])
    BY TypeFacts DEF TypeInv, PageIsStored
  <2> QED
    BY <2>1, <2>3, <2>4, TypeFacts DEF TypeOK
<1> QED
  BY <1>1, TypeInitInv, NextKeepsTypes, PTL DEF Spec

=============================================================================
