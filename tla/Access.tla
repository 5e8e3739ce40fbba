-------------------------------- MODULE Access --------------------------------
(***************************************************************************)
(* A client organization, its users, their sessions and the links by which  *)
(* they come in: login, refresh, logout, invitations and access resets,     *)
(* deactivation and reactivation.                                          *)
(*   auth/router.py, auth/session_service.py, auth/service.py,              *)
(*   organizations/service.py, organizations/invitation_service.py,         *)
(*   organizations/router.py, clients/router.py, credentials/service.py     *)
(*                                                                          *)
(* A request is one transaction under READ COMMITTED: it reads without      *)
(* locks, its writes wait for the rows another request wrote, and they are   *)
(* seen when it commits.  A statement that revokes many sessions works on    *)
(* the rows it saw when it began, and waits for those in use.  A refused     *)
(* request rolls back.  A token that has expired is one nobody presents:     *)
(* its refusal writes nothing.                                             *)
(***************************************************************************)
EXTENDS Naturals, Sequences, FiniteSets

CONSTANTS
    Names,              \* user names, unique in the whole system
    Requests,           \* concurrent requests
    NoName,
    Limits              \* bounds to choose from: how many sessions and links are ever made

ConstantsOK ==
    NoName \notin Names /\ Limits \subseteq [sessions : Nat, links : Nat]

VARIABLES
    org,          \* the client: absent, active or inactive
    users,        \* operational_users, by name; bare: active, and without a password
    sessions,     \* auth_sessions as committed, in order: user, family, active
    invitations,  \* user_invitations: name, purpose, accepted, revoked, expired
    pc,           \* where each request is
    target,       \* the session or the invitation it is about
    user,         \* the user it acts for or creates
    snap,         \* the sessions or invitations its statement works on
    seen,         \* sessions committed when its statement began
    mark,         \* history, by user: sessions committed when the last revocation ended
    late,         \* history: families that gained a session while one was running
    barred,       \* history: links revoked before anybody had opened them
    uses,         \* history: tokens issued for each link
    limit         \* the bounds of this behaviour

rows == <<org, users, sessions, invitations>>
history == <<mark, late, barred, uses>>
request == <<pc, target, user, snap, seen>>
vars == <<rows, request, history, limit>>

PCs == {"idle", "loggingIn", "refreshing", "rotated", "loggingOut", "opened", "created",
        "resetting", "deactivating", "revoking", "replacing", "replacingReset"}

SessionRow == [user : Names, family : Nat, active : BOOLEAN]
InvitationRow == [name : Names, purpose : {"invite", "reset"},
                  accepted : BOOLEAN, revoked : BOOLEAN, expired : BOOLEAN]

TypeOK ==
    /\ org \in {"absent", "active", "inactive"}
    /\ users \in [Names -> {"none", "bare", "active", "inactive"}]
    /\ sessions \in Seq(SessionRow) /\ invitations \in Seq(InvitationRow)
    /\ pc \in [Requests -> PCs]
    /\ target \in [Requests -> Nat] /\ user \in [Requests -> Names \cup {NoName}]
    /\ snap \in [Requests -> SUBSET Nat] /\ seen \in [Requests -> Nat]
    /\ mark \in [Names -> Nat] /\ late \subseteq Nat
    /\ barred \subseteq Nat /\ uses \in [1 .. limit.links -> Nat]
    /\ limit \in Limits

Init ==
    /\ \/ org = "absent" /\ users = [n \in Names |-> "none"]
       \/ org = "active" /\ users \in [Names -> {"none", "active"}]
    /\ sessions = <<>> /\ invitations = <<>>
    /\ pc = [r \in Requests |-> "idle"] /\ target = [r \in Requests |-> 0]
    /\ user = [r \in Requests |-> NoName]
    /\ snap = [r \in Requests |-> {}] /\ seen = [r \in Requests |-> 0]
    /\ mark = [n \in Names |-> 0] /\ late = {} /\ barred = {}
    /\ limit \in Limits /\ uses = [i \in 1 .. limit.links |-> 0]

-----------------------------------------------------------------------------
(* What others are writing and have not committed.                          *)

Others(r) == Requests \ {r}

\* The row of a session, of a user, of a link, of the organization is locked by
\* another request.
SessionBusy(r, s) == \E q \in Others(r) : pc[q] = "rotated" /\ target[q] = s
UserBusy(r, n) == \E q \in Others(r) : pc[q] \in {"created", "resetting"} /\ user[q] = n
LinkBusy(r, i) == \E q \in Others(r) : pc[q] = "resetting" /\ target[q] = i
OrgBusy(r) == \E q \in Others(r) : pc[q] \in {"deactivating", "replacing", "replacingReset"}

IsActive(n) == users[n] \in {"bare", "active"}

\* load_active_user: the user and its organization are active.
ActiveUser(n) == IsActive(n) /\ org = "active"

Live(s) == sessions[s].active
LiveOf(N) == {s \in DOMAIN sessions : Live(s) /\ sessions[s].user \in N}

Pending(i) == LET x == invitations[i] IN ~x.accepted /\ ~x.revoked /\ ~x.expired
PendingOf(p) == {i \in DOMAIN invitations : Pending(i) /\ invitations[i].purpose = p}

-----------------------------------------------------------------------------
(* Steps of a request.                                                      *)

At(r, label) == pc[r] = label
Goto(r, label) == pc' = [pc EXCEPT ![r] = label]

Finish(r) ==
    /\ Goto(r, "idle")
    /\ target' = [target EXCEPT ![r] = 0] /\ user' = [user EXCEPT ![r] = NoName]
    /\ snap' = [snap EXCEPT ![r] = {}] /\ seen' = [seen EXCEPT ![r] = 0]

Refuse(r) == Finish(r) /\ UNCHANGED <<limit, rows, history>>

\* The statement reads the sessions to revoke.
SeeSessions(r, N) ==
    /\ snap' = [snap EXCEPT ![r] = LiveOf(N)] /\ seen' = [seen EXCEPT ![r] = Len(sessions)]

CanRevoke(r) == \A s \in snap[r] : ~SessionBusy(r, s)

Ended(S) == [s \in DOMAIN sessions |-> IF s \in S THEN [sessions[s] EXCEPT !.active = FALSE]
                                                  ELSE sessions[s]]

\* History of a revocation of the sessions of N that now commits.
RevocationEnds(r, N) ==
    /\ mark' = [n \in Names |-> IF n \in N THEN Len(sessions) ELSE mark[n]]
    /\ late' = late \cup {sessions[s].family : s \in {x \in DOMAIN sessions : x > seen[r]}}

NewSession(n, f) == [user |-> n, family |-> f, active |-> TRUE]
Room == Len(sessions) < limit.sessions

NewLink(n, p) == [name |-> n, purpose |-> p, accepted |-> FALSE, revoked |-> FALSE, expired |-> FALSE]
RoomForLink == Len(invitations) < limit.links

-----------------------------------------------------------------------------
(* Sessions: auth/router.py.                                                *)

\* login with the right password: the user is read ...
Login(r, n) ==
    /\ At(r, "idle") /\ users[n] = "active" /\ org = "active"
    /\ Goto(r, "loggingIn") /\ user' = [user EXCEPT ![r] = n]
    /\ UNCHANGED <<limit, rows, history, target, snap, seen>>

\* ... and the first session of a family is committed.
OpenSession(r) ==
    /\ At(r, "loggingIn") /\ Room
    /\ sessions' = Append(sessions, NewSession(user[r], Len(sessions) + 1))
    /\ Finish(r) /\ UNCHANGED <<limit, org, users, invitations, history>>

\* refresh: the holder of a token is still an active user.
RefreshRead(r, s) ==
    /\ At(r, "idle") /\ s \in DOMAIN sessions /\ ActiveUser(sessions[s].user)
    /\ Goto(r, "refreshing") /\ target' = [target EXCEPT ![r] = s]
    /\ UNCHANGED <<limit, rows, history, user, snap, seen>>

\* Mutants of Rotate: a session in use, and one already rotated, can be claimed.
RotateBusy(r) ==
    /\ At(r, "refreshing") /\ Live(target[r])
    /\ Goto(r, "rotated") /\ UNCHANGED <<limit, rows, history, target, user, snap, seen>>
RotateEnded(r) ==
    /\ At(r, "refreshing") /\ ~SessionBusy(r, target[r])
    /\ Goto(r, "rotated") /\ UNCHANGED <<limit, rows, history, target, user, snap, seen>>

\* AuthSessionService.rotate: one UPDATE that claims the session if it is active.
Rotate(r) ==
    /\ At(r, "refreshing") /\ ~SessionBusy(r, target[r]) /\ Live(target[r])
    /\ Goto(r, "rotated") /\ UNCHANGED <<limit, rows, history, target, user, snap, seen>>

\* Nothing claimed: what the failed rotation wrote is not committed.
RotateRefused(r) ==
    /\ At(r, "refreshing") /\ ~SessionBusy(r, target[r]) /\ ~Live(target[r])
    /\ Refuse(r)

\* refresh commits: the old session ends and its successor joins the family.
CommitRotation(r) ==
    /\ At(r, "rotated") /\ Room
    /\ sessions' = LET s == target[r] IN
                   Append(Ended({s}), NewSession(sessions[s].user, sessions[s].family))
    /\ Finish(r) /\ UNCHANGED <<limit, org, users, invitations, history>>

\* logout: the session is read ...
LogoutRead(r, s) ==
    /\ At(r, "idle") /\ s \in DOMAIN sessions /\ Live(s)
    /\ Goto(r, "loggingOut") /\ target' = [target EXCEPT ![r] = s]
    /\ UNCHANGED <<limit, rows, history, user, snap, seen>>

\* ... and ended, whatever happened to it meanwhile.
Logout(r) ==
    /\ At(r, "loggingOut") /\ ~SessionBusy(r, target[r])
    /\ sessions' = Ended({target[r]})
    /\ Finish(r) /\ UNCHANGED <<limit, org, users, invitations, history>>

-----------------------------------------------------------------------------
(* Links: organizations/invitation_service.py.                              *)

\* create_client, create_organization: the organization and its first link.
CreateClient(n) ==
    /\ org = "absent" /\ RoomForLink
    /\ org' = "active" /\ invitations' = Append(invitations, NewLink(n, "invite"))
    /\ UNCHANGED <<limit, users, sessions, request, history>>

\* create_invitation of an administrator of the organization.
CreateInvitation(n) ==
    /\ org # "absent" /\ RoomForLink
    /\ invitations' = Append(invitations, NewLink(n, "invite"))
    /\ UNCHANGED <<limit, org, users, sessions, request, history>>

\* History: a link is barred once revoked with nobody having opened it.
Bar(I) ==
    barred' = barred \cup
        {i \in I : ~invitations[i].accepted
                   /\ \A q \in Requests : ~(pc[q] \in {"opened", "created", "resetting"} /\ target[q] = i)}

Revoked(I) == [i \in DOMAIN invitations |->
                  IF i \in I THEN [invitations[i] EXCEPT !.revoked = TRUE] ELSE invitations[i]]

\* revoke_invitation: whether or not it was accepted.
RevokeInvitation(r, i) ==
    /\ At(r, "idle") /\ i \in DOMAIN invitations /\ ~invitations[i].revoked /\ ~LinkBusy(r, i)
    /\ invitations' = Revoked({i}) /\ Bar({i})
    /\ UNCHANGED <<limit, org, users, sessions, request, mark, late, uses>>

\* Time passes the end of a link.
ExpireInvitation(i) ==
    /\ i \in DOMAIN invitations /\ Pending(i)
    /\ invitations' = [invitations EXCEPT ![i].expired = TRUE]
    /\ UNCHANGED <<limit, org, users, sessions, request, history>>

\* Mutant of OpenInvitation: revoked links open.
OpenInvitationRevoked(r, i) ==
    /\ At(r, "idle") /\ i \in DOMAIN invitations
    /\ org = "active" /\ ~invitations[i].accepted /\ ~invitations[i].expired
    /\ Goto(r, "opened") /\ target' = [target EXCEPT ![r] = i]
    /\ user' = [user EXCEPT ![r] = invitations[i].name]
    /\ UNCHANGED <<limit, rows, history, snap, seen>>

\* InvitationService.consume: reads only.
OpenInvitation(r, i) ==
    /\ At(r, "idle") /\ i \in DOMAIN invitations
    /\ org = "active" /\ Pending(i)
    /\ Goto(r, "opened") /\ target' = [target EXCEPT ![r] = i]
    /\ user' = [user EXCEPT ![r] = invitations[i].name]
    /\ UNCHANGED <<limit, rows, history, snap, seen>>

\* accept_invitation inserts the user, waiting for an insert of the same name.
InsertUser(r) ==
    /\ At(r, "opened") /\ invitations[target[r]].purpose = "invite"
    /\ ~UserBusy(r, user[r]) /\ users[user[r]] = "none"
    /\ Goto(r, "created") /\ UNCHANGED <<limit, rows, history, target, user, snap, seen>>

InsertUserRefused(r) ==
    /\ At(r, "opened") /\ invitations[target[r]].purpose = "invite"
    /\ ~UserBusy(r, user[r]) /\ users[user[r]] # "none"
    /\ Refuse(r)

Used(i) == uses' = [uses EXCEPT ![i] = @ + 1]

\* mark_accepted and the commit of user, link and first session.
AcceptInvitation(r) ==
    /\ At(r, "created") /\ ~invitations[target[r]].accepted /\ Room
    /\ users' = [users EXCEPT ![user[r]] = "active"]
    /\ invitations' = [invitations EXCEPT ![target[r]].accepted = TRUE]
    /\ sessions' = Append(sessions, NewSession(user[r], Len(sessions) + 1))
    /\ Used(target[r]) /\ Finish(r) /\ UNCHANGED <<limit, org, mark, late, barred>>

\* Mutant of StartReset: mark_accepted claims an accepted link.
StartResetAgain(r) ==
    /\ At(r, "opened") /\ invitations[target[r]].purpose = "reset"
    /\ IsActive(user[r]) /\ ~LinkBusy(r, target[r]) /\ ~UserBusy(r, user[r])
    /\ Goto(r, "resetting") /\ SeeSessions(r, {user[r]})
    /\ UNCHANGED <<limit, rows, history, target, user>>

\* _accept_access_reset: the link is claimed and the password set; the statement
\* that ends the user's sessions begins.
StartReset(r) ==
    /\ At(r, "opened") /\ invitations[target[r]].purpose = "reset"
    /\ IsActive(user[r]) /\ ~LinkBusy(r, target[r]) /\ ~UserBusy(r, user[r])
    /\ ~invitations[target[r]].accepted
    /\ Goto(r, "resetting") /\ SeeSessions(r, {user[r]})
    /\ UNCHANGED <<limit, rows, history, target, user>>

ResetRefused(r) ==
    /\ At(r, "opened") /\ invitations[target[r]].purpose = "reset"
    /\ \/ ~IsActive(user[r])
       \/ ~LinkBusy(r, target[r]) /\ invitations[target[r]].accepted
    /\ Refuse(r)

FinishReset(r) ==
    /\ At(r, "resetting") /\ CanRevoke(r) /\ Room
    /\ users' = [users EXCEPT ![user[r]] = "active"]
    /\ invitations' = [invitations EXCEPT ![target[r]].accepted = TRUE]
    /\ sessions' = Append(Ended(snap[r]), NewSession(user[r], Len(sessions) + 1))
    /\ RevocationEnds(r, {user[r]}) /\ Used(target[r])
    /\ Finish(r) /\ UNCHANGED <<limit, org, barred>>

-----------------------------------------------------------------------------
(* The platform's hand on a client: clients/router.py, with the row of the   *)
(* organization locked, and organizations/router.py.                        *)

\* Mutant of LockClient: FOR UPDATE forgotten.
LockClientFree(r, p) ==
    /\ At(r, "idle") /\ org = "active"
    /\ p = "reset" => \E n \in Names : IsActive(n)
    /\ Goto(r, IF p = "reset" THEN "replacingReset" ELSE "replacing")
    /\ snap' = [snap EXCEPT ![r] = PendingOf(p)]
    /\ UNCHANGED <<limit, rows, history, target, user, seen>>

\* reinvite_client, reset_client_access: the pending links are read ...
LockClient(r, p) ==
    /\ At(r, "idle") /\ org = "active" /\ ~OrgBusy(r)
    /\ p = "reset" => \E n \in Names : IsActive(n)
    /\ Goto(r, IF p = "reset" THEN "replacingReset" ELSE "replacing")
    /\ snap' = [snap EXCEPT ![r] = PendingOf(p)]
    /\ UNCHANGED <<limit, rows, history, target, user, seen>>

\* ... revoked, and a new one issued; a reset is for the administrator in charge.
ReplaceLinks(r, n) ==
    /\ \/ At(r, "replacing")
       \/ At(r, "replacingReset") /\ users[n] # "none"
    /\ RoomForLink /\ \A i \in snap[r] : ~LinkBusy(r, i)
    /\ invitations' = Append(Revoked(snap[r]),
                             NewLink(n, IF At(r, "replacing") THEN "invite" ELSE "reset"))
    /\ Bar(snap[r]) /\ Finish(r) /\ UNCHANGED <<limit, org, users, sessions, mark, late, uses>>

\* OrganizationService.deactivate: the row is written and the statement that
\* ends the sessions begins.
StartDeactivation(r) ==
    /\ At(r, "idle") /\ org # "absent" /\ ~OrgBusy(r)
    /\ Goto(r, "deactivating") /\ SeeSessions(r, Names)
    /\ UNCHANGED <<limit, rows, history, target, user>>

\* deactivate_organization of an organization read as inactive: no row is locked.
StartRevocation(r) ==
    /\ At(r, "idle") /\ org = "inactive"
    /\ Goto(r, "revoking") /\ SeeSessions(r, Names)
    /\ UNCHANGED <<limit, rows, history, target, user>>

FinishDeactivation(r) ==
    /\ pc[r] \in {"deactivating", "revoking"} /\ CanRevoke(r)
    /\ org' = IF At(r, "deactivating") THEN "inactive" ELSE org
    /\ sessions' = Ended(snap[r]) /\ RevocationEnds(r, Names)
    /\ Finish(r) /\ UNCHANGED <<limit, users, invitations, barred, uses>>

\* reactivate_client.
Reactivate(r) ==
    /\ At(r, "idle") /\ org = "inactive" /\ ~OrgBusy(r)
    /\ org' = "active" /\ UNCHANGED <<limit, users, sessions, invitations, request, history>>

\* create_user: without a password.
CreateUser(r, n) ==
    /\ At(r, "idle") /\ org = "active" /\ users[n] = "none" /\ ~UserBusy(r, n)
    /\ users' = [users EXCEPT ![n] = "bare"]
    /\ UNCHANGED <<limit, org, sessions, invitations, request, history>>

\* deactivate_user: its sessions stay, and are not refreshed any more.
DeactivateUser(r, n) ==
    /\ At(r, "idle") /\ IsActive(n) /\ ~UserBusy(r, n)
    /\ users' = [users EXCEPT ![n] = "inactive"]
    /\ UNCHANGED <<limit, org, sessions, invitations, request, history>>

-----------------------------------------------------------------------------

SessionIds == UNION {1 .. l.sessions : l \in Limits}
LinkIds == UNION {1 .. l.links : l \in Limits}

Next ==
    \/ \E r \in Requests, n \in Names :
          Login(r, n) \/ CreateUser(r, n) \/ DeactivateUser(r, n) \/ ReplaceLinks(r, n)
    \/ \E r \in Requests, s \in SessionIds : RefreshRead(r, s) \/ LogoutRead(r, s)
    \/ \E r \in Requests, i \in LinkIds : RevokeInvitation(r, i) \/ OpenInvitation(r, i)
    \/ \E r \in Requests, p \in {"invite", "reset"} : LockClient(r, p)
    \/ \E r \in Requests :
          \/ OpenSession(r) \/ Rotate(r) \/ RotateRefused(r) \/ CommitRotation(r) \/ Logout(r)
          \/ InsertUser(r) \/ InsertUserRefused(r) \/ AcceptInvitation(r)
          \/ StartReset(r) \/ ResetRefused(r) \/ FinishReset(r)
          \/ StartDeactivation(r) \/ StartRevocation(r) \/ FinishDeactivation(r) \/ Reactivate(r)
    \/ \E n \in Names : CreateClient(n) \/ CreateInvitation(n)
    \/ \E i \in LinkIds : ExpireInvitation(i)

Spec == Init /\ [][Next]_vars

-----------------------------------------------------------------------------

\* A family of sessions has one live member: two refreshes with the same token,
\* however they interleave, do not both go through
\* (auth/session_service.py, AuthSessionService.rotate).
OneLivePerFamily ==
    \A s, t \in DOMAIN sessions :
        Live(s) /\ Live(t) /\ sessions[s].family = sessions[t].family => s = t

\* Deactivating the organization or resetting a user's access ends the families
\* of sessions it finds: a live session belongs to a family begun afterwards, or
\* to one that gained a session while the revocation was running
\* (auth/session_service.py, revoke_all_for_organization; auth/router.py,
\* _accept_access_reset).
RevocationEndsFamilies ==
    \A s \in DOMAIN sessions :
        Live(s) => sessions[s].family > mark[sessions[s].user] \/ sessions[s].family \in late

\* A link revoked before anybody opened it is never accepted
\* (organizations/invitation_service.py, consume and mark_accepted).
BarredStaysUnused == \A i \in barred : ~invitations[i].accepted

\* A link gives access once, however many requests opened it
\* (organizations/invitation_service.py, mark_accepted).
LinkUsedOnce == \A i \in DOMAIN uses : uses[i] <= 1

\* At most one reset link is open: issuing another revokes the one before, also
\* when two are asked for at once (clients/router.py, reset_client_access).
OnePendingReset == Cardinality(PendingOf("reset")) <= 1

-----------------------------------------------------------------------------
(* Why they hold.                                                           *)

Revoking(r) == pc[r] \in {"resetting", "deactivating", "revoking"}
RevokesOf(r) == IF At(r, "resetting") THEN {user[r]} ELSE Names

HoldsOrg(r) == pc[r] \in {"deactivating", "replacing", "replacingReset"}

\* A family is numbered by its first session, and no user is marked beyond the last.
FamiliesNumbered ==
    /\ \A s \in DOMAIN sessions : sessions[s].family \in 1 .. s
    /\ \A n \in Names : mark[n] <= Len(sessions)

\* A claimed session lives, and one request has claimed it; a statement that revokes
\* holds every session that was there when it began and still lives.
SessionsHeld ==
    \A r \in Requests :
        /\ pc[r] \in {"refreshing", "rotated", "loggingOut"} => target[r] \in DOMAIN sessions
        /\ pc[r] = "loggingIn" => user[r] \in Names
        /\ pc[r] = "rotated" =>
              Live(target[r]) /\ \A q \in Others(r) : pc[q] = "rotated" => target[q] # target[r]
        /\ Revoking(r) =>
              /\ seen[r] <= Len(sessions) /\ snap[r] \subseteq DOMAIN sessions
              /\ \A s \in 1 .. seen[r] :
                    Live(s) /\ sessions[s].user \in RevokesOf(r) => s \in snap[r]

\* An opened link is one that was made, for its user.  One request resets with a link,
\* which is unused; and what has been used, or barred, stays so.
LinksHeld ==
    /\ \A r \in Requests :
        /\ pc[r] \in {"opened", "created", "resetting"} =>
              target[r] \in DOMAIN invitations /\ user[r] = invitations[target[r]].name
        /\ pc[r] = "created" => invitations[target[r]].purpose = "invite"
        /\ pc[r] = "resetting" =>
              /\ invitations[target[r]].purpose = "reset" /\ ~invitations[target[r]].accepted
              /\ \A q \in Others(r) : pc[q] = "resetting" => target[q] # target[r]
    /\ Len(invitations) <= limit.links
    /\ \A i \in 1 .. limit.links :
          uses[i] # 0 => i \in DOMAIN invitations /\ invitations[i].accepted /\ uses[i] = 1
    /\ \A i \in barred :
          /\ i \in DOMAIN invitations /\ invitations[i].revoked /\ ~invitations[i].accepted
          /\ \A q \in Requests : pc[q] \in {"opened", "created", "resetting"} => target[q] # i

\* One request has locked the organization; the one that replaces the reset links has
\* read all that are open.
ClientHeld ==
    /\ \A r, q \in Requests : HoldsOrg(r) /\ HoldsOrg(q) => r = q
    /\ \A r \in Requests :
          /\ pc[r] \in {"replacing", "replacingReset"} => snap[r] \subseteq DOMAIN invitations
          /\ pc[r] = "replacingReset" => PendingOf("reset") \subseteq snap[r]
    /\ \A i, j \in PendingOf("reset") : i = j
=============================================================================
