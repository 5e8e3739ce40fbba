------------------------------ MODULE MCIdentity ------------------------------
(***************************************************************************)
(* Finite instances of the components that decide who may do what with which *)
(* plant, and of the daily collection, which signs in to the manufacturers    *)
(* with the accounts that owners connected.  None writes a table another one *)
(* decides on, so each is explored by itself: a behaviour is about one of    *)
(* them, chosen at the start.                                               *)
(***************************************************************************)
EXTENDS Naturals, FiniteSets, TLC

CONSTANTS
    Names, Requests, NoName, Limits,                            \* Access
    Attempts, MaxAttempts, Window, Lockout, LimitRetention, NoRow, MaxTime,     \* LoginRateLimit
    Orgs, Accounts, NoAccount, MaxPlants,                       \* ProviderAccounts
    Sites, MaxTries, MaxConnections, MaxAgain,                  \* SolarCollection
    Editors, Estimated, Days, MaxOvertaken, MaxLost,            \* PlantSettings
    Plants, Credentials, Calls, Nobody, NoPlant, MaxFanout      \* Tenancy

VARIABLES
    part,       \* which component this behaviour is about
    s1, s2, s3, s4, s5, s6, s7, s8, s9, s10, s11, s12, s13, s14     \* and its state

Sessions == INSTANCE Access WITH
    org <- s1, users <- s2, sessions <- s3, invitations <- s4, pc <- s5, target <- s6,
    user <- s7, snap <- s8, seen <- s9, mark <- s10, late <- s11, barred <- s12,
    uses <- s13, limit <- s14
Limiter == INSTANCE LoginRateLimit WITH
    row <- s1, step <- s2, view <- s3, clock <- s4, failures <- s5, alone <- s6,
    began <- s7, met <- s8
Provider == INSTANCE ProviderAccounts WITH
    plants <- s1, account <- s2, sealed <- s3, keys <- s4, live <- s5, at <- s6,
    plant <- s7, login <- s8, ring <- s9, owner <- s10, mixed <- s11, overlap <- s12, entry <- s13
Solar == INSTANCE SolarCollection WITH
    account <- s1, outcome <- s2, queue <- s3, stored <- s4, run <- s5, told <- s6,
    Plants <- Sites, MaxAttempts <- MaxTries
Settings == INSTANCE PlantSettings WITH
    val <- s1, origin <- s2, created <- s3, edit <- s4, lost <- s5
Scopes == INSTANCE Tenancy WITH
    orgOf <- s1, active <- s2, default <- s3, cred <- s4, req <- s5, message <- s6,
    billed <- s7, moved <- s8

ASSUME ConstantsOfParts ==
    /\ Sessions!ConstantsOK
    /\ Limiter!ConstantsOK
    /\ Provider!ConstantsOK
    /\ Solar!ConstantsOK
    /\ Settings!ConstantsOK
    /\ Scopes!ConstantsOK

\* Three sessions, or two and a link, or one and two links.
MCLimits ==
    {[sessions |-> 3, links |-> 0], [sessions |-> 2, links |-> 1], [sessions |-> 1, links |-> 2]}

\* Requests, editors, accounts, organizations and plants are only compared for equality.
Symmetry ==
    Permutations(Requests) \cup Permutations(Orgs) \cup Permutations(Editors)

InSessions == part = "access"
InLimiter == part = "login"
InProvider == part = "provider"
InSolar == part = "collection"
InSettings == part = "settings"
InScopes == part = "tenancy"

\* Each component uses the first variables; the last ones stay at 0.
MCInit ==
    \/ part = "access" /\ Sessions!Init
    \/ part = "login" /\ Limiter!Init
       /\ s9 = 0 /\ s10 = 0 /\ s11 = 0 /\ s12 = 0 /\ s13 = 0 /\ s14 = 0
    \/ part = "provider" /\ Provider!Init /\ s14 = 0
    \/ part = "collection" /\ Solar!Init
       /\ s7 = 0 /\ s8 = 0 /\ s9 = 0 /\ s10 = 0 /\ s11 = 0 /\ s12 = 0 /\ s13 = 0
       /\ s14 = 0
    \/ part = "settings" /\ Settings!Init
       /\ s6 = 0 /\ s7 = 0 /\ s8 = 0 /\ s9 = 0 /\ s10 = 0 /\ s11 = 0 /\ s12 = 0
       /\ s13 = 0 /\ s14 = 0
    \/ part = "tenancy" /\ Scopes!Init
       /\ s9 = 0 /\ s10 = 0 /\ s11 = 0 /\ s12 = 0 /\ s13 = 0 /\ s14 = 0

RestSessions == UNCHANGED <<part>>
RestLimiter == UNCHANGED <<part, s9, s10, s11, s12, s13, s14>>
RestProvider == UNCHANGED <<part, s14>>
RestSolar == UNCHANGED <<part, s7, s8, s9, s10, s11, s12, s13, s14>>
RestSettings == UNCHANGED <<part, s6, s7, s8, s9, s10, s11, s12, s13, s14>>
RestScopes == UNCHANGED <<part, s9, s10, s11, s12, s13, s14>>

MCNext ==
    \/ \E r \in Requests, n \in Names :
          \/ InSessions /\ Sessions!Login(r, n) /\ RestSessions
          \/ InSessions /\ Sessions!CreateUser(r, n) /\ RestSessions
          \/ InSessions /\ Sessions!DeactivateUser(r, n) /\ RestSessions
          \/ InSessions /\ Sessions!ReplaceLinks(r, n) /\ RestSessions
    \/ \E r \in Requests, s \in Sessions!SessionIds :
          \/ InSessions /\ Sessions!RefreshRead(r, s) /\ RestSessions
          \/ InSessions /\ Sessions!LogoutRead(r, s) /\ RestSessions
    \/ \E r \in Requests, i \in Sessions!LinkIds :
          \/ InSessions /\ Sessions!RevokeInvitation(r, i) /\ RestSessions
          \/ InSessions /\ Sessions!OpenInvitation(r, i) /\ RestSessions
    \/ \E r \in Requests, p \in {"invite", "reset"} :
          \/ InSessions /\ Sessions!LockClient(r, p) /\ RestSessions
    \/ \E r \in Requests :
          \/ InSessions /\ Sessions!OpenSession(r) /\ RestSessions
          \/ InSessions /\ Sessions!Rotate(r) /\ RestSessions
          \/ InSessions /\ Sessions!RotateRefused(r) /\ RestSessions
          \/ InSessions /\ Sessions!CommitRotation(r) /\ RestSessions
          \/ InSessions /\ Sessions!Logout(r) /\ RestSessions
          \/ InSessions /\ Sessions!InsertUser(r) /\ RestSessions
          \/ InSessions /\ Sessions!InsertUserRefused(r) /\ RestSessions
          \/ InSessions /\ Sessions!AcceptInvitation(r) /\ RestSessions
          \/ InSessions /\ Sessions!StartReset(r) /\ RestSessions
          \/ InSessions /\ Sessions!ResetRefused(r) /\ RestSessions
          \/ InSessions /\ Sessions!FinishReset(r) /\ RestSessions
          \/ InSessions /\ Sessions!StartDeactivation(r) /\ RestSessions
          \/ InSessions /\ Sessions!StartRevocation(r) /\ RestSessions
          \/ InSessions /\ Sessions!FinishDeactivation(r) /\ RestSessions
          \/ InSessions /\ Sessions!Reactivate(r) /\ RestSessions
    \/ \E n \in Names :
          \/ InSessions /\ Sessions!CreateClient(n) /\ RestSessions
          \/ InSessions /\ Sessions!CreateInvitation(n) /\ RestSessions
    \/ \E i \in Sessions!LinkIds : InSessions /\ Sessions!ExpireInvitation(i) /\ RestSessions
    \/ \E a \in Attempts :
          \/ InLimiter /\ Limiter!Begin(a) /\ RestLimiter
          \/ InLimiter /\ Limiter!ClearExpired(a) /\ RestLimiter
          \/ InLimiter /\ Limiter!Fail(a) /\ RestLimiter
          \/ InLimiter /\ Limiter!Count(a) /\ RestLimiter
          \/ InLimiter /\ Limiter!Succeed(a) /\ RestLimiter
    \/ InLimiter /\ Limiter!Purge /\ RestLimiter
    \/ InLimiter /\ Limiter!Tick /\ RestLimiter
    \/ \E r \in Requests, p \in Provider!PlantIds, a \in Accounts :
          \/ InProvider /\ Provider!PutStart(r, p, a) /\ RestProvider
    \/ \E r \in Requests, p \in Provider!PlantIds :
          \/ InProvider /\ Provider!DeleteStart(r, p) /\ RestProvider
          \/ InProvider /\ Provider!NowStart(r, p) /\ RestProvider
    \/ \E r \in Requests, o \in Orgs, a \in Accounts :
          \/ InProvider /\ Provider!ConnectStart(r, o, a) /\ RestProvider
          \/ InProvider /\ Provider!ConfirmStart(r, o, a) /\ RestProvider
    \/ \E r \in Requests :
          \/ InProvider /\ Provider!PutLookup(r) /\ RestProvider
          \/ InProvider /\ Provider!PutRefused(r) /\ RestProvider
          \/ InProvider /\ Provider!PutCommit(r) /\ RestProvider
          \/ InProvider /\ Provider!PutConflict(r) /\ RestProvider
          \/ InProvider /\ Provider!DeleteCommit(r) /\ RestProvider
          \/ InProvider /\ Provider!DeleteRefused(r) /\ RestProvider
          \/ InProvider /\ Provider!Create(r) /\ RestProvider
          \/ InProvider /\ Provider!CreateRefused(r) /\ RestProvider
          \/ InProvider /\ Provider!CreateCommit(r) /\ RestProvider
          \/ InProvider /\ Provider!CreateConflict(r) /\ RestProvider
          \/ InProvider /\ Provider!NowStore(r) /\ RestProvider
          \/ InProvider /\ Provider!NowFailed(r) /\ RestProvider
          \/ InProvider /\ Provider!NowUnavailable(r) /\ RestProvider
    \/ InProvider /\ Provider!AddKey /\ RestProvider
    \/ InProvider /\ Provider!RotateAll /\ RestProvider
    \/ \E p \in Provider!PlantIds : InProvider /\ Provider!LiveForgotten(p) /\ RestProvider
    \/ \E p \in Sites, b \in Solar!Brands : InSolar /\ Solar!Connect(p, b) /\ RestSolar
    \/ \E p \in Sites :
          \/ InSolar /\ Solar!Disconnect(p) /\ RestSolar
          \/ InSolar /\ Solar!SkipPlant(p) /\ RestSolar
          \/ InSolar /\ Solar!TakePlant(p) /\ RestSolar
          \/ InSolar /\ Solar!SignIn(p) /\ RestSolar
          \/ InSolar /\ Solar!Listed(p) /\ RestSolar
          \/ InSolar /\ Solar!SessionRefused(p) /\ RestSolar
          \/ InSolar /\ Solar!StoreDay(p) /\ RestSolar
          \/ InSolar /\ Solar!StoreFails(p) /\ RestSolar
          \/ InSolar /\ Solar!Defer(p) /\ RestSolar
          \/ InSolar /\ Solar!GiveUp(p) /\ RestSolar
          \/ InSolar /\ Solar!Daylight(p) /\ RestSolar
          \/ InSolar /\ Solar!MeterFails(p) /\ RestSolar
          \/ InSolar /\ Solar!RecordOutcome(p) /\ RestSolar
          \/ InSolar /\ Solar!OutcomeLost(p) /\ RestSolar
    \/ \E p \in Sites, e \in Solar!Errors :
          \/ InSolar /\ Solar!SignInFails(p, e) /\ RestSolar
          \/ InSolar /\ Solar!CallFails(p, e) /\ RestSolar
    \/ \E p \in Sites, b \in BOOLEAN :
          \/ InSolar /\ Solar!GotDay(p, b) /\ RestSolar
          \/ InSolar /\ Solar!MeterRead(p, b) /\ RestSolar
    \/ InSolar /\ Solar!StartRun /\ RestSolar
    \/ InSolar /\ Solar!FinishRun /\ RestSolar
    \/ InSolar /\ Solar!Killed /\ RestSolar
    \/ \E p \in Settings!Profiles : InSettings /\ Settings!CreatePlant(p) /\ RestSettings
    \/ \E p \in Settings!Profiles, given, emptied \in SUBSET Settings!Marked :
          \/ InSettings /\ Settings!ConfirmPlant(p, given, emptied \ given) /\ RestSettings
    \/ \E e \in Editors, given, emptied \in SUBSET Settings!Technical :
          \/ InSettings /\ Settings!OwnerEdits(e, given, emptied \ given) /\ RestSettings
    \/ \E e \in Editors : InSettings /\ Settings!OwnerLocates(e) /\ RestSettings
    \/ \E e \in Editors, q \in {"none"} \cup Settings!Quotes, day \in Days :
          \/ InSettings /\ Settings!OwnerQuotes(e, q, day) /\ RestSettings
    \/ \E e \in Editors, p \in Settings!Profiles :
          \/ InSettings /\ Settings!ProfileFills(e, p) /\ RestSettings
    \/ \E e \in Editors :
          \/ InSettings /\ Settings!CommitEdit(e) /\ RestSettings
          \/ InSettings /\ Settings!AbandonEdit(e) /\ RestSettings
    \/ \E p \in Plants, o \in Orgs, d \in BOOLEAN :
          \/ InScopes /\ Scopes!AddPlant(p, o, d) /\ RestScopes
    \/ \E o \in Orgs, p \in Plants \cup {NoPlant} :
          \/ InScopes /\ Scopes!SetDefault(o, p) /\ RestScopes
    \/ \E o \in Orgs :
          \/ InScopes /\ Scopes!DeactivateOrg(o) /\ RestScopes
          \/ InScopes /\ Scopes!MessageSent(o) /\ RestScopes
          \/ InScopes /\ Scopes!ChatMoves(o) /\ RestScopes
    \/ \E c \in Credentials, o \in Orgs, admin \in BOOLEAN, S \in SUBSET Plants :
          \/ InScopes /\ Scopes!CreateCredential(c, o, admin, S) /\ RestScopes
    \/ \E c \in Credentials : InScopes /\ Scopes!EndCredential(c) /\ RestScopes
    \/ \E r \in Calls :
          \/ InScopes /\ Scopes!ByStaticKey(r) /\ RestScopes
          \/ InScopes /\ Scopes!ServeInferred(r) /\ RestScopes
          \/ InScopes /\ Scopes!ServeFanout(r) /\ RestScopes
          \/ InScopes /\ Scopes!Finish(r) /\ RestScopes
    \/ \E r \in Calls, o \in Orgs, admin \in BOOLEAN :
          \/ InScopes /\ Scopes!ByBearer(r, o, admin) /\ RestScopes
    \/ \E r \in Calls, c \in Credentials : InScopes /\ Scopes!ByCredential(r, c) /\ RestScopes
    \/ \E r \in Calls, p \in Plants : InScopes /\ Scopes!ServeNamed(r, p) /\ RestScopes
    \/ InScopes /\ Scopes!MessageRead /\ RestScopes
    \/ InScopes /\ Scopes!BillRegistered /\ RestScopes
    \/ InScopes /\ Scopes!MessageFailed /\ RestScopes

vars == <<part, s1, s2, s3, s4, s5, s6, s7, s8, s9, s10, s11, s12, s13, s14>>
MCSpec == MCInit /\ [][MCNext]_vars

-----------------------------------------------------------------------------

\* Every component keeps its state within its types, and with it what its types
\* say of its bookkeeping.
TypeOK ==
    /\ InSessions => Sessions!TypeOK
    /\ InLimiter => Limiter!TypeOK
    /\ InProvider => Provider!TypeOK
    /\ InSolar => Solar!TypeOK
    /\ InSettings => Settings!TypeOK
    /\ InScopes => Scopes!TypeOK

\* However rotations, logouts, resets and deactivations interleave, a family has at
\* most one live session, and what a revocation ended has none
\* (auth/session_service.py, rotate, revoke_family; organizations/service.py,
\* deactivate; organizations/router.py, _accept_access_reset).
SessionsEnd == InSessions => Sessions!OneLivePerFamily /\ Sessions!RevocationEndsFamilies

\* A link revoked before anybody opened it is never accepted, a link gives access
\* once however many requests opened it, and at most one reset link is open although
\* two were asked for at once (organizations/invitation_service.py, consume,
\* mark_accepted; clients/router.py, reset_client_access).
LinksSpent ==
    InSessions =>
        Sessions!BarredStaysUnused /\ Sessions!LinkUsedOnce /\ Sessions!OnePendingReset

\* Failures of attempts that follow one another count each, and a lock in force is
\* lifted only by an attempt admitted before it: one that succeeds, or one that found
\* an expired lock; never by a failure that read the row before it was locked, nor by
\* the retention (auth/session_service.py, LoginRateLimitService; retention/service.py).
LoginBounded ==
    /\ [](InLimiter => Limiter!CountIsHonest)
    /\ [][InLimiter => Limiter!LockStep]_vars

\* Connecting gives an organization its first plant and never a second one, no
\* manufacturer's account is connected to two plants, whatever key each was
\* fingerprinted with, and the reading kept of a plant comes from its account; unless
\* a save or a rotation met a request with an older keyring, or the plant was being
\* read while it was being reconnected (providers/accounts.py, save, rotate_all;
\* providers/router.py, connect_first_plant, confirm_first_plant, plant_now).
AccountsAreSingle ==
    InProvider =>
        Provider!OneAccountOnePlant /\ Provider!OneFirstPlant /\ Provider!ReadingIsOfAccount

\* Once a run is through, a plant it collected has its day, or a task for it, or is
\* among the problems that fail the job, unless the manufacturer had nothing to tell;
\* and a failure written on a connection is its own, unless the plant was connected
\* anew while the run was under way (cloud_jobs.py, run_collection,
\* _write_provider_outcome; collection/job.py; providers/accounts.py, save).
OutcomesKept == InSolar => Solar!NoDayDropped /\ Solar!FailureIsOwn

\* An account that was refused or limited is not called again in the run, neither by
\* another attempt nor by the fallback, and its day waits long, unless it waited in
\* the queue already (providers/resilient.py; growatt/openapi.py, meter_totals;
\* collection/job.py, _enqueue_retry; collection/queue.py, enqueue).
RefusedLeftAlone ==
    /\ [](InSolar => Solar!RefusedWaitsLong)
    /\ [][InSolar => Solar!RefusedStep]_vars

\* However many requests about a plant overlap, a field is marked as filled by the
\* manufacturer or estimated exactly when its value is, what the owner gave goes only
\* when the owner empties it, and an expansion proposal stands whole or not at all;
\* unless that column, or its mark, was itself written over by a request that had
\* loaded the plant before it changed (plants/autofill.py; plants/service.py,
\* update_technical_configuration, update_expansion_proposal).
OwnersPrevail ==
    /\ [](InSettings => Settings!MarksAreTrue /\ Settings!ProposalIsWhole)
    /\ [][InSettings => Settings!OwnerStep]_vars

\* Whatever plants were created, made the default or listed while a request was on
\* its way, it is only served plants of the organization it was authenticated for, a
\* credential with listed plants only those, and a fan-out leaves out no plant the
\* organization had; and however often Telegram delivers a message its bill is
\* registered in one plant, unless plants, defaults or the chat's organization changed
\* meanwhile (core/tenancy.py; credentials/service.py, _validate_plant_scope;
\* telegram/bot_service.py).
ScopeIsExact ==
    InScopes =>
        Scopes!ServedWithinTenant /\ Scopes!FanoutMissesNone /\ Scopes!BillInOnePlant
=============================================================================
