--------------------------- MODULE ProviderAccounts ---------------------------
(***************************************************************************)
(* The manufacturer's account a plant is read through: connecting and        *)
(* reconnecting it, the first plant an organization gets by connecting one,  *)
(* the rotation of the keys that seal the credentials, and the reading of    *)
(* the plant "now" kept in memory.                                          *)
(*   providers/router.py, providers/accounts.py, providers/connect_ticket.py, *)
(*   core/secret_box.py, cloud_jobs.py (rotate_provider_secrets)             *)
(*                                                                          *)
(* A request asks the manufacturer first and holds no transaction meanwhile. *)
(* A keyring is the set of key versions a process knows; the newest seals    *)
(* and fingerprints, all of them open.  The fingerprint of an account under  *)
(* a key is the pair of both.  Accounts are logins: connections by token     *)
(* have a random login, which never collides.                               *)
(***************************************************************************)
EXTENDS Naturals, Sequences, FiniteSets

CONSTANTS
    Orgs,           \* organizations
    Accounts,       \* logins at the manufacturer
    NoAccount,
    Requests,       \* concurrent requests
    MaxPlants       \* bound: plants ever created

ConstantsOK == NoAccount \notin Accounts /\ MaxPlants \in Nat

VARIABLES
    plants,     \* plants as committed: the organization of each
    account,    \* provider_accounts by plant: the login of its active row, or none
    sealed,     \* the key version of its ciphertext and fingerprint (0: cleared)
    keys,       \* newest key version of the processes as deployed now
    live,       \* _LIVE_CACHE by plant: the login its reading came from, or none
    at, plant, login, ring, owner,  \* per request: where it is, what it is about
    entry,      \* per request: the login of the reading it found in memory, or none
    mixed,      \* history: a save or a rotation committed while a request with an
                \* older keyring was under way, or the other way round
    overlap     \* history, by plant: a reading was under way during a reconnection

db == <<plants, account, sealed>>
request == <<at, plant, login, ring, owner, entry>>
vars == <<db, keys, live, request, mixed, overlap>>

PlantIds == 1 .. MaxPlants
States == {"idle", "verifying", "saving", "connecting", "confirming", "creating", "removing", "asking"}

TypeOK ==
    /\ plants \in Seq(Orgs) /\ Len(plants) <= MaxPlants
    /\ account \in [PlantIds -> Accounts \cup {NoAccount}]
    /\ sealed \in [PlantIds -> 0 .. 2] /\ keys \in 1 .. 2
    /\ live \in [PlantIds -> Accounts \cup {NoAccount}]
    /\ at \in [Requests -> States] /\ plant \in [Requests -> 0 .. MaxPlants]
    /\ login \in [Requests -> Accounts \cup {NoAccount}] /\ ring \in [Requests -> 0 .. 2]
    /\ owner \in [Requests -> Orgs \cup {NoAccount}]
    /\ entry \in [Requests -> Accounts \cup {NoAccount}]
    /\ mixed \in BOOLEAN /\ overlap \in [PlantIds -> BOOLEAN]

Init ==
    /\ plants = <<>> /\ account = [p \in PlantIds |-> NoAccount]
    /\ sealed = [p \in PlantIds |-> 0] /\ keys = 1
    /\ live = [p \in PlantIds |-> NoAccount]
    /\ at = [r \in Requests |-> "idle"] /\ plant = [r \in Requests |-> 0]
    /\ login = [r \in Requests |-> NoAccount] /\ ring = [r \in Requests |-> 0]
    /\ owner = [r \in Requests |-> NoAccount] /\ entry = [r \in Requests |-> NoAccount]
    /\ mixed = FALSE /\ overlap = [p \in PlantIds |-> FALSE]

-----------------------------------------------------------------------------

Existing == 1 .. Len(plants)
PlantsOf(o) == {p \in Existing : plants[p] = o}

Enter(r, label, p, a, o) ==
    /\ at' = [at EXCEPT ![r] = label] /\ plant' = [plant EXCEPT ![r] = p]
    /\ login' = [login EXCEPT ![r] = a] /\ owner' = [owner EXCEPT ![r] = o]
    /\ ring' = [ring EXCEPT ![r] = keys]
    /\ entry' = [entry EXCEPT ![r] = IF label = "asking" THEN live[p] ELSE NoAccount]

Goto(r, label) == at' = [at EXCEPT ![r] = label] /\ UNCHANGED <<plant, login, ring, owner, entry>>

Leave(r) ==
    /\ at' = [at EXCEPT ![r] = "idle"] /\ plant' = [plant EXCEPT ![r] = 0]
    /\ login' = [login EXCEPT ![r] = NoAccount] /\ ring' = [ring EXCEPT ![r] = 0]
    /\ owner' = [owner EXCEPT ![r] = NoAccount] /\ entry' = [entry EXCEPT ![r] = NoAccount]

Refuse(r) == Leave(r) /\ UNCHANGED <<db, keys, live, mixed, overlap>>

\* fingerprint_candidates: the login under every key of the ring.
Candidates(a, k) == {<<v, a>> : v \in 1 .. k}

Fingerprint(p) == <<sealed[p], account[p]>>

\* Mutant of OwnedElsewhere: looked up under the newest key only.
OwnedUnderNewest(a, k, p) ==
    \E q \in PlantIds \ {p} : account[q] # NoAccount /\ Fingerprint(q) = <<k, a>>

\* save: another plant is connected to the account, as far as the ring can tell.
OwnedElsewhere(a, k, p) ==
    \E q \in PlantIds \ {p} : account[q] # NoAccount /\ Fingerprint(q) \in Candidates(a, k)

\* The unique key on the fingerprint.
Taken(a, k, p) == \E q \in PlantIds \ {p} : account[q] # NoAccount /\ Fingerprint(q) = <<k, a>>

Saving == {"verifying", "saving", "connecting", "confirming", "creating"}
OtherRing(r) == \E q \in Requests \ {r} : at[q] \in Saving /\ ring[q] # ring[r]

\* Mutant of ForgetLive: the reading in memory is kept.
KeepLive(p) == UNCHANGED live

ForgetLive(p) == live' = [live EXCEPT ![p] = NoAccount]

Asking(p) == \E q \in Requests : at[q] = "asking" /\ plant[q] = p
Reconnecting(p) == \E q \in Requests : at[q] \in {"verifying", "saving"} /\ plant[q] = p

-----------------------------------------------------------------------------
(* put_provider_account.                                                    *)

PutStart(r, p, a) ==
    /\ at[r] = "idle" /\ p \in Existing
    /\ ForgetLive(p) /\ overlap' = [overlap EXCEPT ![p] = Asking(p)]
    /\ Enter(r, "verifying", p, a, NoAccount)
    /\ UNCHANGED <<db, keys, mixed>>

\* The manufacturer confirmed the login, and its inverters are of no other plant.
PutLookup(r) ==
    /\ at[r] = "verifying" /\ ~OwnedElsewhere(login[r], ring[r], plant[r])
    /\ Goto(r, "saving") /\ UNCHANGED <<db, keys, live, mixed, overlap>>

\* Too many attempts, a wrong password, an inverter of another plant, an owner.
PutRefused(r) == at[r] = "verifying" /\ Refuse(r)

\* The row is locked and written, and everything commits.
PutCommit(r) ==
    /\ at[r] = "saving" /\ ~Taken(login[r], ring[r], plant[r])
    /\ account' = [account EXCEPT ![plant[r]] = login[r]]
    /\ sealed' = [sealed EXCEPT ![plant[r]] = ring[r]]
    /\ mixed' = (mixed \/ OtherRing(r))
    /\ Leave(r) /\ UNCHANGED <<plants, keys, live, overlap>>

PutConflict(r) == at[r] = "saving" /\ Taken(login[r], ring[r], plant[r]) /\ Refuse(r)

\* delete_provider_account.
DeleteStart(r, p) ==
    /\ at[r] = "idle" /\ p \in Existing
    /\ ForgetLive(p) /\ Enter(r, "removing", p, NoAccount, NoAccount)
    /\ UNCHANGED <<db, keys, mixed, overlap>>

DeleteCommit(r) ==
    /\ at[r] = "removing" /\ account[plant[r]] # NoAccount
    /\ account' = [account EXCEPT ![plant[r]] = NoAccount]
    /\ sealed' = [sealed EXCEPT ![plant[r]] = 0]
    /\ Leave(r) /\ UNCHANGED <<plants, keys, live, mixed, overlap>>

DeleteRefused(r) == at[r] = "removing" /\ account[plant[r]] = NoAccount /\ Refuse(r)

-----------------------------------------------------------------------------
(* The first plant: connect_first_plant, or a preview and its confirmation.  *)

ConnectStart(r, o, a) ==
    /\ at[r] = "idle" /\ PlantsOf(o) = {}
    /\ Enter(r, "connecting", 0, a, o) /\ UNCHANGED <<db, keys, live, mixed, overlap>>

\* preview_first_plant saves nothing: its ticket carries the draft, for a while, and
\* is not used up.  confirm_first_plant opens one of the organization.
ConfirmStart(r, o, a) ==
    /\ at[r] = "idle" /\ Enter(r, "confirming", 0, a, o)
    /\ UNCHANGED <<db, keys, live, mixed, overlap>>

OrgLocked(o) == \E q \in Requests : at[q] = "creating" /\ owner[q] = o

\* Mutant of Create: the plants are not read again under the lock.
CreateBlindly(r) ==
    /\ at[r] \in {"connecting", "confirming"} /\ ~OrgLocked(owner[r])
    /\ Len(plants) < MaxPlants /\ ~OwnedElsewhere(login[r], ring[r], 0)
    /\ Goto(r, "creating") /\ UNCHANGED <<db, keys, live, mixed, overlap>>

\* Both lock the organization, look for a plant again, insert one and look for
\* the owner of the account ...
Create(r) ==
    /\ at[r] \in {"connecting", "confirming"} /\ ~OrgLocked(owner[r])
    /\ PlantsOf(owner[r]) = {} /\ Len(plants) < MaxPlants
    /\ ~OwnedElsewhere(login[r], ring[r], 0)
    /\ Goto(r, "creating") /\ UNCHANGED <<db, keys, live, mixed, overlap>>

CreateRefused(r) == at[r] \in {"connecting", "confirming"} /\ Refuse(r)

\* ... and commit the plant with its connection, or neither.
CreateCommit(r) ==
    /\ at[r] = "creating" /\ Len(plants) < MaxPlants /\ ~Taken(login[r], ring[r], 0)
    /\ LET p == Len(plants) + 1 IN
       /\ plants' = Append(plants, owner[r])
       /\ account' = [account EXCEPT ![p] = login[r]]
       /\ sealed' = [sealed EXCEPT ![p] = ring[r]]
    /\ mixed' = (mixed \/ OtherRing(r))
    /\ Leave(r) /\ UNCHANGED <<keys, live, overlap>>

CreateConflict(r) == at[r] = "creating" /\ Taken(login[r], ring[r], 0) /\ Refuse(r)

-----------------------------------------------------------------------------
(* Keys.                                                                    *)

\* A release with a newer key: requests under way keep the ring they began with.
AddKey ==
    /\ keys = 1 /\ keys' = 2
    /\ UNCHANGED <<db, live, request, mixed, overlap>>

\* rotate_all: every active row is sealed and fingerprinted with the newest key,
\* or, when two of them would collide, none.
RotateAll ==
    /\ keys = 2 /\ \E p \in PlantIds : account[p] # NoAccount /\ sealed[p] # keys
    /\ \A p, q \in PlantIds : account[p] = account[q] /\ account[p] # NoAccount => p = q
    /\ sealed' = [p \in PlantIds |-> IF account[p] = NoAccount THEN sealed[p] ELSE keys]
    /\ mixed' = (mixed \/ \E q \in Requests : at[q] \in Saving /\ ring[q] # keys)
    /\ UNCHANGED <<plants, account, keys, live, request, overlap>>

-----------------------------------------------------------------------------
(* plant_now.                                                               *)

\* Nothing fresh in memory: the credentials are opened, the manufacturer asked.
NowStart(r, p) ==
    /\ at[r] = "idle" /\ p \in Existing /\ account[p] # NoAccount
    /\ Enter(r, "asking", p, account[p], NoAccount)
    /\ overlap' = [overlap EXCEPT ![p] = @ \/ Reconnecting(p)]
    /\ UNCHANGED <<db, keys, live, mixed>>

NowStore(r) ==
    /\ at[r] = "asking" /\ live' = [live EXCEPT ![plant[r]] = login[r]]
    /\ Leave(r) /\ UNCHANGED <<db, keys, mixed, overlap>>

\* The manufacturer failed: the reading found in memory at the start, or none, is
\* put back over whatever was kept or forgotten meanwhile.
NowFailed(r) ==
    /\ at[r] = "asking" /\ live' = [live EXCEPT ![plant[r]] = entry[r]]
    /\ Leave(r) /\ UNCHANGED <<db, keys, mixed, overlap>>

\* It tells nothing of the plant's inverters, or the process dies.
NowUnavailable(r) == at[r] = "asking" /\ Refuse(r)

\* A day later, or when a disconnected plant is opened.
LiveForgotten(p) ==
    /\ live[p] # NoAccount /\ ForgetLive(p)
    /\ UNCHANGED <<db, keys, request, mixed, overlap>>

-----------------------------------------------------------------------------

Next ==
    \/ \E r \in Requests, p \in PlantIds, a \in Accounts : PutStart(r, p, a)
    \/ \E r \in Requests, p \in PlantIds : DeleteStart(r, p) \/ NowStart(r, p)
    \/ \E r \in Requests, o \in Orgs, a \in Accounts : ConnectStart(r, o, a) \/ ConfirmStart(r, o, a)
    \/ \E r \in Requests :
          \/ PutLookup(r) \/ PutRefused(r) \/ PutCommit(r) \/ PutConflict(r)
          \/ DeleteCommit(r) \/ DeleteRefused(r)
          \/ Create(r) \/ CreateRefused(r) \/ CreateCommit(r) \/ CreateConflict(r)
          \/ NowStore(r) \/ NowFailed(r) \/ NowUnavailable(r)
    \/ AddKey \/ RotateAll
    \/ \E p \in PlantIds : LiveForgotten(p)

Spec == Init /\ [][Next]_vars

-----------------------------------------------------------------------------

\* No manufacturer's account is connected to two plants, whatever key each
\* connection was fingerprinted with, unless a save or a rotation met a request
\* that still worked with an older keyring (providers/accounts.py, save,
\* rotate_all).
OneAccountOnePlant ==
    ~mixed => \A p, q \in PlantIds : account[p] = account[q] /\ account[p] # NoAccount => p = q

\* Connecting gives an organization its first plant and never a second one,
\* although the plants are first looked for before the manufacturer is asked
\* (providers/router.py, connect_first_plant, confirm_first_plant).
OneFirstPlant == \A o \in Orgs : Cardinality(PlantsOf(o)) <= 1

\* The reading kept of a connected plant comes from the account it is connected
\* to, unless the plant was being read while it was being reconnected
\* (providers/router.py, _forget_live, plant_now).
ReadingIsOfAccount ==
    \A p \in PlantIds :
        account[p] # NoAccount /\ live[p] # NoAccount /\ live[p] # account[p] => overlap[p]

-----------------------------------------------------------------------------
(* Why they hold.                                                           *)

\* No two plants belong to one organization, and one that is being created holds its
\* organization, which has none.
FirstPlants ==
    /\ \A p, q \in Existing : plants[p] = plants[q] => p = q
    /\ \A r \in Requests :
        /\ at[r] \in {"connecting", "confirming", "creating"} => owner[r] \in Orgs /\ plant[r] = 0
        /\ at[r] = "creating" =>
              /\ PlantsOf(owner[r]) = {}
              /\ \A q \in Requests \ {r} : at[q] = "creating" => owner[q] # owner[r]

\* Until rings mix, the ring of a request that saves opens every connection; and once
\* the owner of the account was looked up, another plant can only get the account
\* under the key the request itself will use, which the unique key sees.
RingsAgree ==
    /\ \A p \in PlantIds : account[p] # NoAccount => sealed[p] \in 1 .. keys
    /\ \A r \in Requests :
        at[r] \in Saving => ring[r] \in 1 .. keys /\ login[r] \in Accounts
    /\ ~mixed =>
        /\ \A p, q \in PlantIds : account[p] = account[q] /\ account[p] # NoAccount => p = q
        /\ \A r \in Requests, q \in PlantIds :
              at[r] \in Saving /\ account[q] # NoAccount => sealed[q] <= ring[r]
        /\ \A r \in Requests, q \in PlantIds :
              at[r] \in {"saving", "creating"} /\ q # plant[r] /\ account[q] = login[r]
                => sealed[q] = ring[r]

\* The plant is connected to another account than a request reads, or found read.
Foreign(r) ==
    /\ account[plant[r]] # NoAccount
    /\ account[plant[r]] # login[r] \/ entry[r] \notin {NoAccount, account[plant[r]]}

\* A reading from another account than the plant's, kept, still to come or to be put
\* back, is one that overlapped, and so is every reading while the plant is being reconnected.
ReadingsKnown ==
    /\ \A r \in Requests :
        at[r] \in {"verifying", "saving", "removing", "asking"} => plant[r] \in Existing
    /\ \A p \in PlantIds \ Existing : live[p] = NoAccount
    /\ \A r \in Requests :
        at[r] = "asking" /\ Foreign(r) => overlap[plant[r]]
    /\ \A p \in PlantIds : Reconnecting(p) /\ (Asking(p) \/ live[p] # NoAccount) => overlap[p]
    /\ ReadingIsOfAccount
=============================================================================
