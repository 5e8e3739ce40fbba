-------------------------------- MODULE Tenancy --------------------------------
(***************************************************************************)
(* Whose plants a caller reaches: the principal a static key, a credential   *)
(* or an access token stands for, its plant scope, the plant a route serves  *)
(* when none is named, and the bills sent through the Telegram chat of an    *)
(* organization.                                                            *)
(*   core/security.py, core/principal.py, core/authorization.py,             *)
(*   core/tenancy.py, core/jwt.py, credentials/, organizations/service.py,   *)
(*   telegram/                                                              *)
(*                                                                          *)
(* The scope is read when the caller is authenticated; the plants are read   *)
(* again when the request is served, in another transaction.  A request and a *)
(* message read the same tables and write none of them, but for the bill: one *)
(* or the other is explored at a time.                                      *)
(***************************************************************************)
EXTENDS Naturals, FiniteSets

CONSTANTS
    Orgs, Plants, Credentials, Calls,
    Nobody,         \* no organization: the platform
    NoPlant,
    MaxFanout       \* fanout_max_plants

ConstantsOK ==
    Nobody \notin Orgs /\ NoPlant \notin Plants /\ IsFiniteSet(Plants) /\ MaxFanout \in Nat \ {0}

VARIABLES
    orgOf,      \* organization of each plant, Nobody before it is created
    active,     \* organizations.active
    default,    \* organizations.default_plant_id
    cred,       \* api_credentials: organization, role, plants (all: none listed), usable
    req,        \* per request: what it was authenticated as, and what it was served
    message,    \* the Telegram message: where its processing is, and for whom
    billed,     \* plants in which its bill was registered
    moved       \* history: a plant or a default changed since the message arrived

tables == <<orgOf, active, default, cred>>
vars == <<tables, req, message, billed, moved>>

Callers == Orgs \cup {Nobody}
Principals == [org : Callers, admin : BOOLEAN, all : BOOLEAN, plants : SUBSET Plants]
NoPrincipal == [org |-> Nobody, admin |-> FALSE, all |-> FALSE, plants |-> {}]

TypeOK ==
    /\ orgOf \in [Plants -> Callers] /\ active \in [Orgs -> BOOLEAN]
    /\ default \in [Orgs -> Plants \cup {NoPlant}]
    /\ cred \in [Credentials -> [org : Callers, admin : BOOLEAN, listed : BOOLEAN,
                                 plants : SUBSET Plants, usable : BOOLEAN]]
    /\ req \in [Calls -> [at : {"idle", "known", "one", "fanout"}, who : Principals,
                             by : Credentials \cup {Nobody}, served : SUBSET Plants]]
    /\ message \in [at : {"none", "sent", "read", "registered"}, org : Callers, chat : Callers]
    /\ billed \subseteq Plants /\ moved \in BOOLEAN

Idle == [at |-> "idle", who |-> NoPrincipal, by |-> Nobody, served |-> {}]

Init ==
    /\ orgOf = [p \in Plants |-> Nobody] /\ active = [o \in Orgs |-> TRUE]
    /\ default = [o \in Orgs |-> NoPlant]
    /\ cred = [c \in Credentials |-> [org |-> Nobody, admin |-> FALSE, listed |-> FALSE,
                                      plants |-> {}, usable |-> FALSE]]
    /\ req = [r \in Calls |-> Idle]
    /\ message = [at |-> "none", org |-> Nobody, chat |-> Nobody]
    /\ billed = {} /\ moved = FALSE

PlantsOf(o) == {p \in Plants : orgOf[p] = o}
Existing == {p \in Plants : orgOf[p] # Nobody}
Under == message.at # "none"

-----------------------------------------------------------------------------
(* The tables the scopes are read from.                                     *)

\* A plant of the collector, or the first one of an organization, which by
\* connecting becomes the default when there is none.
AddPlant(p, o, d) ==
    /\ orgOf[p] = Nobody /\ orgOf' = [orgOf EXCEPT ![p] = o]
    /\ d => PlantsOf(o) = {} /\ default[o] = NoPlant
    /\ default' = IF d THEN [default EXCEPT ![o] = p] ELSE default
    /\ moved' = Under /\ UNCHANGED <<active, cred, req, message, billed>>

\* OrganizationService.update: a plant of another organization is refused.
SetDefault(o, p) ==
    /\ p \in PlantsOf(o) \cup {NoPlant} /\ default[o] # p
    /\ default' = [default EXCEPT ![o] = p] /\ moved' = Under
    /\ UNCHANGED <<orgOf, active, cred, req, message, billed>>

DeactivateOrg(o) ==
    /\ active[o] /\ active' = [active EXCEPT ![o] = FALSE]
    /\ UNCHANGED <<orgOf, default, cred, req, message, billed, moved>>

\* Mutant of ScopeIsValid: the plants are not looked up in the organization.
ScopeNotChecked(o, S) == S \subseteq Existing

\* _validate_plant_scope.
ScopeIsValid(o, S) == S \subseteq PlantsOf(o)

\* CredentialService.create: a listed scope is not empty and reads only.
CreateCredential(c, o, admin, S) ==
    /\ ~cred[c].usable /\ cred[c].org = Nobody
    /\ S # {} => ~admin /\ ScopeIsValid(o, S)
    /\ cred' = [cred EXCEPT ![c] = [org |-> o, admin |-> admin, listed |-> S # {},
                                    plants |-> S, usable |-> TRUE]]
    /\ UNCHANGED <<orgOf, active, default, req, message, billed, moved>>

\* Revoked, expired, or its user deactivated.
EndCredential(c) ==
    /\ cred[c].usable /\ cred' = [cred EXCEPT ![c].usable = FALSE]
    /\ UNCHANGED <<orgOf, active, default, req, message, billed, moved>>

-----------------------------------------------------------------------------
(* Authentication.                                                          *)

Known(r, who, c) ==
    /\ req[r].at = "idle" /\ ~Under
    /\ req' = [req EXCEPT ![r] = [at |-> "known", who |-> who, by |-> c, served |-> {}]]
    /\ UNCHANGED <<tables, message, billed, moved>>

ByStaticKey(r) ==
    Known(r, [org |-> Nobody, admin |-> TRUE, all |-> TRUE, plants |-> {}], Nobody)

\* decode_token: the token says the organization and the role; nobody asks whether
\* the organization or the user is still active before it expires.
ByBearer(r, o, admin) ==
    Known(r, [org |-> o, admin |-> admin, all |-> FALSE, plants |-> PlantsOf(o)], Nobody)

\* CredentialService.resolve.
ByCredential(r, c) ==
    /\ cred[c].usable /\ active[cred[c].org]
    /\ Known(r, [org |-> cred[c].org, admin |-> cred[c].admin, all |-> FALSE,
                 plants |-> IF cred[c].listed THEN cred[c].plants ELSE PlantsOf(cred[c].org)], c)

-----------------------------------------------------------------------------
(* Serving.                                                                 *)

Allows(who, p) == who.all \/ p \in who.plants

\* Mutant of Inferred: any plant will do.
InferredAny(o) == IF o = Nobody THEN Existing ELSE PlantsOf(o)

\* _infer_single_plant_for_organization: the default, or the only plant there is.
Inferred(o) ==
    LET all == IF o = Nobody THEN Existing ELSE PlantsOf(o)
    IN  IF o # Nobody /\ default[o] \in PlantsOf(o) THEN {default[o]}
        ELSE IF Cardinality(all) = 1 THEN all ELSE {}

Serve(r, how, S) ==
    /\ req[r].at = "known"
    /\ req' = [req EXCEPT ![r].at = how, ![r].served = S]
    /\ UNCHANGED <<tables, message, billed, moved>>

\* resolve_read_plant, and an admin route with a plant: any id may be asked for.
ServeNamed(r, p) == Allows(req[r].who, p) /\ Serve(r, "one", {p})

\* resolve_admin_plant_scope without a plant.
ServeInferred(r) ==
    /\ req[r].who.admin
    /\ \E p \in Inferred(req[r].who.org) : Allows(req[r].who, p) /\ Serve(r, "one", {p})

\* Mutant of FanoutOf: too many plants are cut down to as many as fit.
FanoutCut(who) ==
    LET S == {p \in PlantsOf(who.org) : Allows(who, p)}
    IN  {T \in SUBSET S : T # {} /\ (T = S \/ Cardinality(T) = MaxFanout)}

\* resolve_admin_plant_fanout: all the plants of the organization, or an error.
FanoutOf(who) ==
    LET S == {p \in PlantsOf(who.org) : Allows(who, p)}
    IN  {T \in {S} : T # {} /\ Cardinality(T) <= MaxFanout}

ServeFanout(r) ==
    /\ req[r].who.admin /\ req[r].who.org # Nobody
    /\ \E T \in FanoutOf(req[r].who) : Serve(r, "fanout", T)

\* The answer is sent, or the request was refused.
Finish(r) ==
    /\ req[r].at # "idle" /\ req' = [req EXCEPT ![r] = Idle]
    /\ UNCHANGED <<tables, message, billed, moved>>

-----------------------------------------------------------------------------
(* Telegram.                                                                *)

\* A bill is sent in the chat linked to an organization.
MessageSent(o) ==
    /\ message.at = "none" /\ message' = [at |-> "sent", org |-> Nobody, chat |-> o]
    /\ \A r \in Calls : req[r].at = "idle"
    /\ UNCHANGED <<tables, req, billed, moved>>

\* The webhook resolves the organization; the file is fetched and read next.
MessageRead ==
    /\ message.at = "sent" /\ message' = [message EXCEPT !.at = "read", !.org = message.chat]
    /\ UNCHANGED <<tables, req, billed, moved>>

\* register_pending_bill, in a transaction of its own.
BillRegistered ==
    /\ message.at = "read" /\ message' = [message EXCEPT !.at = "registered"]
    /\ \E p \in Inferred(message.org) : billed' = billed \cup {p}
    /\ UNCHANGED <<tables, req, moved>>

\* The document cannot be read, or no plant is inferred.  The chat is not told;
\* Telegram delivers the update again, or gives up.
MessageFailed ==
    /\ message.at \in {"read", "registered"}
    /\ message' = [message EXCEPT !.at = "sent", !.org = Nobody]
    /\ UNCHANGED <<tables, req, billed, moved>>

\* The chat moves to another organization.
ChatMoves(o) ==
    /\ message.at # "none" /\ message.chat # o /\ message' = [message EXCEPT !.chat = o]
    /\ moved' = TRUE /\ UNCHANGED <<tables, req, billed>>

-----------------------------------------------------------------------------

Next ==
    \/ \E p \in Plants, o \in Orgs, d \in BOOLEAN : AddPlant(p, o, d)
    \/ \E o \in Orgs, p \in Plants \cup {NoPlant} : SetDefault(o, p)
    \/ \E o \in Orgs : DeactivateOrg(o) \/ MessageSent(o) \/ ChatMoves(o)
    \/ \E c \in Credentials, o \in Orgs, admin \in BOOLEAN, S \in SUBSET Plants :
          CreateCredential(c, o, admin, S)
    \/ \E c \in Credentials : EndCredential(c)
    \/ \E r \in Calls : ByStaticKey(r) \/ ServeInferred(r) \/ ServeFanout(r) \/ Finish(r)
    \/ \E r \in Calls, o \in Orgs, admin \in BOOLEAN : ByBearer(r, o, admin)
    \/ \E r \in Calls, c \in Credentials : ByCredential(r, c)
    \/ \E r \in Calls, p \in Plants : ServeNamed(r, p)
    \/ MessageRead \/ BillRegistered \/ MessageFailed

Spec == Init /\ [][Next]_vars

-----------------------------------------------------------------------------

\* Whatever plants were created, made the default or listed while a request was
\* on its way, it is only served plants of the organization it was authenticated
\* for, and a credential with listed plants only those (core/tenancy.py,
\* credentials/service.py, _validate_plant_scope).
ServedWithinTenant ==
    \A r \in Calls :
        /\ req[r].who.org # Nobody => req[r].served \subseteq PlantsOf(req[r].who.org)
        /\ req[r].by # Nobody /\ cred[req[r].by].listed => req[r].served \subseteq cred[req[r].by].plants

\* A fan-out leaves out no plant the organization had when the caller was
\* authenticated (core/tenancy.py, resolve_admin_plant_fanout).
FanoutMissesNone ==
    \A r \in Calls : req[r].at = "fanout" => req[r].who.plants \subseteq req[r].served

\* However often Telegram delivers a message, its bill is registered in one plant,
\* unless plants, defaults or the chat's organization changed meanwhile
\* (telegram/router.py, telegram/bot_service.py).
BillInOnePlant == ~moved => Cardinality(billed) <= 1

-----------------------------------------------------------------------------
(* Why they hold.                                                           *)

\* A credential that was created belongs to an organization, and what it lists was
\* that organization's.
Issued(c) ==
    /\ cred[c].usable => cred[c].org # Nobody
    /\ cred[c].org # Nobody => cred[c].plants \subseteq PlantsOf(cred[c].org)

\* What a request was authenticated for still is its organization's, as plants never
\* move, and no more than its credential lists.
Scoped(r) ==
    LET who == req[r].who
        by == req[r].by
    IN  /\ who.org # Nobody => ~who.all /\ who.plants \subseteq PlantsOf(who.org)
        /\ by # Nobody =>
              /\ cred[by].org # Nobody /\ ~who.all
              /\ cred[by].listed => who.plants \subseteq cred[by].plants

\* Until something moved, every delivery of the message infers the plant the first
\* one inferred.
BilledWhereInferred ==
    /\ ~Under => billed = {}
    /\ Under => message.chat \in Orgs
    /\ ~moved => billed \subseteq Inferred(message.chat)
    /\ ~moved /\ message.at \in {"read", "registered"} => message.org = message.chat

ScopesHold ==
    /\ \A c \in Credentials : Issued(c)
    /\ \A r \in Calls : Scoped(r)
    /\ BilledWhereInferred
=============================================================================
