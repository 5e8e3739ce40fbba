----------------------------- MODULE PlantSettings -----------------------------
(***************************************************************************)
(* What is known of a plant and who said it: the owner's edits, what the     *)
(* manufacturer's profile fills in when the plant is connected or read       *)
(* again, and the marks that tell both apart (plants.auto_filled).          *)
(*   plants/service.py, plants/autofill.py, plants/router.py, and            *)
(*   refresh_plant_profile and confirm_first_plant of providers/router.py    *)
(*                                                                          *)
(* A value stands for who gave it.  A request loads the row without a lock   *)
(* and its UPDATE writes the columns it changed, and only those; the marks   *)
(* are one JSON column.                                                     *)
(***************************************************************************)
EXTENDS Naturals, FiniteSets

CONSTANTS
    Editors,        \* concurrent requests about the plant
    Estimated,      \* fields estimated from the location: tilt, azimuth, module
    Days,           \* on which a proposal is recorded
    MaxOvertaken,   \* bound: commits of others while a request is under way
    MaxLost         \* bound: columns lost when a request begins

VARIABLES
    val,        \* the columns of the plant, as committed
    origin,       \* plants.auto_filled: the origin of every field it names
    created,    \* the plant was inserted
    edit,       \* per request: the row it loaded and the row it is to leave
    lost        \* history: columns another request had changed, or marked, since
                \* the one that wrote over the column or the mark loaded the row

vars == <<val, origin, created, edit, lost>>

\* The estimated fields are none of the others.
ConstantsOK ==
    /\ Estimated \cap {"capacity", "location", "amount", "recorded"} = {}
    /\ MaxOvertaken \in Nat /\ MaxLost \in Nat
    /\ Days \cap {"none", "brand", "estimate", "owner", "reowner"} = {}

Technical == {"capacity"} \cup Estimated
Marked == {"location"} \cup Technical
Proposal == {"amount", "recorded"}                  \* the inverter goes with the amount
Columns == Marked \cup Proposal
Owned == {"owner", "reowner"}                       \* two values the owner may give
Quotes == {"quote", "requote"}                      \* two amounts
Values == {"none", "brand", "estimate"} \cup Owned \cup Quotes \cup Days
Rows == [val : [Columns -> Values], origin : [Marked -> {"none", "brand", "estimate"}]]
Edits == [kind : {"none", "owner", "fill", "quote"}, old : Rows, new : Rows, overtaken : Nat]

Blank == [val |-> [c \in Columns |-> "none"], origin |-> [f \in Marked |-> "none"]]
Idle == [kind |-> "none", old |-> Blank, new |-> Blank, overtaken |-> 0]

TypeOK ==
    /\ val \in [Columns -> Values] /\ origin \in [Marked -> {"none", "brand", "estimate"}]
    /\ created \in BOOLEAN /\ lost \subseteq Columns
    /\ edit \in [Editors -> Edits]

Init ==
    /\ val = Blank.val /\ origin = Blank.origin /\ created = FALSE
    /\ edit = [e \in Editors |-> Idle] /\ lost = {}

-----------------------------------------------------------------------------

\* What the manufacturer tells of a plant: its power or not, its location from
\* the app, guessed from the city (locate_profile) or not at all.
Profiles == [capacity : {"none", "brand"}, location : {"none", "brand", "estimate"}]

\* Mutant of Filled: a location of the manufacturer is taken over the owner's.
FilledOver(v, p) ==
    LET place == IF p.location # "none" THEN p.location ELSE v["location"]
    IN  [c \in Columns |->
            IF c = "location" THEN place
            ELSE IF v[c] # "none" THEN v[c]
            ELSE IF c = "capacity" THEN p.capacity
            ELSE IF c \in Estimated /\ place # "none" THEN "estimate" ELSE "none"]

\* fill_plant_from_profile: empty fields only; the estimates need a location.
Filled(v, p) ==
    LET place == IF v["location"] = "none" THEN p.location ELSE v["location"]
    IN  [c \in Columns |->
            IF v[c] # "none" THEN v[c]
            ELSE IF c = "capacity" THEN p.capacity
            ELSE IF c = "location" THEN place
            ELSE IF c \in Estimated /\ place # "none" THEN "estimate" ELSE "none"]

FillRow(row, p) ==
    LET w == Filled(row.val, p)
    IN  [val |-> w, origin |-> [f \in Marked |-> IF w[f] # row.val[f] THEN w[f] ELSE row.origin[f]]]

\* Mutant of Forget: edited fields are marked as the owner's.
ForgetAsOwner(m, fields) == [f \in Marked |-> IF f \in fields THEN "owner" ELSE m[f]]

\* forget_auto_filled.
Forget(m, fields) == [f \in Marked |-> IF f \in fields THEN "none" ELSE m[f]]

\* update_technical_configuration and update_location: the owner gives some
\* fields another value, and empties some.
OwnerRow(row, given, emptied) ==
    [val |-> [c \in Columns |-> IF c \in given
                                THEN IF row.val[c] = "owner" THEN "reowner" ELSE "owner"
                                ELSE IF c \in emptied THEN "none" ELSE row.val[c]],
     origin |-> Forget(row.origin, given \cup emptied)]

\* update_expansion_proposal: the amount and the inverter, and the day they were
\* recorded, which may be the day of the proposal before; or all withdrawn.
QuoteRow(row, q, day) ==
    [row EXCEPT !.val = [c \in Columns |->
        IF c = "amount" THEN q
        ELSE IF c = "recorded" THEN IF q = "none" THEN "none" ELSE day
        ELSE row.val[c]]]

Now == [val |-> val, origin |-> origin]

\* A request loads the row and works out what it will leave.
Begin(e, k, row) ==
    /\ created /\ edit[e].kind = "none" /\ Cardinality(lost) <= MaxLost
    /\ \A o \in Editors : edit[o].kind # "none" => edit[o].overtaken < MaxOvertaken
    /\ edit' = [edit EXCEPT ![e] = [kind |-> k, old |-> Now, new |-> row, overtaken |-> 0]]
    /\ UNCHANGED <<val, origin, created, lost>>

-----------------------------------------------------------------------------

\* The plant is created empty, or by connecting: filled from the profile at once.
CreatePlant(p) ==
    /\ ~created /\ created' = TRUE
    /\ LET row == FillRow(Blank, p) IN val' = row.val /\ origin' = row.origin
    /\ UNCHANGED <<edit, lost>>

\* confirm_first_plant: what the owner changed in the draft is the owner's.
ConfirmPlant(p, given, emptied) ==
    /\ ~created /\ created' = TRUE
    /\ LET row == OwnerRow(FillRow(Blank, p), given, emptied) IN val' = row.val /\ origin' = row.origin
    /\ UNCHANGED <<edit, lost>>

\* PATCH technical-configuration gives and empties fields ...
OwnerEdits(e, given, emptied) ==
    given \cup emptied # {} /\ Begin(e, "owner", OwnerRow(Now, given, emptied))

\* ... PATCH location only gives it.
OwnerLocates(e) == Begin(e, "owner", OwnerRow(Now, {"location"}, {}))

\* PATCH expansion-proposal.
OwnerQuotes(e, q, day) == Begin(e, "quote", QuoteRow(Now, q, day))

\* put_provider_account and refresh_plant_profile fill the empty fields, after
\* the manufacturer was asked outside of any transaction.
ProfileFills(e, p) == Begin(e, "fill", FillRow(Now, p))

\* The columns another request changed since e loaded the row, and e writes; and
\* those whose mark it changed, when e writes the marks.
WrittenOver(e) ==
    LET old == edit[e].old
        new == edit[e].new
    IN  {c \in Columns :
            \/ val[c] # old.val[c] /\ new.val[c] # old.val[c]
            \/ c \in Marked /\ origin[c] # old.origin[c] /\ new.origin # old.origin}

Others(e) ==
    [o \in Editors |->
        IF o = e THEN Idle
        ELSE IF edit[o].kind = "none" THEN edit[o]
        ELSE [edit[o] EXCEPT !.overtaken = edit[o].overtaken + 1]]

\* Mutant of CommitEdit: the UPDATE writes every column as it was worked out.
CommitWholeRow(e) ==
    /\ edit[e].kind # "none"
    /\ val' = edit[e].new.val /\ origin' = edit[e].new.origin
    /\ lost' = lost \cup WrittenOver(e)
    /\ edit' = Others(e)
    /\ UNCHANGED created

\* The UPDATE writes the columns that differ from what was loaded, and commits.
CommitEdit(e) ==
    /\ edit[e].kind # "none"
    /\ LET old == edit[e].old
           new == edit[e].new
       IN  /\ val' = [c \in Columns |-> IF new.val[c] # old.val[c] THEN new.val[c] ELSE val[c]]
           /\ origin' = IF new.origin # old.origin THEN new.origin ELSE origin
    /\ lost' = lost \cup WrittenOver(e)
    /\ edit' = Others(e)
    /\ UNCHANGED created

\* An unknown device, or a request that dies: nothing is written.
AbandonEdit(e) ==
    /\ edit[e].kind # "none" /\ edit' = [edit EXCEPT ![e] = Idle]
    /\ UNCHANGED <<val, origin, created, lost>>

Next ==
    \/ \E p \in Profiles : CreatePlant(p)
    \/ \E p \in Profiles, given, emptied \in SUBSET Marked : ConfirmPlant(p, given, emptied \ given)
    \/ \E e \in Editors, given, emptied \in SUBSET Technical : OwnerEdits(e, given, emptied \ given)
    \/ \E e \in Editors : OwnerLocates(e)
    \/ \E e \in Editors, q \in {"none"} \cup Quotes, day \in Days : OwnerQuotes(e, q, day)
    \/ \E e \in Editors, p \in Profiles : ProfileFills(e, p)
    \/ \E e \in Editors : CommitEdit(e) \/ AbandonEdit(e)

Spec == Init /\ [][Next]_vars

-----------------------------------------------------------------------------

\* A field is marked as filled by the manufacturer or estimated exactly when its
\* value is, however many fills and edits overlapped, unless its own value or mark
\* was written over by a request that had not seen it change (plants/autofill.py,
\* fill_plant_from_profile, forget_auto_filled).
MarksAreTrue ==
    \A f \in Marked \ lost :
        origin[f] = IF val[f] \in {"brand", "estimate"} THEN val[f] ELSE "none"

\* What the owner gave goes only when the owner empties it, or when a fill that
\* found the field empty, before the owner gave it, is committed after
\* (plants/autofill.py).
OwnerStep ==
    \A f \in Marked : val[f] \in Owned /\ val'[f] \notin Owned =>
        \/ f \in lost'
        \/ \E e \in Editors : /\ edit[e].kind = "owner" /\ edit'[e].kind = "none"
                             /\ edit[e].new.val[f] = "none"
OwnerValueKept == [][OwnerStep]_vars

\* An expansion proposal has its amount, inverter and day, or none of them, unless
\* one was written over by a request that had not seen it change: withdrawn under a
\* new amount of the same day, it keeps the amount (plants/service.py,
\* update_expansion_proposal).
ProposalIsWhole ==
    Proposal \cap lost = {} => \A c, d \in Proposal : val[c] = "none" => val[d] = "none"

-----------------------------------------------------------------------------
(* Why they hold.                                                           *)

\* The mark of a field agrees with its value in a row.
Agrees(row, f) ==
    row.origin[f] = IF row.val[f] \in {"brand", "estimate"} THEN row.val[f] ELSE "none"

Whole(row) == row.val["amount"] = "none" <=> row.val["recorded"] = "none"

\* A request other than the owner's leaves what it loaded of the owner's; the
\* owner's gives a value or empties the field.
Respects(e) ==
    \A f \in Marked :
        /\ edit[e].kind \in {"fill", "quote"} /\ edit[e].old.val[f] \in Owned =>
              edit[e].new.val[f] = edit[e].old.val[f]
        /\ edit[e].kind = "owner" /\ edit[e].new.val[f] # edit[e].old.val[f] =>
              edit[e].new.val[f] \in Owned \cup {"none"}

\* What was never written over unseen agrees in the row, and in what every request
\* loaded and is to leave, however stale; before the plant is there nobody edits it.
EditsAgree ==
    /\ ~created => Now = Blank /\ \A e \in Editors : edit[e] = Idle
    /\ \A e \in Editors : Respects(e)
    /\ \A f \in Marked \ lost :
          /\ Agrees(Now, f)
          /\ \A e \in Editors : edit[e].kind # "none" =>
                Agrees(edit[e].old, f) /\ Agrees(edit[e].new, f)
    /\ Proposal \cap lost = {} =>
          /\ Whole(Now)
          /\ \A e \in Editors : edit[e].kind # "none" =>
                Whole(edit[e].old) /\ Whole(edit[e].new)
=============================================================================
