--------------------------- MODULE ProviderSupply ---------------------------
(***************************************************************************)
(* How one partner becomes supply (src/src/provider, src/src/host/         *)
(* partnerHost.ts): the session, the profile versions, the card and its    *)
(* decision, one week's availability versions and the windows a            *)
(* confirmation grants, and the projections of the governed configuration  *)
(* that all of them resolve against.                                       *)
(*                                                                         *)
(* Every request of the host is one transaction, and one action here: a    *)
(* key is claimed under an advisory lock, a card and an availability       *)
(* version are decided under their row lock, and two submissions that race *)
(* for one version number collide on its unique index.  A refusal is no    *)
(* exception: the transaction commits whatever was written before it,      *)
(* which two actions below keep.  Any of the tenant's hosts may answer,    *)
(* each under the configuration it started with, so services and regions   *)
(* are any that some host governs.  Replays and conflicts change nothing.  *)
(***************************************************************************)
EXTENDS ServiceRequestStates, Naturals, Sequences

CONSTANTS
    Services,        \* service codes that some configuration governs
    Regions,         \* coverage regions that some configuration governs
    Keys,            \* idempotency keys that callers state
    MaxProfiles,     \* bound: profile versions of the partner
    MaxCards,        \* bound: cards of the partner
    MaxSchedules     \* bound: availability versions of the week

ASSUME SupplyAssumption ==
    /\ MaxProfiles \in Nat /\ MaxCards \in Nat /\ MaxSchedules \in Nat
    /\ None \notin Keys

VARIABLES
    session,         \* the live core_provider_session of the partner
    supplyStatus,    \* core_provider.supply_status, None before the row
    profiles,        \* core_provider_profile.service_codes, by version
    cards,           \* core_provider_card rows, by age
    publicId,        \* core_provider_public_id.assigned_by_card_id, 0 if none
    capabilities,    \* core_provider_service rows
    schedules,       \* core_provider_availability_version rows, by version
    windows,         \* active core_capacity_window rows with their link
    catalogue,       \* service codes core_catalogue_binding has
    areas,           \* active core_service_area rows
    ingress          \* core_provider_ingress rows, by idempotency_key

vars == <<session, supplyStatus, profiles, cards, publicId, capabilities,
          schedules, windows, catalogue, areas, ingress>>

cardVars       == <<cards, publicId, capabilities>>
scheduleVars   == <<schedules, windows>>
projectionVars == <<catalogue, areas>>

-----------------------------------------------------------------------------
(* The rows.                                                               *)

(* An applicant's session names no provider yet.  The partner holds one at *)
(* a time.                                                                 *)
SessionStates == {None, "APPLICANT", "PARTNER"}

Card == [profile : Nat \ {0}, state : {"SUBMITTED", "APPROVED", "REJECTED"}]

Schedule == [regions : SUBSET Regions, state : {"SUBMITTED", "CONFIRMED", "SUPERSEDED"}]

Window == [version : Nat \ {0}, region : Regions]

Commands == {"PROVIDER_PROFILE_SUBMIT", "PROVIDER_CARD_SUBMIT",
             "PROVIDER_CARD_APPROVE", "PROVIDER_CARD_REJECT",
             "PROVIDER_AVAILABILITY_SUBMIT", "PROVIDER_AVAILABILITY_CONFIRM"}

(* request_fingerprint: what the command was about.                        *)
Fingerprint == [services : SUBSET Services, regions : SUBSET Regions, subject : Nat]

AboutServices(codes) == [services |-> codes, regions |-> {}, subject |-> 0]
AboutRegions(week)   == [services |-> {}, regions |-> week, subject |-> 0]
AboutRow(i)          == [services |-> {}, regions |-> {}, subject |-> i]

IngressRow == [command : Commands, fingerprint : Fingerprint, ref : Nat \ {0}]

NoRow == [command |-> None]

(* The highest profile version: there is no pointer to a current one.      *)
CurrentProfile == profiles[Len(profiles)]

Open(v) == schedules[v].state \in {"SUBMITTED", "CONFIRMED"}

-----------------------------------------------------------------------------
(* Deliberate faults.  Each is a plausible mistake in one definition below  *)
(* and stands in for it when we ask whether a property could fail at all.   *)

WithdrawNothing == windows                \* deletes the links, not the windows

ClaimUnchecked(k) == TRUE                 \* the key is not looked up

SubmitProviderCardUnchecked(k) ==         \* the provider row is profile enough
    /\ session = "PARTNER"
    /\ cards = <<>>
    /\ cards' = <<[profile |-> Len(profiles), state |-> "SUBMITTED"]>>
    /\ UNCHANGED <<session, supplyStatus, profiles, publicId, capabilities,
                   scheduleVars, projectionVars, ingress>>

RejectProviderCardUnchecked(c, k) ==      \* no CARD_NOT_OPEN
    /\ c \in DOMAIN cards
    /\ k \in Keys => ingress[k] = NoRow
    /\ cards' = [cards EXCEPT ![c].state = "REJECTED"]
    /\ ingress' = IF k \in Keys
                  THEN [ingress EXCEPT ![k] = [command |-> "PROVIDER_CARD_REJECT",
                                               fingerprint |-> AboutRow(c), ref |-> c]]
                  ELSE ingress
    /\ UNCHANGED <<session, supplyStatus, profiles, publicId, capabilities,
                   scheduleVars, projectionVars>>

ConfirmAvailabilityOfAnyVersion(v, k) ==  \* confirms what was superseded
    /\ v \in DOMAIN schedules
    /\ k \in Keys => ingress[k] = NoRow
    /\ schedules[v].regions \subseteq areas
    /\ schedules' = [schedules EXCEPT ![v].state = "CONFIRMED"]
    /\ windows' = windows \union [version : {v}, region : schedules[v].regions]
    /\ UNCHANGED <<session, supplyStatus, profiles, cardVars, projectionVars,
                   ingress>>

-----------------------------------------------------------------------------
(* claimIdempotency: a key settles one command, and a key derived from the *)
(* request's correlation id was never seen.  recordProviderIngress.        *)
Claim(k) == k \in Keys => ingress[k] = NoRow

Record(k, command, fingerprint, ref) ==
    ingress' = IF k \in Keys
               THEN [ingress EXCEPT ![k] = [command |-> command,
                         fingerprint |-> fingerprint, ref |-> ref]]
               ELSE ingress

(* assignPublicId, with the PROVIDER role that goes with it.               *)
AssignPublicId(c) == publicId' = IF publicId = 0 THEN c ELSE publicId

(* materializeConfirmedAvailability: a window for each region of the week. *)
Granted(v) == [version : {v}, region : schedules[v].regions]

(* withdrawAvailabilityVersion, for each open version that was confirmed.  *)
Remaining ==
    {w \in windows : schedules[w.version].state # "CONFIRMED"}

Init ==
    /\ session = None /\ supplyStatus = None
    /\ profiles = <<>> /\ cards = <<>> /\ publicId = 0 /\ capabilities = {}
    /\ schedules = <<>> /\ windows = {}
    /\ catalogue = {} /\ areas = {}
    /\ ingress = [k \in Keys |-> NoRow]

-----------------------------------------------------------------------------
(* Sessions.                                                               *)

(* Enrolment: a contact that is no provider's yet gets a session.          *)
Enrol ==
    /\ supplyStatus = None
    /\ session' = "APPLICANT"
    /\ UNCHANGED <<supplyStatus, profiles, cardVars, scheduleVars,
                   projectionVars, ingress>>

IssueProviderAccessSession ==
    /\ supplyStatus # None
    /\ session' = "PARTNER"
    /\ UNCHANGED <<supplyStatus, profiles, cardVars, scheduleVars,
                   projectionVars, ingress>>

(* It expires, or is revoked.                                              *)
SessionEnds ==
    /\ session # None
    /\ session' = None
    /\ UNCHANGED <<supplyStatus, profiles, cardVars, scheduleVars,
                   projectionVars, ingress>>

-----------------------------------------------------------------------------
(* The profile.                                                            *)

(* The session names the provider; an applicant's first submission creates *)
(* it, and attaches the session to it.                                     *)
AttachProvider ==
    /\ session # None
    /\ session' = "PARTNER"
    /\ supplyStatus' = IF session = "APPLICANT" THEN "SUBMITTED" ELSE supplyStatus

(* Of the declared codes only the first is resolved in the catalogue.      *)
SubmitProviderProfile(codes, k) ==
    /\ Len(profiles) < MaxProfiles
    /\ codes \intersect catalogue # {}
    /\ Claim(k)
    /\ AttachProvider
    /\ profiles' = Append(profiles, codes)
    /\ Record(k, "PROVIDER_PROFILE_SUBMIT", AboutServices(codes), Len(profiles) + 1)
    /\ UNCHANGED <<cardVars, scheduleVars, projectionVars>>

(* MEDIA_NOT_FOUND comes after the provider was created and attached.      *)
ProfileRefusedForPortrait ==
    /\ catalogue # {}
    /\ AttachProvider
    /\ UNCHANGED <<profiles, cardVars, scheduleVars, projectionVars, ingress>>

-----------------------------------------------------------------------------
(* The card and its decision.                                              *)

SubmitProviderCard(k) ==
    /\ session = "PARTNER"
    /\ profiles # <<>>
    /\ Claim(k)
    /\ \A c \in DOMAIN cards : cards[c].state # "SUBMITTED"
    /\ Len(cards) < MaxCards
    /\ cards' = Append(cards, [profile |-> Len(profiles), state |-> "SUBMITTED"])
    /\ Record(k, "PROVIDER_CARD_SUBMIT", AboutRow(Len(profiles)), Len(cards) + 1)
    /\ UNCHANGED <<session, supplyStatus, profiles, publicId, capabilities,
                   scheduleVars, projectionVars>>

(* The capabilities are those of the newest profile, whichever version the *)
(* card was submitted for.                                                 *)
ApproveProviderCard(c, k) ==
    /\ c \in DOMAIN cards /\ cards[c].state = "SUBMITTED"
    /\ Claim(k)
    /\ CurrentProfile \subseteq catalogue
    /\ AssignPublicId(c)
    /\ capabilities' = capabilities \union CurrentProfile
    /\ supplyStatus' = "APPROVED"
    /\ cards' = [cards EXCEPT ![c].state = "APPROVED"]
    /\ Record(k, "PROVIDER_CARD_APPROVE", AboutRow(c), c)
    /\ UNCHANGED <<session, profiles, scheduleVars, projectionVars>>

(* CATALOGUE_NOT_PROJECTED: the codes before the unprojected one, the      *)
(* partner id and the role are written, the card still awaits a decision.  *)
ApprovalRefused(c, k) ==
    /\ c \in DOMAIN cards /\ cards[c].state = "SUBMITTED"
    /\ Claim(k)
    /\ ~ (CurrentProfile \subseteq catalogue)
    /\ AssignPublicId(c)
    /\ \E before \in SUBSET (CurrentProfile \intersect catalogue) :
          capabilities' = capabilities \union before
    /\ UNCHANGED <<session, supplyStatus, profiles, cards, scheduleVars,
                   projectionVars, ingress>>

RejectProviderCard(c, k) ==
    /\ c \in DOMAIN cards /\ cards[c].state = "SUBMITTED"
    /\ Claim(k)
    /\ cards' = [cards EXCEPT ![c].state = "REJECTED"]
    /\ Record(k, "PROVIDER_CARD_REJECT", AboutRow(c), c)
    /\ UNCHANGED <<session, supplyStatus, profiles, publicId, capabilities,
                   scheduleVars, projectionVars>>

-----------------------------------------------------------------------------
(* The week.                                                               *)

CanSubmitAvailability(week, k) ==
    /\ session = "PARTNER"
    /\ week \subseteq areas
    /\ Claim(k)

(* What is open already, submitted again, is no edit: the key settles on   *)
(* the open version.                                                       *)
ResubmitAvailability(week, k) ==
    /\ CanSubmitAvailability(week, k)
    /\ \E v \in DOMAIN schedules :
          /\ Open(v) /\ schedules[v].regions = week
          /\ Record(k, "PROVIDER_AVAILABILITY_SUBMIT", AboutRegions(week), v)
    /\ UNCHANGED <<session, supplyStatus, profiles, cardVars, scheduleVars,
                   projectionVars>>

(* An edit supersedes what was open and withdraws the windows of what was  *)
(* confirmed.                                                              *)
SubmitAvailability(week, k) ==
    /\ CanSubmitAvailability(week, k)
    /\ \A v \in DOMAIN schedules : Open(v) => schedules[v].regions # week
    /\ Len(schedules) < MaxSchedules
    /\ windows' = Remaining
    /\ schedules' =
          Append([v \in DOMAIN schedules |-> [schedules[v] EXCEPT !.state = "SUPERSEDED"]],
                 [regions |-> week, state |-> "SUBMITTED"])
    /\ Record(k, "PROVIDER_AVAILABILITY_SUBMIT", AboutRegions(week), Len(schedules) + 1)
    /\ UNCHANGED <<session, supplyStatus, profiles, cardVars, projectionVars>>

ConfirmAvailability(v, k) ==
    /\ v \in DOMAIN schedules /\ schedules[v].state = "SUBMITTED"
    /\ Claim(k)
    /\ schedules[v].regions \subseteq areas
    /\ schedules' = [schedules EXCEPT ![v].state = "CONFIRMED"]
    /\ windows' = windows \union Granted(v)
    /\ Record(k, "PROVIDER_AVAILABILITY_CONFIRM", AboutRow(v), v)
    /\ UNCHANGED <<session, supplyStatus, profiles, cardVars, projectionVars>>

(* SERVICE_AREAS_NOT_PROJECTED comes after the version was CONFIRMED.      *)
ConfirmationRefused(v, k) ==
    /\ v \in DOMAIN schedules /\ schedules[v].state = "SUBMITTED"
    /\ Claim(k)
    /\ ~ (schedules[v].regions \subseteq areas)
    /\ schedules' = [schedules EXCEPT ![v].state = "CONFIRMED"]
    /\ UNCHANGED <<session, supplyStatus, profiles, cardVars, windows,
                   projectionVars, ingress>>

-----------------------------------------------------------------------------
(* A host starts and projects the configuration it resolved: a service     *)
(* keeps its binding for good, a region outside the configuration is       *)
(* deactivated.                                                            *)
StartPartnerHost(codes, governed) ==
    /\ catalogue' = catalogue \union codes
    /\ areas' = governed
    /\ UNCHANGED <<session, supplyStatus, profiles, cardVars, scheduleVars,
                   ingress>>

-----------------------------------------------------------------------------
Sessions ==
    \/ Enrol
    \/ IssueProviderAccessSession
    \/ SessionEnds

Profiles ==
    \/ \E codes \in (SUBSET Services) \ {{}}, k \in Keys \union {None} :
          SubmitProviderProfile(codes, k)
    \/ ProfileRefusedForPortrait

Cards ==
    \E k \in Keys \union {None} :
       \/ SubmitProviderCard(k)
       \/ \E c \in 1 .. MaxCards :
             \/ ApproveProviderCard(c, k)
             \/ ApprovalRefused(c, k)
             \/ RejectProviderCard(c, k)

Availability ==
    \E k \in Keys \union {None} :
       \/ \E week \in SUBSET Regions :
             \/ ResubmitAvailability(week, k)
             \/ SubmitAvailability(week, k)
       \/ \E v \in 1 .. MaxSchedules :
             \/ ConfirmAvailability(v, k)
             \/ ConfirmationRefused(v, k)

Next ==
    \/ Sessions
    \/ Profiles
    \/ Cards
    \/ Availability
    \/ \E codes \in SUBSET Services, governed \in (SUBSET Regions) \ {{}} :
          StartPartnerHost(codes, governed)

Spec == Init /\ [][Next]_vars

-----------------------------------------------------------------------------
(* What others read.                                                       *)

(* approvedSupply: an entry per approved card and confirmed version.       *)
ApprovedSupply ==
    IF supplyStatus = "APPROVED" /\ publicId # 0 /\ capabilities # {}
    THEN {[card |-> c, version |-> v, services |-> capabilities,
           regions |-> schedules[v].regions] :
             c \in {x \in DOMAIN cards : cards[x].state = "APPROVED"},
             v \in {x \in DOMAIN schedules : schedules[x].state = "CONFIRMED"}}
    ELSE {}

(* eligibleProviders and providerIsAvailable of the commerce kernel: what  *)
(* an evaluation finds this partner able to serve.                         *)
Sellable(service, region) ==
    /\ supplyStatus = "APPROVED"
    /\ service \in capabilities
    /\ region \in areas
    /\ \E w \in windows : w.region = region

(* The version that a repetition of the command k settled is told of, by   *)
(* an entitled caller, Refused when it is turned away.  A profile's ref is *)
(* not looked at, and a card is submitted for the profile that is newest   *)
(* now: for a newer one than before, the key is in conflict.               *)
Refused == 0

RepeatIsTold(k) ==
    LET row == ingress[k]
        RefIf(found) == IF found THEN row.ref ELSE Refused
    IN  CASE row.command = "PROVIDER_PROFILE_SUBMIT" -> Len(profiles)
          [] row.command = "PROVIDER_CARD_SUBMIT" ->
                RefIf(row.fingerprint.subject = Len(profiles))
          [] row.command = "PROVIDER_CARD_APPROVE" ->
                RefIf(cards[row.ref].state = "APPROVED")
          [] row.command = "PROVIDER_CARD_REJECT" ->
                RefIf(cards[row.ref].state = "REJECTED")
          [] row.command = "PROVIDER_AVAILABILITY_SUBMIT" ->
                RefIf(row.fingerprint.regions \subseteq areas)
          [] row.command = "PROVIDER_AVAILABILITY_CONFIRM" ->
                RefIf(schedules[row.ref].state = "CONFIRMED")

-----------------------------------------------------------------------------
(* Correctness.                                                            *)

(* Every row has its table's columns and refers to rows that exist.        *)
TypeOK ==
    /\ session \in SessionStates
    /\ supplyStatus \in {None, "SUBMITTED", "APPROVED"}
    /\ profiles \in Seq((SUBSET Services) \ {{}})
    /\ cards \in Seq(Card)
    /\ \A c \in DOMAIN cards : cards[c].profile \in DOMAIN profiles
    /\ publicId \in DOMAIN cards \union {0}
    /\ capabilities \subseteq Services
    /\ schedules \in Seq(Schedule)
    /\ windows \subseteq [version : DOMAIN schedules, region : Regions]
    /\ catalogue \subseteq Services
    /\ areas \subseteq Regions
    /\ ingress \in [Keys -> IngressRow \union {NoRow}]

(* supply.ts:18-20: "a stale version cannot linger as capacity".  Whatever *)
(* is bookable was granted by the newest version of the week, which an     *)
(* owner confirmed, and only in its regions; that one is open, no other.   *)
SupplyIsWhatWasConfirmed ==
    /\ \A v \in DOMAIN schedules : Open(v) <=> v = Len(schedules)
    /\ \A w \in windows :
          /\ schedules[w.version].state = "CONFIRMED"
          /\ w.region \in schedules[w.version].regions

(* The kernel sells and the owner's read model shows supply, and each      *)
(* joins other tables (kernel/evaluation.ts, provider/supply.ts).  Nothing *)
(* is sellable that the read model does not show: a card was approved, a   *)
(* week confirmed, and both cover what is sold.                            *)
SellableIsApprovedSupply ==
    \A service \in Services, region \in Regions :
       Sellable(service, region) =>
          \E entry \in ApprovedSupply :
             service \in entry.services /\ region \in entry.regions

(* The row a settled key names is what its command made, or is as its      *)
(* command decided it.                                                     *)
RowStands(row) ==
    /\ row.command = "PROVIDER_PROFILE_SUBMIT" =>
          row.ref \in DOMAIN profiles /\ profiles[row.ref] = row.fingerprint.services
    /\ row.command = "PROVIDER_CARD_SUBMIT" =>
          row.ref \in DOMAIN cards /\ cards[row.ref].profile = row.fingerprint.subject
    /\ row.command = "PROVIDER_CARD_APPROVE" =>
          row.ref \in DOMAIN cards /\ cards[row.ref].state = "APPROVED"
    /\ row.command = "PROVIDER_CARD_REJECT" =>
          row.ref \in DOMAIN cards /\ cards[row.ref].state = "REJECTED"
    /\ row.command = "PROVIDER_AVAILABILITY_SUBMIT" =>
          /\ row.ref \in DOMAIN schedules
          /\ schedules[row.ref].regions = row.fingerprint.regions
    /\ row.command = "PROVIDER_AVAILABILITY_CONFIRM" =>
          row.ref \in DOMAIN schedules /\ schedules[row.ref].state # "SUBMITTED"

(* The partner has moved on since, or a host governs other regions now.    *)
Overtaken(row) ==
    \/ row.command = "PROVIDER_PROFILE_SUBMIT" /\ row.ref < Len(profiles)
    \/ row.command = "PROVIDER_CARD_SUBMIT" /\ cards[row.ref].profile < Len(profiles)
    \/ row.command = "PROVIDER_AVAILABILITY_SUBMIT"
          /\ ~ (schedules[row.ref].regions \subseteq areas)
    \/ row.command = "PROVIDER_AVAILABILITY_CONFIRM" /\ row.ref < Len(schedules)

(* ingress.ts:13 promises a repetition "the original result".  That holds  *)
(* of what the owner decided about a card, for good.  Of the rest it holds *)
(* until the command is overtaken: a profile's repetition is then told of  *)
(* the newest version (profile.ts:274), a card's is a conflict, and that   *)
(* of a week is refused; but whoever is told of the row itself is told of  *)
(* what the command made or decided, and nobody is turned away without a   *)
(* newer profile, a newer week or another coverage.                        *)
AnsweredUnlessOvertaken ==
    \A k \in Keys : ingress[k] # NoRow =>
       /\ RowStands(ingress[k])
       /\ RepeatIsTold(k) = ingress[k].ref \/ Overtaken(ingress[k])

(* A decision is taken once: a decided card and a superseded week stay as  *)
(* they are, a confirmed week is only ever superseded, no key is settled   *)
(* again, and a partner's approval and public id are never taken back.     *)
DecidedOnce ==
    [][/\ \A c \in DOMAIN cards : cards[c].state # "SUBMITTED" => cards'[c] = cards[c]
       /\ \A v \in DOMAIN schedules :
             /\ schedules'[v].regions = schedules[v].regions
             /\ schedules[v].state = "SUPERSEDED" => schedules'[v] = schedules[v]
             /\ schedules[v].state = "CONFIRMED" => schedules'[v].state # "SUBMITTED"
       /\ \A k \in Keys : ingress[k] # NoRow => ingress'[k] = ingress[k]
       /\ supplyStatus = "APPROVED" => supplyStatus' = "APPROVED"
       /\ publicId # 0 => publicId' = publicId]_vars

(* availability.ts:132-135: when a confirmed week is edited the capacity   *)
(* it granted is withdrawn in the same transaction, and "the schedule and  *)
(* the supply it produced can never disagree, because they move together". *)
ScheduleAndSupplyAgree ==
    \A v \in DOMAIN schedules :
       schedules[v].state = "CONFIRMED" => Granted(v) \subseteq windows
=============================================================================
