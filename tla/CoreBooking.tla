---------------------------- MODULE CoreBooking ----------------------------
(***************************************************************************)
(* One booking under the core foundation (src/src/core): the operations    *)
(* that work a Service Request without the orchestrator's action envelope, *)
(* and the amendment of what was committed.                                *)
(*                                                                         *)
(* Each operation is a transaction, and transitionRequest locks the        *)
(* request only when it comes to move it.  Where everything an operation   *)
(* read before that lock is final by then, or under a row lock of its own, *)
(* the operation is one action.  Four read what others may change          *)
(* meanwhile, and are two: offerDispatch reads the owner's judgement, the  *)
(* expiry sweep lists its candidates, confirmBooking reads the             *)
(* authoritative version, applyAmendment the request's state and its       *)
(* assignment.  The clocks of a sweep and of an answer need not agree, so  *)
(* both may find an offer theirs to decide.                                *)
(***************************************************************************)
EXTENDS ServiceRequestStates, Naturals, Sequences

CONSTANTS
    Providers,       \* the approved providers of the market
    Windows,         \* service windows, any two of them disjoint
    Prices,
    MaxAmendments    \* bound: amendments of one booking

ASSUME AmendmentsAssumption == MaxAmendments \in Nat

Terms == [window : Windows, price : Prices]

VARIABLES
    state,           \* core_service_request.state
    serviceable,     \* the newest judgement of the owner is SERVICEABLE
    offering,        \* an open offerDispatch has found it so
    offer,           \* the core_dispatch_offer row of the request
    listed,          \* a running sweep has the offer among its candidates
    assigned,        \* provider of the active core_assignment row
    confirmations,   \* core_customer_confirmation rows, by context_version
    confirming,      \* version agreed to in an open confirmBooking
    versions,        \* core_service_request_version rows, by version
    currentVersion,  \* core_service_request.current_version
    amendments,      \* core_amendment rows, by age
    adopting,        \* what an open applyAmendment has read
    holds,           \* this request's live hold of a provider's window
    busy             \* <<provider, window>> pairs that other bookings hold

vars == <<state, serviceable, offering, offer, listed, assigned,
          confirmations, confirming, versions, currentVersion, amendments, adopting, holds,
          busy>>

dispatchVars  == <<serviceable, offering, offer, listed>>
amendmentVars == <<versions, currentVersion, amendments, adopting>>
consentVars   == <<confirmations, confirming>>
capacityVars  == <<holds, busy>>

-----------------------------------------------------------------------------
(* The rows.                                                               *)

OfferStates == {"OFFERED", "ACCEPTED", "DECLINED", "EXPIRED"}

NoOffer == [provider |-> None, state |-> None]

Confirmation == [version : Nat \ {0}, status : {"CONFIRMED", "SUPERSEDED"}]

Validated == {"VALIDATING", "REQUIRES_RECONFIRMATION"}
OpenStates == {"PROPOSED"} \union Validated
Decided == {"APPLIED", "REJECTED", "WITHDRAWN"}

(* candidate is the version its validation drafted, 0 before that.         *)
AmendmentRow == [state : OpenStates \union Decided, candidate : Nat,
                 requiresReconfirmation : BOOLEAN]

NotAdopting == [state |-> None, provider |-> None]

Transition(from, to) ==
    /\ state = from
    /\ to \in LegalTransitions[from]
    /\ state' = to

HasActiveConfirmation ==
    \E c \in DOMAIN confirmations : confirmations[c].status = "CONFIRMED"

(* uq_amendment_single_open, and the query before it: only the newest      *)
(* amendment can be open.                                                  *)
LatestIs(states) ==
    amendments # <<>> /\ amendments[Len(amendments)].state \in states

Latest == amendments[Len(amendments)]

DecideLatest(decision) ==
    amendments' = [amendments EXCEPT ![Len(amendments)].state = decision]

NoHolds == [p \in Providers |-> [w \in Windows |-> None]]

-----------------------------------------------------------------------------
(* Deliberate faults.  Each is a plausible mistake in one definition below  *)
(* and stands in for it when we ask whether a property could fail at all.   *)

SupersedeNothing == UNCHANGED confirmations      \* sets superseded_at, not status

SweepExpiresUnchecked ==                  \* trusts the list it made
    /\ listed /\ listed' = FALSE
    /\ offer' = [offer EXCEPT !.state = "EXPIRED"]
    /\ IF state = "PROVIDER_DISPATCHED" THEN state' = "PENDING_ACCEPTANCE"
                                        ELSE UNCHANGED state
    /\ UNCHANGED <<serviceable, offering, assigned, consentVars,
                   amendmentVars, capacityVars>>

ValidateAmendmentUnwritten(terms) ==      \* a candidate without its row
    /\ LatestIs({"PROPOSED"})
    /\ amendments' = [amendments EXCEPT ![Len(amendments)] =
            [state |-> "VALIDATING", candidate |-> currentVersion + 1,
             requiresReconfirmation |-> FALSE]]
    /\ UNCHANGED <<state, dispatchVars, assigned, consentVars, versions,
                   currentVersion, adopting, capacityVars>>

ValidateAmendmentAtOnce(terms) ==         \* the draft is authoritative already
    /\ LatestIs({"PROPOSED"})
    /\ Len(versions) = currentVersion
    /\ versions' = Append(versions, terms)
    /\ currentVersion' = currentVersion + 1
    /\ amendments' = [amendments EXCEPT ![Len(amendments)] =
            [state |-> "VALIDATING", candidate |-> currentVersion + 1,
             requiresReconfirmation |-> FALSE]]
    /\ UNCHANGED <<state, dispatchVars, assigned, consentVars, adopting,
                   capacityVars>>

RejectAmendmentUnlocked(terminal) ==      \* applyAmendment takes no row lock
    /\ LatestIs(OpenStates)
    /\ DecideLatest(terminal)
    /\ UNCHANGED <<state, dispatchVars, assigned, consentVars, versions,
                   currentVersion, adopting, capacityVars>>

RejectAmendmentDecided(terminal) ==       \* drops the list of open states
    /\ amendments # <<>>
    /\ adopting = NotAdopting
    /\ DecideLatest(terminal)
    /\ UNCHANGED <<state, dispatchVars, assigned, consentVars, versions,
                   currentVersion, adopting, capacityVars>>

-----------------------------------------------------------------------------
(* releaseCapacity of every hold, then holdCapacity and commitCapacity of  *)
(* one: the request's own holds are no obstacle to it, a rival's is.       *)
SwapCapacity(p, w) ==
    /\ <<p, w>> \notin busy
    /\ holds' = [NoHolds EXCEPT ![p][w] = "COMMITTED"]

CommitHeld ==
    holds' = [p \in Providers |-> [w \in Windows |->
                IF holds[p][w] = "HELD" THEN "COMMITTED" ELSE holds[p][w]]]

SupersedeConfirmation ==
    confirmations' = [c \in DOMAIN confirmations |->
                        [confirmations[c] EXCEPT !.status = "SUPERSEDED"]]

-----------------------------------------------------------------------------
Init ==
    /\ state = "PENDING_ACCEPTANCE"
    /\ serviceable = FALSE
    /\ offering = FALSE
    /\ offer = NoOffer
    /\ listed = FALSE
    /\ assigned = None
    /\ confirmations = <<>>
    /\ confirming = 0
    /\ \E t \in Terms : versions = <<t>>
    /\ currentVersion = 1
    /\ amendments = <<>>
    /\ adopting = NotAdopting
    /\ holds = NoHolds
    /\ busy = {}

(* The judgement that offerDispatch shares with the orchestrator.          *)
QualifyRequest(outcome) ==
    /\ state = "PENDING_ACCEPTANCE"
    /\ serviceable' = outcome
    /\ UNCHANGED <<state, offering, offer, listed, assigned, consentVars,
                   amendmentVars, capacityVars>>

ReadForOffer ==
    /\ serviceable /\ ~offering
    /\ offering' = TRUE
    /\ UNCHANGED <<state, serviceable, offer, listed, assigned, consentVars,
                   amendmentVars, capacityVars>>

(* The row is inserted as attempt 1 and ON CONFLICT DO NOTHING: an earlier *)
(* offer of the request, decided or not, is in the way of another.         *)
OfferDispatch(p) ==
    /\ offering /\ offering' = FALSE
    /\ offer = NoOffer
    /\ offer' = [provider |-> p, state |-> "OFFERED"]
    /\ Transition("PENDING_ACCEPTANCE", "PROVIDER_DISPATCHED")
    /\ UNCHANGED <<serviceable, listed, assigned, consentVars, amendmentVars,
                   capacityVars>>

OfferRefused ==
    /\ offering /\ offering' = FALSE
    /\ offer # NoOffer
    /\ UNCHANGED <<state, serviceable, offer, listed, assigned, consentVars,
                   amendmentVars, capacityVars>>

RespondToOffer(decision) ==
    /\ offer.state = "OFFERED"
    /\ offer' = [offer EXCEPT !.state = decision]
    /\ Transition("PROVIDER_DISPATCHED",
                  IF decision = "ACCEPTED" THEN "PROVIDER_ACCEPTED"
                                           ELSE "PENDING_ACCEPTANCE")
    /\ UNCHANGED <<serviceable, offering, listed, assigned, consentVars,
                   amendmentVars, capacityVars>>

(* expireDispatchOffers discovers its candidates without a lock ...        *)
SweepListsOffer ==
    /\ offer.state = "OFFERED" /\ ~listed
    /\ listed' = TRUE
    /\ UNCHANGED <<state, serviceable, offering, offer, assigned, consentVars,
                   amendmentVars, capacityVars>>

(* ... and re-checks each under its row lock before it touches it.         *)
SweepExpiresOffer ==
    /\ listed /\ listed' = FALSE
    /\ offer.state = "OFFERED"
    /\ offer' = [offer EXCEPT !.state = "EXPIRED"]
    /\ IF state = "PROVIDER_DISPATCHED" THEN state' = "PENDING_ACCEPTANCE"
                                        ELSE UNCHANGED state
    /\ UNCHANGED <<serviceable, offering, assigned, consentVars,
                   amendmentVars, capacityVars>>

SweepSkipsOffer ==
    /\ listed /\ listed' = FALSE
    /\ offer.state # "OFFERED"
    /\ UNCHANGED <<state, serviceable, offering, offer, assigned, consentVars,
                   amendmentVars, capacityVars>>

(* The owner binds the work, and every hold the request has is committed.  *)
AssignRequest ==
    /\ offer.state = "ACCEPTED"
    /\ Transition("PROVIDER_ACCEPTED", "OWNER_ASSIGNED")
    /\ assigned' = offer.provider
    /\ CommitHeld
    /\ UNCHANGED <<dispatchVars, consentVars, amendmentVars, busy>>

RequestCustomerConfirmation ==
    /\ Transition("OWNER_ASSIGNED", "AWAITING_CUSTOMER_CONFIRMATION")
    /\ UNCHANGED <<dispatchVars, assigned, consentVars, amendmentVars,
                   capacityVars>>

(* confirmBooking: the customer names a version, which must be the one     *)
(* read as authoritative.                                                  *)
ReadForConfirmation ==
    /\ confirming = 0
    /\ confirming' = currentVersion
    /\ UNCHANGED <<state, dispatchVars, assigned, confirmations, amendmentVars,
                   capacityVars>>

ConfirmBooking ==
    /\ confirming # 0 /\ confirming' = 0
    /\ ~HasActiveConfirmation                   \* uq_confirmation_single_active
    /\ Transition("AWAITING_CUSTOMER_CONFIRMATION", "CUSTOMER_CONFIRMED")
    /\ confirmations' = Append(confirmations, [version |-> confirming,
                                               status |-> "CONFIRMED"])
    /\ UNCHANGED <<dispatchVars, assigned, amendmentVars, capacityVars>>

ConfirmationRefused ==
    /\ confirming # 0 /\ confirming' = 0
    /\ state # "AWAITING_CUSTOMER_CONFIRMATION" \/ HasActiveConfirmation
    /\ UNCHANGED <<state, dispatchVars, assigned, confirmations, amendmentVars,
                   capacityVars>>

BeginFulfillment ==
    /\ Transition("CUSTOMER_CONFIRMED", "FULFILLMENT_ACTIVE")
    /\ UNCHANGED <<dispatchVars, assigned, consentVars, amendmentVars,
                   capacityVars>>

RecordFulfillmentResult(result) ==
    /\ Transition("FULFILLMENT_ACTIVE", result)
    /\ holds' = NoHolds
    /\ UNCHANGED <<dispatchVars, assigned, consentVars, amendmentVars, busy>>

-----------------------------------------------------------------------------
(* Amendments.  None of these asks what state the request is in.           *)

ProposeAmendment ==
    /\ ~LatestIs(OpenStates)
    /\ Len(amendments) < MaxAmendments
    /\ amendments' = Append(amendments, [state |-> "PROPOSED", candidate |-> 0,
                                         requiresReconfirmation |-> FALSE])
    /\ UNCHANGED <<state, dispatchVars, assigned, consentVars, versions,
                   currentVersion, adopting, capacityVars>>

(* The candidate is drafted as the version after the authoritative one,    *)
(* which must be free (uq_request_version).  Whether the customer has to   *)
(* agree again is settled here, by the consent there is at this moment.    *)
ValidateAmendment(terms) ==
    /\ LatestIs({"PROPOSED"})
    /\ Len(versions) = currentVersion
    /\ versions' = Append(versions, terms)
    /\ LET reconfirm == /\ HasActiveConfirmation
                        /\ terms # versions[currentVersion]
       IN  amendments' = [amendments EXCEPT ![Len(amendments)] =
              [state |-> IF reconfirm THEN "REQUIRES_RECONFIRMATION"
                                      ELSE "VALIDATING",
               candidate |-> currentVersion + 1,
               requiresReconfirmation |-> reconfirm]]
    /\ UNCHANGED <<state, dispatchVars, assigned, consentVars, currentVersion,
                   adopting, capacityVars>>

(* applyAmendment locks the amendment and reads the rest.                  *)
ReadForAdoption ==
    /\ LatestIs(Validated)
    /\ adopting = NotAdopting
    /\ adopting' = [state |-> state, provider |-> assigned]
    /\ UNCHANGED <<state, dispatchVars, assigned, consentVars, versions,
                   currentVersion, amendments, capacityVars>>

(* Capacity is swapped for the provider that was read, the version moves,  *)
(* and consent ends if validation said so.  Where the request was read as  *)
(* confirmed and has moved on, the transition is refused and what was      *)
(* written is committed with the refusal.                                  *)
Adopt ==
    /\ adopting # NotAdopting /\ adopting' = NotAdopting
    /\ IF adopting.provider = None
       THEN UNCHANGED holds
       ELSE SwapCapacity(adopting.provider, versions[Latest.candidate].window)
    /\ currentVersion' = Latest.candidate
    /\ DecideLatest("APPLIED")
    /\ IF Latest.requiresReconfirmation
       THEN /\ SupersedeConfirmation
            /\ IF adopting.state = "CUSTOMER_CONFIRMED" /\ state = adopting.state
               THEN state' = "AWAITING_CUSTOMER_CONFIRMATION"
               ELSE UNCHANGED state
       ELSE UNCHANGED <<confirmations, state>>
    /\ UNCHANGED <<dispatchVars, assigned, confirming, versions, busy>>

(* A conflict with a rival's hold, or a transaction lost to a deadlock.    *)
AbandonAdoption ==
    /\ adopting # NotAdopting /\ adopting' = NotAdopting
    /\ UNCHANGED <<state, dispatchVars, assigned, consentVars, versions,
                   currentVersion, amendments, capacityVars>>

(* An adoption under way holds the amendment's row lock.                   *)
RejectAmendment(terminal) ==
    /\ LatestIs(OpenStates)
    /\ adopting = NotAdopting
    /\ DecideLatest(terminal)
    /\ UNCHANGED <<state, dispatchVars, assigned, consentVars, versions,
                   currentVersion, adopting, capacityVars>>

-----------------------------------------------------------------------------
(* Capacity, which asks nothing about the request.                         *)

HoldCapacity(p, w) ==
    /\ holds[p][w] = None /\ <<p, w>> \notin busy
    /\ holds' = [holds EXCEPT ![p][w] = "HELD"]
    /\ UNCHANGED <<state, dispatchVars, assigned, consentVars, amendmentVars,
                   busy>>

WithdrawProviderCapacity(p) ==
    /\ holds' = [holds EXCEPT ![p] = [w \in Windows |-> None]]
    /\ UNCHANGED <<state, dispatchVars, assigned, consentVars, amendmentVars,
                   busy>>

RivalTakesWindow(p, w) ==
    /\ holds[p][w] = None
    /\ busy' = busy \union {<<p, w>>}
    /\ UNCHANGED <<state, dispatchVars, assigned, consentVars, amendmentVars,
                   holds>>

RivalFreesWindow(p, w) ==
    /\ busy' = busy \ {<<p, w>>}
    /\ UNCHANGED <<state, dispatchVars, assigned, consentVars, amendmentVars,
                   holds>>

-----------------------------------------------------------------------------
Dispatching ==
    \/ \E outcome \in BOOLEAN : QualifyRequest(outcome)
    \/ ReadForOffer \/ OfferRefused
    \/ \E p \in Providers : OfferDispatch(p)
    \/ \E decision \in {"ACCEPTED", "DECLINED"} : RespondToOffer(decision)
    \/ SweepListsOffer \/ SweepExpiresOffer \/ SweepSkipsOffer
    \/ AssignRequest

Confirming ==
    \/ RequestCustomerConfirmation
    \/ ReadForConfirmation \/ ConfirmBooking \/ ConfirmationRefused
    \/ BeginFulfillment
    \/ \E result \in Results : RecordFulfillmentResult(result)

Amending ==
    \/ ProposeAmendment
    \/ \E terms \in Terms : ValidateAmendment(terms)
    \/ ReadForAdoption \/ Adopt \/ AbandonAdoption
    \/ \E terminal \in {"REJECTED", "WITHDRAWN"} : RejectAmendment(terminal)

Holding ==
    \E p \in Providers :
       \/ WithdrawProviderCapacity(p)
       \/ \E w \in Windows : HoldCapacity(p, w) \/ RivalTakesWindow(p, w)
                             \/ RivalFreesWindow(p, w)

Next == Dispatching \/ Confirming \/ Amending \/ Holding

Spec == Init /\ [][Next]_vars

-----------------------------------------------------------------------------
(* Correctness.                                                            *)

(* Every variable keeps its type, and versions and candidates stay inside  *)
(* the table of versions.                                                  *)
TypeOK ==
    /\ state \in RequestStates
    /\ serviceable \in BOOLEAN /\ offering \in BOOLEAN
    /\ offer \in [provider : Providers, state : OfferStates] \union {NoOffer}
    /\ listed \in BOOLEAN
    /\ assigned \in Providers \union {None}
    /\ confirmations \in Seq(Confirmation)
    /\ confirming \in Nat
    /\ versions \in Seq(Terms)
    /\ currentVersion \in 1 .. Len(versions)
    /\ amendments \in Seq(AmendmentRow)
    /\ \A i \in DOMAIN amendments : amendments[i].candidate <= Len(versions)
    /\ adopting \in [state : RequestStates, provider : Providers \union {None}]
                    \union {NotAdopting}
    /\ holds \in [Providers -> [Windows -> {None, "HELD", "COMMITTED"}]]
    /\ busy \subseteq Providers \X Windows

(* A sweep and an answer, or a sweep that listed the offer long ago, never *)
(* both win: the offer says what the request says, and the provider that   *)
(* gets the work is the one that accepted it (dispatchOffer.ts:8-10).      *)
NoSplitBrain ==
    /\ state = "PENDING_ACCEPTANCE" <=>
          offer.state \in {None, "DECLINED", "EXPIRED"}
    /\ state = "PROVIDER_DISPATCHED" <=> offer.state = "OFFERED"
    /\ assigned = IF offer.state = "ACCEPTED" /\ state # "PROVIDER_ACCEPTED"
                  THEN offer.provider ELSE None

(* A booking that reads CUSTOMER_CONFIRMED has its customer's consent on   *)
(* record, and one that awaits its customer has none in the way of giving  *)
(* it again, whatever was amended in between.                              *)
ConsentMatchesState ==
    /\ state = "CUSTOMER_CONFIRMED" => HasActiveConfirmation
    /\ HasActiveConfirmation =>
          state \in {"CUSTOMER_CONFIRMED", "FULFILLMENT_ACTIVE"} \union Results
    /\ \A c, d \in DOMAIN confirmations :
          confirmations[c].status = "CONFIRMED"
             /\ confirmations[d].status = "CONFIRMED" => c = d

(* A draft whose amendment was rejected or withdrawn.  rejectAmendment     *)
(* leaves the row, and insertVersion has no other number to give.          *)
DraftIsStranded == Len(versions) > currentVersion /\ ~LatestIs(Validated)

(* The committed terms stay authoritative until a replacement is adopted:  *)
(* the version moves only to the one drafted for the amendment that is     *)
(* applied in that step, it moves by one, and no version is ever rewritten *)
(* or drafted twice.  So where a draft was given up after its validation,  *)
(* proposals are still taken and none is ever validated or adopted again   *)
(* (amendment.ts:322, uq_request_version).                                 *)
AuthorityMovesByAdoption ==
    [][/\ currentVersion' # currentVersion =>
            /\ currentVersion' = currentVersion + 1
            /\ \E i \in DOMAIN amendments :
                  /\ amendments[i].state \in Validated
                  /\ amendments'[i].state = "APPLIED"
                  /\ amendments[i].candidate = currentVersion'
       /\ \A v \in DOMAIN versions :
            v \in DOMAIN versions' /\ versions'[v] = versions[v]
       /\ DraftIsStranded =>
            DraftIsStranded' /\ UNCHANGED <<versions, currentVersion>>]_vars

Adopted == {i \in DOMAIN amendments : amendments[i].state = "APPLIED"}

(* Every version that has ever been in force after the first is accounted  *)
(* for by one adopted amendment, every adoption accounts for a version in  *)
(* force then or now, in the order they were adopted, and what is drafted  *)
(* ahead of the authoritative version is one version at most.  Adoptions   *)
(* and rejections fall between, and none may fake or undo one of these     *)
(* (amendment.ts:505-509, 566-572).                                        *)
AuthorityIsTraced ==
    /\ \A v \in 2 .. currentVersion : \E i \in Adopted : amendments[i].candidate = v
    /\ \A i \in Adopted : amendments[i].candidate \in 2 .. currentVersion
    /\ \A i, j \in Adopted : i < j => amendments[i].candidate < amendments[j].candidate
    /\ Len(versions) <= currentVersion + 1

(* An amendment is decided once, is never applied unvalidated or after it  *)
(* was rejected, and only the newest is open.                              *)
AmendmentDecidedOnce ==
    [][\A i \in DOMAIN amendments :
          /\ i \in DOMAIN amendments'
          /\ amendments[i].state \in Decided => amendments'[i] = amendments[i]
          /\ amendments[i].state = "PROPOSED" => amendments'[i].state # "APPLIED"
          /\ i # Len(amendments) => amendments[i].state \in Decided]_vars

(* customerConfirmation.ts:5-7: consent binds to a version "so an amendment *)
(* that changes the customer-facing commitment can be detected as          *)
(* invalidating it rather than silently inheriting consent".  What a       *)
(* confirmed customer agreed to is what the booking now promises.          *)
ConsentIsNotInherited ==
    state = "CUSTOMER_CONFIRMED" =>
       \E c \in DOMAIN confirmations :
          /\ confirmations[c].status = "CONFIRMED"
          /\ versions[confirmations[c].version] = versions[currentVersion]
=============================================================================
