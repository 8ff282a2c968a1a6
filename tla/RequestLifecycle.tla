------------------------- MODULE RequestLifecycle -------------------------
(***************************************************************************)
(* One Service Request under the operational orchestrator                  *)
(* (src/src/lifecycle/orchestrator.ts).  Every handler runs with the row   *)
(* of its request locked (loadRequestForUpdate), reads and writes only     *)
(* rows that hang off that request, and commits with its action envelope;  *)
(* so a handler is one action here, and one request is the whole state.    *)
(* Requests meet only where they want the same provider at the same time:  *)
(* `busy` is what the other bookings hold of the contested window.         *)
(*                                                                         *)
(* Attempts, assignments and confirmation contexts are rows that are never *)
(* deleted: each is a sequence in version order, and a version is an index.*)
(* A call the code refuses without having written anything is a stutter;   *)
(* the one refusal that writes first (CANCEL_SERVICE) is a step.           *)
(***************************************************************************)
EXTENDS ServiceRequestStates, Naturals, Sequences

CONSTANTS
    Providers,       \* the providers of the market
    MaxAttempts,     \* bound: dispatch attempts of one request
    MaxAssignments   \* bound: assignments of one request, the first included

ASSUME BoundsAssumption ==
    MaxAttempts \in Nat \ {0} /\ MaxAssignments \in Nat \ {0}

VARIABLES
    state,           \* core_service_request.state
    currentVersion,  \* core_service_request.current_version
    judgement,       \* outcome of the newest core_request_qualification row
    eligible,        \* the customer holds the CUSTOMER role
    attempts,        \* core_dispatch_offer rows, by attempt_version
    offerElapsed,    \* the clock has passed expires_at of the newest attempt
    assignments,     \* core_assignment rows, by assignment_version
    contexts,        \* core_customer_confirmation rows, by context_version
    consentElapsed,  \* the clock has passed expires_at of the newest context
    recovery,        \* newest core_operational_recovery row
    result,          \* core_fulfillment.result
    holds,           \* this request's live holds on each provider's window
    busy,            \* providers whose window another booking holds
    approved         \* providers whose supply_status is APPROVED

vars == <<state, currentVersion, judgement, eligible, attempts, offerElapsed,
          assignments, contexts, consentElapsed, recovery, result, holds, busy,
          approved>>

dispatchVars == <<attempts, offerElapsed>>
consentVars  == <<contexts, consentElapsed>>
supplyVars   == <<busy, approved>>
demandVars   == <<judgement, eligible>>
evidence     == <<state, judgement, attempts, assignments, contexts, recovery,
                  result>>

-----------------------------------------------------------------------------
(* What the rows may say.                                                  *)

Assigned == {"OWNER_ASSIGNED", "AWAITING_CUSTOMER_CONFIRMATION",
             "CUSTOMER_CONFIRMED"}

Outcomes == {"SERVICEABLE", "CLARIFICATION_REQUIRED", "UNSERVICEABLE"}

AttemptStates == {"OFFERED", "ACCEPTED", "DECLINED", "EXPIRED"}

AssignmentStatuses == {"ACTIVE", "REPLACED", "REVOKED"}

ContextStatuses == {"PENDING", "CONFIRMED", "SUPERSEDED", "WITHDRAWN"}

Triggers == {"DISPATCH_EXPIRED", "DISPATCH_REJECTED", "PROVIDER_CAPACITY_LOST",
             "MANUAL"}

Resolutions == {"RECOVERED_WITHIN_COMMITMENT", "CANCELLED",
                "TERMINAL_UNABLE_TO_FULFILL"}

Transition(to) ==
    /\ to \in LegalTransitions[state]
    /\ state' = to

-----------------------------------------------------------------------------
(* The rows, and what the handlers read and write of them.                 *)

Attempt    == [provider : Providers, state : AttemptStates]
Assignment == [provider : Providers, attempt : 1 .. MaxAttempts,
               status : AssignmentStatuses]
Context    == [assignment : 1 .. MaxAssignments, version : Nat \ {0},
               status : ContextStatuses]

NoRecovery == [status |-> None, trigger |-> None]

(* The one attempt entitled to bind a response: the newest OFFERED row.    *)
IsCurrentAttempt(i) ==
    /\ i \in DOMAIN attempts
    /\ attempts[i].state = "OFFERED"
    /\ \A j \in DOMAIN attempts : attempts[j].state = "OFFERED" => j <= i

(* A provider's answer binds the current attempt, in time, while the       *)
(* request still waits for it.                                             *)
ResponseBinds(i) ==
    /\ IsCurrentAttempt(i)
    /\ ~offerElapsed
    /\ state = "PROVIDER_DISPATCHED"

IsActiveAssignment(a) ==
    a \in DOMAIN assignments /\ assignments[a].status = "ACTIVE"

IsLive(context) == context.status \in {"PENDING", "CONFIRMED"}

Decide(i, decision) ==
    attempts' = [attempts EXCEPT ![i].state = decision]

(* supersedeLiveContext and withdrawLiveContext: every live row moves.     *)
Ended(context, status) ==
    IF IsLive(context) THEN [context EXCEPT !.status = status] ELSE context

EndLiveContext(status) ==
    contexts' = [c \in DOMAIN contexts |-> Ended(contexts[c], status)]

EndActive(rows, status) ==
    [a \in DOMAIN rows |->
        IF rows[a].status = "ACTIVE" THEN [rows[a] EXCEPT !.status = status]
                                     ELSE rows[a]]

(* openRecovery hands back the open recovery when there is one, whatever   *)
(* it was opened for.                                                      *)
Opened(trigger) ==
    IF recovery.status = "OPEN" THEN recovery
                                ELSE [status |-> "OPEN", trigger |-> trigger]

Resolved(row, resolution) ==
    IF row.status = "OPEN" THEN [row EXCEPT !.status = resolution] ELSE row

ReleaseOnlyProvisional ==                 \* forgets committed capacity
    holds' = [p \in Providers |-> IF holds[p] = "HELD" THEN None ELSE holds[p]]

ReleaseAllCapacity == holds' = [p \in Providers |-> None]

-----------------------------------------------------------------------------
(* Deliberate faults.  Each is a plausible mistake in one definition below  *)
(* and stands in for it when we ask whether a property could fail at all.   *)

QualifyRequestAnyTime(outcome) ==         \* a judgement after it was acted on
    /\ state \notin Terminal
    /\ judgement' = outcome
    /\ eligible' = (eligible \/ outcome = "SERVICEABLE")
    /\ UNCHANGED <<state, currentVersion, dispatchVars, assignments,
                   consentVars, recovery, result, holds, supplyVars>>

ExpireDispatchDecided(i) ==               \* a late sweep overrules an answer
    /\ state \notin Terminal
    /\ offerElapsed
    /\ Decide(i, "EXPIRED")
    /\ Transition("PENDING_ACCEPTANCE")
    /\ recovery' = Resolved(Opened("DISPATCH_EXPIRED"),
                            "RECOVERED_WITHIN_COMMITMENT")
    /\ UNCHANGED <<currentVersion, demandVars, offerElapsed, assignments,
                   consentVars, result, holds, supplyVars>>

RecordProviderRejectionUndecided(i) ==    \* the offer outlives the request's move
    /\ ResponseBinds(i)
    /\ Transition("PENDING_ACCEPTANCE")
    /\ recovery' = Resolved(Opened("DISPATCH_REJECTED"),
                            "RECOVERED_WITHIN_COMMITMENT")
    /\ UNCHANGED <<currentVersion, demandVars, dispatchVars, assignments,
                   consentVars, result, holds, supplyVars>>

ReassignProviderSilently(p) ==            \* the swap is hidden from the customer
    /\ state \in Assigned
    /\ p \in approved
    /\ Len(assignments) < MaxAssignments
    /\ assignments # <<>> /\ IsActiveAssignment(Len(assignments))
    /\ assignments' = Append(EndActive(assignments, "REPLACED"),
                             [provider |-> p,
                              attempt |-> assignments[Len(assignments)].attempt,
                              status |-> "ACTIVE"])
    /\ UNCHANGED <<state, currentVersion, demandVars, dispatchVars, consentVars,
                   recovery, result, holds, supplyVars>>

ConcludeAsFound(target, allowedFrom) ==   \* records the state it started from
    /\ state \in allowedFrom
    /\ Transition(target)
    /\ result' = IF result = None THEN state ELSE result
    /\ ReleaseAllCapacity
    /\ recovery' = IF target = "UNABLE_TO_FULFILL"
                   THEN Resolved(recovery, "TERMINAL_UNABLE_TO_FULFILL")
                   ELSE recovery
    /\ UNCHANGED <<currentVersion, demandVars, dispatchVars, assignments,
                   consentVars, supplyVars>>

RecordCapacityLossAnyTime(p) ==           \* missing from MUTATING_ACTIONS
    /\ recovery' = Opened("PROVIDER_CAPACITY_LOST")
    /\ holds' = [holds EXCEPT ![p] = None]
    /\ UNCHANGED <<state, currentVersion, demandVars, dispatchVars, assignments,
                   consentVars, result, supplyVars>>

-----------------------------------------------------------------------------
Init ==
    /\ state = "PENDING_ACCEPTANCE"
    /\ currentVersion = 1
    /\ judgement = None
    /\ eligible = FALSE
    /\ attempts = <<>>
    /\ offerElapsed = FALSE
    /\ assignments = <<>>
    /\ contexts = <<>>
    /\ consentElapsed = FALSE
    /\ recovery = NoRecovery
    /\ result = None
    /\ holds = [p \in Providers |-> None]
    /\ busy = {}
    /\ approved = Providers

QualifyRequest(outcome) ==
    /\ state = "PENDING_ACCEPTANCE"
    /\ judgement' = outcome
    /\ eligible' = (eligible \/ outcome = "SERVICEABLE")
    /\ UNCHANGED <<state, currentVersion, dispatchVars, assignments,
                   consentVars, recovery, result, holds, supplyVars>>

DispatchProvider(p) ==
    /\ state = "PENDING_ACCEPTANCE"
    /\ judgement = "SERVICEABLE"
    /\ p \in approved
    /\ \A j \in DOMAIN attempts : attempts[j].state # "OFFERED"  \* uq_offer_single_live
    /\ Len(attempts) < MaxAttempts
    /\ attempts' = Append(attempts, [provider |-> p, state |-> "OFFERED"])
    /\ offerElapsed' = FALSE
    /\ Transition("PROVIDER_DISPATCHED")
    /\ UNCHANGED <<currentVersion, demandVars, assignments, consentVars,
                   recovery, result, holds, supplyVars>>

(* SYSTEM expires an open attempt.  Nothing is asked about the request but *)
(* that it is not terminal.                                                *)
ExpireDispatch(i) ==
    /\ state \notin Terminal
    /\ attempts[i].state = "OFFERED"
    /\ offerElapsed
    /\ Decide(i, "EXPIRED")
    /\ Transition("PENDING_ACCEPTANCE")
    /\ recovery' = Resolved(Opened("DISPATCH_EXPIRED"),
                            "RECOVERED_WITHIN_COMMITMENT")
    /\ UNCHANGED <<currentVersion, demandVars, offerElapsed, assignments,
                   consentVars, result, holds, supplyVars>>

RecordProviderAcceptance(i) ==
    /\ ResponseBinds(i)
    /\ Decide(i, "ACCEPTED")
    /\ Transition("PROVIDER_ACCEPTED")
    /\ UNCHANGED <<currentVersion, demandVars, offerElapsed, assignments,
                   consentVars, recovery, result, holds, supplyVars>>

RecordProviderRejection(i) ==
    /\ ResponseBinds(i)
    /\ Decide(i, "DECLINED")
    /\ Transition("PENDING_ACCEPTANCE")
    /\ recovery' = Resolved(Opened("DISPATCH_REJECTED"),
                            "RECOVERED_WITHIN_COMMITMENT")
    /\ UNCHANGED <<currentVersion, demandVars, offerElapsed, assignments,
                   consentVars, result, holds, supplyVars>>

(* The owner names any accepted attempt of the request.  The row is        *)
(* inserted as version 1, which an earlier assignment would occupy.        *)
AssignProvider(i) ==
    /\ state = "PROVIDER_ACCEPTED"
    /\ attempts[i].state = "ACCEPTED"
    /\ attempts[i].provider \in approved
    /\ assignments = <<>>
    /\ assignments' = <<[provider |-> attempts[i].provider, attempt |-> i,
                         status |-> "ACTIVE"]>>
    /\ Transition("OWNER_ASSIGNED")
    /\ UNCHANGED <<currentVersion, demandVars, dispatchVars, consentVars,
                   recovery, result, holds, supplyVars>>

(* The replacement inherits the attempt of the assignment it replaces and  *)
(* takes the version after its, which must be free.  Consent given to the  *)
(* previous assignment does not carry.                                     *)
ReassignProvider(p) ==
    /\ state \in Assigned
    /\ p \in approved
    /\ Len(assignments) < MaxAssignments
    /\ assignments # <<>> /\ IsActiveAssignment(Len(assignments))
    /\ assignments' = Append(EndActive(assignments, "REPLACED"),
                             [provider |-> p,
                              attempt |-> assignments[Len(assignments)].attempt,
                              status |-> "ACTIVE"])
    /\ EndLiveContext("SUPERSEDED")
    /\ IF state = "CUSTOMER_CONFIRMED"
       THEN Transition("AWAITING_CUSTOMER_CONFIRMATION")
       ELSE UNCHANGED state
    /\ UNCHANGED <<currentVersion, demandVars, dispatchVars, consentElapsed,
                   recovery, result, holds, supplyVars>>

RequestCustomerConfirmation ==
    /\ state = "OWNER_ASSIGNED"
    /\ \E a \in DOMAIN assignments :
         /\ IsActiveAssignment(a)
         /\ contexts' = Append([c \in DOMAIN contexts |->
                                  Ended(contexts[c], "SUPERSEDED")],
                               [assignment |-> a, version |-> currentVersion,
                                status |-> "PENDING"])
    /\ consentElapsed' = FALSE
    /\ Transition("AWAITING_CUSTOMER_CONFIRMATION")
    /\ UNCHANGED <<currentVersion, demandVars, dispatchVars, assignments,
                   recovery, result, holds, supplyVars>>

RecordCustomerConfirmation ==
    /\ state = "AWAITING_CUSTOMER_CONFIRMATION"
    /\ eligible
    /\ ~consentElapsed
    /\ \E c \in DOMAIN contexts :
         /\ contexts[c].status = "PENDING"
         /\ contexts[c].version = currentVersion
         /\ IsActiveAssignment(contexts[c].assignment)
         /\ contexts' = [contexts EXCEPT ![c].status = "CONFIRMED"]
    /\ Transition("CUSTOMER_CONFIRMED")
    /\ UNCHANGED <<currentVersion, demandVars, dispatchVars, assignments,
                   consentElapsed, recovery, result, holds, supplyVars>>

StartFulfillment ==
    /\ state = "CUSTOMER_CONFIRMED"
    /\ \E a \in DOMAIN assignments : IsActiveAssignment(a)
    /\ Transition("FULFILLMENT_ACTIVE")
    /\ UNCHANGED <<currentVersion, demandVars, dispatchVars, assignments,
                   consentVars, recovery, result, holds, supplyVars>>

(* terminalResult: the live assignment and the live context stay as they   *)
(* are, and an open recovery is closed only when the work is given up.     *)
Conclude(target, allowedFrom) ==
    /\ state \in allowedFrom
    /\ Transition(target)
    /\ result' = IF result = None THEN target ELSE result
    /\ ReleaseAllCapacity
    /\ recovery' = IF target = "UNABLE_TO_FULFILL"
                   THEN Resolved(recovery, "TERMINAL_UNABLE_TO_FULFILL")
                   ELSE recovery
    /\ UNCHANGED <<currentVersion, demandVars, dispatchVars, assignments,
                   consentVars, supplyVars>>

CompleteService == Conclude("SERVICE_COMPLETED", {"FULFILLMENT_ACTIVE"})

MarkNoShow == Conclude("NO_SHOW", {"CUSTOMER_CONFIRMED", "FULFILLMENT_ACTIVE"})

MarkUnableToFulfill ==
    Conclude("UNABLE_TO_FULFILL",
             RequestStates \ (Terminal \union {"PROVIDER_DISPATCHED"}))

(* Context, assignment and capacity go first; only then is the transition  *)
(* asked for.  Where the graph has no edge to CANCELLED the call is        *)
(* refused, and what was already written is committed with the refusal.    *)
CancelService ==
    /\ state \notin Terminal
    /\ EndLiveContext("WITHDRAWN")
    /\ assignments' = EndActive(assignments, "REVOKED")
    /\ ReleaseAllCapacity
    /\ \/ /\ Transition("CANCELLED")
          /\ recovery' = Resolved(recovery, "CANCELLED")
       \/ /\ "CANCELLED" \notin LegalTransitions[state]
          /\ UNCHANGED <<state, recovery>>
    /\ UNCHANGED <<currentVersion, demandVars, dispatchVars, consentElapsed,
                   result, supplyVars>>

(* The commitment is not erased: only that provider's holds go.            *)
RecordCapacityLoss(p) ==
    /\ state \notin Terminal
    /\ recovery' = Opened("PROVIDER_CAPACITY_LOST")
    /\ holds' = [holds EXCEPT ![p] = None]
    /\ UNCHANGED <<state, currentVersion, demandVars, dispatchVars, assignments,
                   consentVars, result, supplyVars>>

InitiateOperationalRecovery ==
    /\ state \notin Terminal
    /\ recovery' = Opened("MANUAL")
    /\ UNCHANGED <<state, currentVersion, demandVars, dispatchVars, assignments,
                   consentVars, result, holds, supplyVars>>

-----------------------------------------------------------------------------
(* Capacity for the request, taken and committed by the booking flow        *)
(* (holdCapacity, commitCapacity, which ask nothing about the request); the *)
(* exclusion constraint keeps another booking's live hold from this one's.  *)

HoldCapacity(p) ==
    /\ holds[p] = None /\ p \notin busy
    /\ holds' = [holds EXCEPT ![p] = "HELD"]
    /\ UNCHANGED <<state, currentVersion, demandVars, dispatchVars, assignments,
                   consentVars, recovery, result, supplyVars>>

CommitCapacity(p) ==
    /\ holds[p] = "HELD"
    /\ holds' = [holds EXCEPT ![p] = "COMMITTED"]
    /\ UNCHANGED <<state, currentVersion, demandVars, dispatchVars, assignments,
                   consentVars, recovery, result, supplyVars>>

RivalTakesWindow(p) ==
    /\ holds[p] = None /\ p \notin busy
    /\ busy' = busy \union {p}
    /\ UNCHANGED <<state, currentVersion, demandVars, dispatchVars, assignments,
                   consentVars, recovery, result, holds, approved>>

RivalFreesWindow(p) ==
    /\ p \in busy
    /\ busy' = busy \ {p}
    /\ UNCHANGED <<state, currentVersion, demandVars, dispatchVars, assignments,
                   consentVars, recovery, result, holds, approved>>

(* The provider's standing changes behind the request's back: an operator  *)
(* suspends it, an owner approves it (approveProviderSupply).              *)
SuspendProvider(p) ==
    /\ p \in approved
    /\ approved' = approved \ {p}
    /\ UNCHANGED <<state, currentVersion, demandVars, dispatchVars, assignments,
                   consentVars, recovery, result, holds, busy>>

ApproveProviderSupply(p) ==
    /\ approved' = approved \union {p}
    /\ UNCHANGED <<state, currentVersion, demandVars, dispatchVars, assignments,
                   consentVars, recovery, result, holds, busy>>

(* effectiveAt passes the expiry of the open offer, or of the context.     *)
AcceptanceWindowCloses ==
    /\ ~offerElapsed /\ attempts # <<>>
    /\ offerElapsed' = TRUE
    /\ UNCHANGED <<state, currentVersion, demandVars, attempts, assignments,
                   consentVars, recovery, result, holds, supplyVars>>

ConfirmationWindowCloses ==
    /\ ~consentElapsed /\ contexts # <<>>
    /\ consentElapsed' = TRUE
    /\ UNCHANGED <<state, currentVersion, demandVars, dispatchVars, assignments,
                   contexts, recovery, result, holds, supplyVars>>

-----------------------------------------------------------------------------
Response(i) ==
    \/ ExpireDispatch(i)
    \/ RecordProviderAcceptance(i)
    \/ RecordProviderRejection(i)
    \/ AssignProvider(i)

OwnerAct ==
    \/ \E outcome \in Outcomes : QualifyRequest(outcome)
    \/ \E p \in Providers : DispatchProvider(p) \/ ReassignProvider(p)
    \/ RequestCustomerConfirmation
    \/ StartFulfillment
    \/ CompleteService
    \/ MarkNoShow
    \/ MarkUnableToFulfill
    \/ CancelService
    \/ \E p \in Providers : RecordCapacityLoss(p)
    \/ InitiateOperationalRecovery

Surroundings ==
    \/ \E p \in Providers :
          \/ HoldCapacity(p) \/ CommitCapacity(p)
          \/ RivalTakesWindow(p) \/ RivalFreesWindow(p)
          \/ SuspendProvider(p) \/ ApproveProviderSupply(p)
    \/ AcceptanceWindowCloses
    \/ ConfirmationWindowCloses

Next ==
    \/ OwnerAct
    \/ RecordCustomerConfirmation
    \/ \E i \in DOMAIN attempts : Response(i)
    \/ Surroundings

Spec == Init /\ [][Next]_vars

-----------------------------------------------------------------------------
(* Correctness.                                                            *)

(* Every variable keeps its type, whatever the handlers do.                *)
TypeOK ==
    /\ state \in RequestStates
    /\ currentVersion \in Nat \ {0}
    /\ judgement \in Outcomes \union {None}
    /\ eligible \in BOOLEAN
    /\ attempts \in Seq(Attempt) /\ Len(attempts) <= MaxAttempts
    /\ offerElapsed \in BOOLEAN
    /\ assignments \in Seq(Assignment) /\ Len(assignments) <= MaxAssignments
    /\ contexts \in Seq(Context)
    /\ consentElapsed \in BOOLEAN
    /\ recovery \in [status : Resolutions \union {"OPEN", None},
                     trigger : Triggers \union {None}]
    /\ result \in Results \union {None}
    /\ holds \in [Providers -> {None, "HELD", "COMMITTED"}]
    /\ busy \subseteq Providers
    /\ approved \subseteq Providers

(* An offer is open exactly while the request waits for a provider, and it *)
(* is the newest attempt; only a cancellation may leave one behind.  So an *)
(* answer or an expiry that finds an OFFERED row finds the state it needs, *)
(* and openAttempt never meets uq_offer_single_live.                       *)
OfferMatchesRequest ==
    /\ \A i \in DOMAIN attempts :
          attempts[i].state = "OFFERED" =>
             /\ i = Len(attempts)
             /\ state \in {"PROVIDER_DISPATCHED", "CANCELLED"}
    /\ state = "PROVIDER_DISPATCHED" =>
          attempts # <<>> /\ attempts[Len(attempts)].state = "OFFERED"

(* Work is put in a provider's hands only downstream of the owner's        *)
(* SERVICEABLE judgement, by one acceptance that is never given twice and  *)
(* never lost, and every assignment traces back to it (orchestrator:       *)
(* "provider acceptance -> owner assignment -> customer confirmation").    *)
AuthorityChain ==
    /\ state \notin {"PENDING_ACCEPTANCE", "CANCELLED", "UNABLE_TO_FULFILL"} =>
          judgement = "SERVICEABLE" /\ eligible
    /\ judgement = "SERVICEABLE" => eligible
    /\ state \in {"PENDING_ACCEPTANCE", "PROVIDER_DISPATCHED"} =>
          \A i \in DOMAIN attempts : attempts[i].state # "ACCEPTED"
    /\ \A i, j \in DOMAIN attempts :
          attempts[i].state = "ACCEPTED" /\ attempts[j].state = "ACCEPTED" => i = j
    /\ \A a \in DOMAIN assignments :
          /\ assignments[a].attempt \in DOMAIN attempts
          /\ attempts[assignments[a].attempt].state = "ACCEPTED"
    /\ \A a \in DOMAIN assignments : IsActiveAssignment(a) => a = Len(assignments)
    /\ state \in Assigned =>
          assignments # <<>> /\ IsActiveAssignment(Len(assignments))

(* At most one context is live, and a request that reads CUSTOMER_CONFIRMED *)
(* has one that is CONFIRMED, bound to the assignment that is active and   *)
(* to the version that is authoritative.                                   *)
ConsentIsCurrent ==
    /\ \A c, d \in DOMAIN contexts :
          IsLive(contexts[c]) /\ IsLive(contexts[d]) => c = d
    /\ state = "CUSTOMER_CONFIRMED" =>
          \E c \in DOMAIN contexts :
             /\ contexts[c].status = "CONFIRMED"
             /\ contexts[c].version = currentVersion
             /\ IsActiveAssignment(contexts[c].assignment)

(* Service that was begun, done, or missed by the customer had been agreed *)
(* to with the last provider assigned; the consent is withdrawn, if at     *)
(* all, by a cancellation that came too late to end the request.           *)
ServiceWasAgreed ==
    state \in {"FULFILLMENT_ACTIVE", "SERVICE_COMPLETED", "NO_SHOW"} =>
       \E c \in DOMAIN contexts :
          /\ contexts[c].status \in {"CONFIRMED", "WITHDRAWN"}
          /\ contexts[c].version = currentVersion
          /\ contexts[c].assignment = Len(assignments)

(* From the customer's confirmation to the last state of the service, the  *)
(* request rests on a consent that is about what is delivered, by whom and *)
(* on which terms (confirmationContext.ts: "the customer agreed to THIS"). *)
ConfirmedUnderConsent == ConsentIsCurrent /\ ServiceWasAgreed

(* A request that has ended carries the result its state names and no      *)
(* other, and one that was cancelled or given up leaves no recovery open,  *)
(* however many were opened on the way.                                    *)
ConclusionIsClean ==
    /\ result = IF state \in Results THEN state ELSE None
    /\ state \in {"CANCELLED", "UNABLE_TO_FULFILL"} => recovery.status # "OPEN"

(* Where a question can be put to the customer for the first time.         *)
Unasked == {"PENDING_ACCEPTANCE", "PROVIDER_DISPATCHED", "PROVIDER_ACCEPTED",
            "OWNER_ASSIGNED"}

(* A request asks for consent once: the context there is is the only one.  *)
AskedOnce == \A c \in DOMAIN contexts : c = 1 /\ state \notin Unasked

(* The request awaits its customer, whose window has closed or whose       *)
(* question was withdrawn when the provider was replaced.                  *)
Unanswerable ==
    /\ state = "AWAITING_CUSTOMER_CONFIRMATION"
    /\ consentElapsed \/ \A c \in DOMAIN contexts : contexts[c].status # "PENDING"

(* What is over stays over.  A terminal request is never reopened and no   *)
(* evidence about it moves; and a question that cannot be answered any     *)
(* more is never put again, nor answered, whoever acts in whatever order:  *)
(* the request can only be cancelled or given up (REQUEST_CUSTOMER_        *)
(* CONFIRMATION is accepted from OWNER_ASSIGNED alone,                     *)
(* orchestrator.ts:872, and nothing leads back there).                     *)
NothingComesBack ==
    [][/\ state \in Terminal => UNCHANGED evidence
       /\ Unanswerable => Unanswerable' \/ state' \in {"CANCELLED", "UNABLE_TO_FULFILL"}
      ]_vars

(* Ending a request, by any of the four ways and from any state, gives     *)
(* back every provider's time it held, provisional or committed.           *)
EndingFreesCapacity ==
    [][state \notin Terminal /\ state' \in Terminal =>
          \A p \in Providers : holds'[p] = None]_vars

(* Rows only accumulate, what was decided stays decided, and who, what and *)
(* which version a row was about never changes: operational history can be *)
(* reconstructed from the tables.                                          *)
EvidenceIsAppendOnly ==
    [][/\ \A i \in DOMAIN attempts :
             /\ i \in DOMAIN attempts'
             /\ attempts'[i].provider = attempts[i].provider
             /\ attempts[i].state # "OFFERED" => attempts'[i] = attempts[i]
       /\ \A a \in DOMAIN assignments :
             /\ a \in DOMAIN assignments'
             /\ assignments'[a].provider = assignments[a].provider
             /\ assignments[a].status # "ACTIVE" =>
                   assignments'[a] = assignments[a]
       /\ \A c \in DOMAIN contexts :
             /\ c \in DOMAIN contexts'
             /\ contexts'[c].assignment = contexts[c].assignment
             /\ contexts'[c].version = contexts[c].version
             /\ ~IsLive(contexts[c]) => contexts'[c] = contexts[c]
             /\ contexts[c].status = "CONFIRMED" =>
                   contexts'[c].status # "PENDING"]_vars

(* orchestrator.ts:155-157: "either the canonical change, its evidence and *)
(* its audit all land, or none of it does".  Said of cancellation: the     *)
(* assignment is revoked and consent withdrawn only if the request really  *)
(* becomes CANCELLED.                                                      *)
CancellationIsAllOrNothing ==
    [][(\E a \in DOMAIN assignments :
           /\ assignments[a].status = "ACTIVE"
           /\ assignments'[a].status = "REVOKED") => state' = "CANCELLED"]_vars
=============================================================================
