----------------------- MODULE RequestSafetyProofs -----------------------
(***************************************************************************)
(* The safety invariants of one request, for any set of providers and any  *)
(* bounds.  Each builds on the ones before it:                             *)
(*   TypeOK -> OfferMatchesRequest -> AuthorityChain -> ConfirmedUnderConsent *)
(* while ConclusionIsClean needs types alone.                              *)
(***************************************************************************)
EXTENDS RequestLifecycleProofs

-----------------------------------------------------------------------------
(* How a request ends.                                                     *)

(* Opening a recovery leaves it open; resolving one leaves it closed.      *)
LEMMA RecoveryStatus ==
    ASSUME TypeOK, NEW trigger \in Triggers, NEW resolution \in Resolutions
    PROVE  /\ Resolved(recovery, resolution).status # "OPEN"
           /\ Resolved(Opened(trigger), resolution).status # "OPEN"
BY DEF TypeOK, Opened, Resolved, Resolutions, None

(* The graph has no way out of a terminal state.                           *)
LEMMA NoExit ==
    ASSUME NEW to, Transition(to)
    PROVE  state \in RequestStates => state \notin Terminal /\ to \in RequestStates
BY DEF Transition, Terminal, RequestStates, LegalTransitions

LEMMA ConclusionStep == TypeOK /\ ConclusionIsClean /\ [Next]_vars => ConclusionIsClean'
<1> SUFFICES ASSUME TypeOK, ConclusionIsClean, [Next]_vars
             PROVE  ConclusionIsClean'
  OBVIOUS
<1> USE DEF ConclusionIsClean, Results, None
<1>1. ASSUME NEW outcome \in Outcomes, QualifyRequest(outcome)
      PROVE  ConclusionIsClean'
  BY <1>1 DEF QualifyRequest
<1>2. ASSUME NEW p \in Providers, DispatchProvider(p) PROVE ConclusionIsClean'
  BY <1>2 DEF DispatchProvider, Transition
<1>3. ASSUME NEW p \in Providers, ReassignProvider(p) PROVE ConclusionIsClean'
  BY <1>3 DEF ReassignProvider, Transition, Assigned
<1>4. CASE RequestCustomerConfirmation
  BY <1>4 DEF RequestCustomerConfirmation, Transition
<1>5. CASE RecordCustomerConfirmation
  BY <1>5 DEF RecordCustomerConfirmation, Transition
<1>6. CASE StartFulfillment
  BY <1>6 DEF StartFulfillment, Transition
<1>7. ASSUME NEW target \in Results, NEW from, Conclude(target, from)
      PROVE  ConclusionIsClean'
  <2>1. state \notin Terminal
    BY <1>7, NoExit DEF Conclude, TypeOK
  <2>2. result = "NONE" /\ result' = target /\ state' = target
    BY <1>7, <2>1 DEF Conclude, Transition, Terminal
  <2>3. target = "UNABLE_TO_FULFILL" => recovery'.status # "OPEN"
    BY <1>7, RecoveryStatus DEF Conclude, Resolutions, Triggers
  <2> QED
    BY <2>2, <2>3
<1>8. CASE CancelService
  <2>1. state \notin Terminal /\ result' = result
    BY <1>8 DEF CancelService
  <2>2. CASE Transition("CANCELLED") /\ recovery' = Resolved(recovery, "CANCELLED")
    <3>1. recovery'.status # "OPEN"
      BY <2>2, RecoveryStatus DEF Resolutions, Triggers
    <3> QED
      BY <2>1, <2>2, <3>1 DEF Transition, Terminal
  <2>3. CASE UNCHANGED <<state, recovery>>
    BY <2>1, <2>3
  <2> QED
    BY <1>8, <2>2, <2>3 DEF CancelService
<1>9. ASSUME NEW p \in Providers, RecordCapacityLoss(p) PROVE ConclusionIsClean'
  BY <1>9 DEF RecordCapacityLoss, Terminal
<1>10. CASE InitiateOperationalRecovery
  BY <1>10 DEF InitiateOperationalRecovery, Terminal
<1>11. ASSUME NEW i \in DOMAIN attempts, Response(i) PROVE ConclusionIsClean'
  BY <1>11, NoExit
  DEF Response, ExpireDispatch, RecordProviderAcceptance, RecordProviderRejection,
      AssignProvider, Transition, ResponseBinds, Terminal, TypeOK
<1>12. CASE Surroundings
  BY <1>12
  DEF Surroundings, HoldCapacity, CommitCapacity, RivalTakesWindow,
      RivalFreesWindow, SuspendProvider, ApproveProviderSupply,
      AcceptanceWindowCloses, ConfirmationWindowCloses
<1>13. CASE UNCHANGED vars
  BY <1>13 DEF vars
<1> QED
  BY <1>1, <1>2, <1>3, <1>4, <1>5, <1>6, <1>7, <1>8, <1>9, <1>10, <1>11,
     <1>12, <1>13
  DEF Next, OwnerAct, CompleteService, MarkNoShow, MarkUnableToFulfill

(* However a request ends, its result is the one its state names, and a    *)
(* cancelled or given-up request leaves no recovery open.                  *)
THEOREM ConclusionAlwaysClean == Spec => []ConclusionIsClean
<1>1. Init => ConclusionIsClean
  BY DEF Init, ConclusionIsClean, Results, None, NoRecovery
<1> QED
  BY <1>1, ConclusionStep, TypeCorrect, PTL DEF Spec

-----------------------------------------------------------------------------
(* Offers.  An action outside the dispatch protocol leaves the attempts    *)
(* alone and keeps away from PROVIDER_DISPATCHED.                          *)

LEMMA OfferFrame ==
    ASSUME OfferMatchesRequest, UNCHANGED attempts,
           \/ UNCHANGED state
           \/ state' = "CANCELLED"
           \/ /\ state \notin {"PROVIDER_DISPATCHED", "CANCELLED"}
              /\ state' # "PROVIDER_DISPATCHED"
    PROVE  OfferMatchesRequest'
BY DEF OfferMatchesRequest

(* Deciding the one open offer ends the dispatch.                          *)
LEMMA OfferDecided ==
    ASSUME TypeOK, OfferMatchesRequest, state \notin Terminal,
           NEW i \in DOMAIN attempts, attempts[i].state = "OFFERED",
           NEW decision \in AttemptStates \ {"OFFERED"}, Decide(i, decision),
           state' # "PROVIDER_DISPATCHED"
    PROVE  OfferMatchesRequest'
<1>1. i = Len(attempts)
  BY DEF OfferMatchesRequest
<1>2. /\ DOMAIN attempts' = DOMAIN attempts
      /\ attempts'[i].state = decision
      /\ \A j \in DOMAIN attempts : j # i => attempts'[j] = attempts[j]
  BY DecideRows DEF Decide, TypeOK
<1>3. \A j \in DOMAIN attempts' : attempts'[j].state # "OFFERED"
  BY <1>1, <1>2 DEF OfferMatchesRequest
<1> QED
  BY <1>3 DEF OfferMatchesRequest

LEMMA OfferStep ==
    TypeOK /\ OfferMatchesRequest /\ [Next]_vars => OfferMatchesRequest'
<1> SUFFICES ASSUME TypeOK, OfferMatchesRequest, [Next]_vars
             PROVE  OfferMatchesRequest'
  OBVIOUS
<1>1. ASSUME NEW outcome \in Outcomes, QualifyRequest(outcome)
      PROVE  OfferMatchesRequest'
  BY <1>1, OfferFrame DEF QualifyRequest, dispatchVars
<1>2. ASSUME NEW p \in Providers, DispatchProvider(p) PROVE OfferMatchesRequest'
  <2> DEFINE offer == [provider |-> p, state |-> "OFFERED"]
  <2>1. offer \in Attempt /\ attempts' = Append(attempts, offer)
    BY <1>2 DEF DispatchProvider, Attempt, AttemptStates
  <2>2. /\ Len(attempts') = Len(attempts) + 1
        /\ DOMAIN attempts' = 1 .. Len(attempts) + 1
        /\ attempts'[Len(attempts) + 1] = offer
        /\ \A j \in 1 .. Len(attempts) : attempts'[j] = attempts[j]
    BY <2>1, AppendProperties, LenProperties DEF TypeOK
  <2>3. DOMAIN attempts = 1 .. Len(attempts) /\ Len(attempts) \in Nat
    BY LenProperties DEF TypeOK
  <2>4. \A j \in DOMAIN attempts' :
           attempts'[j].state = "OFFERED" => j = Len(attempts')
    BY <1>2, <2>2, <2>3 DEF DispatchProvider
  <2>5. state' = "PROVIDER_DISPATCHED" /\ attempts' # <<>>
    <3>1. state' = "PROVIDER_DISPATCHED"
      BY <1>2 DEF DispatchProvider, Transition
    <3>2. attempts' # <<>>
      BY <2>1, AppendProperties DEF TypeOK
    <3> QED
      BY <3>1, <3>2
  <2>6. attempts'[Len(attempts')].state = "OFFERED"
    BY <2>2
  <2> QED
    BY <2>4, <2>5, <2>6 DEF OfferMatchesRequest
<1>3. ASSUME NEW p \in Providers, ReassignProvider(p) PROVE OfferMatchesRequest'
  BY <1>3, OfferFrame DEF ReassignProvider, Transition, Assigned, dispatchVars
<1>4. CASE RequestCustomerConfirmation
  BY <1>4, OfferFrame DEF RequestCustomerConfirmation, Transition, dispatchVars
<1>5. CASE RecordCustomerConfirmation
  BY <1>5, OfferFrame DEF RecordCustomerConfirmation, Transition, dispatchVars
<1>6. CASE StartFulfillment
  BY <1>6, OfferFrame DEF StartFulfillment, Transition, dispatchVars
<1>7. ASSUME NEW target \in Results, NEW from, Conclude(target, from),
             "PROVIDER_DISPATCHED" \notin from
      PROVE  OfferMatchesRequest'
  <2>1. state \notin Terminal /\ state # "PROVIDER_DISPATCHED" /\ state' = target
    BY <1>7, NoExit DEF Conclude, Transition, TypeOK
  <2>2. UNCHANGED attempts
    BY <1>7 DEF Conclude, dispatchVars
  <2>3. state # "CANCELLED" /\ state' # "PROVIDER_DISPATCHED"
    BY <2>1 DEF Results, Terminal
  <2> QED
    BY <2>1, <2>2, <2>3, OfferFrame
<1>8. CASE CancelService
  BY <1>8, OfferFrame DEF CancelService, Transition, dispatchVars
<1>9. ASSUME NEW p \in Providers, RecordCapacityLoss(p) PROVE OfferMatchesRequest'
  BY <1>9, OfferFrame DEF RecordCapacityLoss, dispatchVars
<1>10. CASE InitiateOperationalRecovery
  BY <1>10, OfferFrame DEF InitiateOperationalRecovery, dispatchVars
<1>11. ASSUME NEW i \in DOMAIN attempts, Response(i) PROVE OfferMatchesRequest'
  <2>1. CASE ExpireDispatch(i)
    BY <2>1, OfferDecided DEF ExpireDispatch, Transition, AttemptStates
  <2>2. CASE RecordProviderAcceptance(i)
    BY <2>2, OfferDecided
    DEF RecordProviderAcceptance, ResponseBinds, IsCurrentAttempt, Transition,
        AttemptStates, Terminal
  <2>3. CASE RecordProviderRejection(i)
    BY <2>3, OfferDecided
    DEF RecordProviderRejection, ResponseBinds, IsCurrentAttempt, Transition,
        AttemptStates, Terminal
  <2>4. CASE AssignProvider(i)
    BY <2>4, OfferFrame DEF AssignProvider, Transition, dispatchVars
  <2> QED
    BY <1>11, <2>1, <2>2, <2>3, <2>4 DEF Response
<1>12. CASE Surroundings
  BY <1>12, OfferFrame
  DEF Surroundings, HoldCapacity, CommitCapacity, RivalTakesWindow,
      RivalFreesWindow, SuspendProvider, ApproveProviderSupply,
      AcceptanceWindowCloses, ConfirmationWindowCloses, dispatchVars
<1>13. CASE UNCHANGED vars
  BY <1>13, OfferFrame DEF vars
<1> QED
  BY <1>1, <1>2, <1>3, <1>4, <1>5, <1>6, <1>7, <1>8, <1>9, <1>10, <1>11,
     <1>12, <1>13
  DEF Next, OwnerAct, CompleteService, MarkNoShow, MarkUnableToFulfill, Results,
      Terminal

(* An offer is open exactly while the request waits for a provider's       *)
(* answer, and only the newest attempt is ever open.                       *)
THEOREM OfferAlwaysMatches == Spec => []OfferMatchesRequest
<1>1. Init => OfferMatchesRequest
  BY DEF Init, OfferMatchesRequest
<1> QED
  BY <1>1, OfferStep, TypeCorrect, PTL DEF Spec

-----------------------------------------------------------------------------
(* Authority.  Steps that touch neither the judgement, the attempts nor    *)
(* the assignments only move the request down the chain, or out of it.     *)

LEMMA AuthorityFrame ==
    ASSUME AuthorityChain, UNCHANGED <<attempts, assignments, demandVars>>,
           \/ UNCHANGED state
           \/ /\ state' \notin {"PENDING_ACCEPTANCE", "PROVIDER_DISPATCHED"}
              /\ state' \in Assigned => state \in Assigned
              /\ \/ state' \in {"CANCELLED", "UNABLE_TO_FULFILL"}
                 \/ state \notin {"PENDING_ACCEPTANCE", "CANCELLED",
                                  "UNABLE_TO_FULFILL"}
    PROVE  AuthorityChain'
BY DEF AuthorityChain, IsActiveAssignment, Assigned, demandVars

(* The answer to the open offer, or its expiry: no acceptance was on record *)
(* while it was open, so at most this one is now.                          *)
LEMMA AuthorityDecided ==
    ASSUME TypeOK, AuthorityChain, state = "PROVIDER_DISPATCHED",
           NEW i \in DOMAIN attempts, NEW decision \in AttemptStates,
           Decide(i, decision), UNCHANGED <<assignments, demandVars>>,
           \/ state' = "PROVIDER_ACCEPTED"
           \/ state' = "PENDING_ACCEPTANCE" /\ decision # "ACCEPTED"
    PROVE  AuthorityChain'
<1>1. /\ DOMAIN attempts' = DOMAIN attempts
      /\ attempts'[i].state = decision
      /\ \A j \in DOMAIN attempts : j # i => attempts'[j] = attempts[j]
  BY DecideRows DEF Decide, TypeOK
<1>2. \A j \in DOMAIN attempts : attempts[j].state # "ACCEPTED"
  BY DEF AuthorityChain
<1>3. \A j \in DOMAIN attempts' :
         attempts'[j].state = "ACCEPTED" => j = i /\ decision = "ACCEPTED"
  BY <1>1, <1>2
<1>4. DOMAIN assignments = {}
  BY <1>2 DEF AuthorityChain
<1>5. judgement = "SERVICEABLE" /\ eligible
  BY DEF AuthorityChain
<1> QED
  BY <1>3, <1>4, <1>5 DEF AuthorityChain, Assigned, demandVars

(* Only work under way cannot be cancelled.                                *)
LEMMA OnlyActiveWorkResists ==
    ASSUME state \in RequestStates, state \notin Terminal,
           "CANCELLED" \notin LegalTransitions[state]
    PROVE  state = "FULFILLMENT_ACTIVE"
BY DEF RequestStates, LegalTransitions, Terminal

LEMMA AuthorityStep ==
    TypeOK /\ OfferMatchesRequest /\ AuthorityChain /\ [Next]_vars
       => AuthorityChain'
<1> SUFFICES ASSUME TypeOK, OfferMatchesRequest, AuthorityChain, [Next]_vars
             PROVE  AuthorityChain'
  OBVIOUS
<1>1. ASSUME NEW outcome \in Outcomes, QualifyRequest(outcome)
      PROVE  AuthorityChain'
  BY <1>1
  DEF QualifyRequest, AuthorityChain, IsActiveAssignment, Assigned, dispatchVars
<1>2. ASSUME NEW p \in Providers, DispatchProvider(p) PROVE AuthorityChain'
  <2> DEFINE offer == [provider |-> p, state |-> "OFFERED"]
  <2>1. offer \in Attempt /\ attempts' = Append(attempts, offer)
    BY <1>2 DEF DispatchProvider, Attempt, AttemptStates
  <2>2. /\ DOMAIN attempts' = 1 .. Len(attempts) + 1
        /\ attempts'[Len(attempts) + 1].state = "OFFERED"
        /\ \A j \in 1 .. Len(attempts) : attempts'[j] = attempts[j]
    BY <2>1, AppendProperties, LenProperties DEF TypeOK
  <2>3. DOMAIN attempts = 1 .. Len(attempts) /\ Len(attempts) \in Nat
    BY LenProperties DEF TypeOK
  <2>4. /\ state = "PENDING_ACCEPTANCE" /\ state' = "PROVIDER_DISPATCHED"
        /\ judgement = "SERVICEABLE" /\ UNCHANGED <<judgement, eligible>>
        /\ UNCHANGED assignments
    BY <1>2 DEF DispatchProvider, Transition, demandVars
  <2>5. \A j \in DOMAIN attempts' : attempts'[j].state # "ACCEPTED"
    BY <2>2, <2>3, <2>4 DEF AuthorityChain
  <2>6. DOMAIN assignments = {}
    BY <2>4 DEF AuthorityChain
  <2> QED
    BY <2>4, <2>5, <2>6 DEF AuthorityChain, Assigned
<1>3. ASSUME NEW p \in Providers, ReassignProvider(p) PROVE AuthorityChain'
  <2> DEFINE n == Len(assignments)
             ended == EndActive(assignments, "REPLACED")
             heir == [provider |-> p, attempt |-> assignments[n].attempt,
                      status |-> "ACTIVE"]
  <2>1. n \in DOMAIN assignments /\ DOMAIN assignments = 1 .. n /\ n \in Nat
    BY <1>3, LenProperties DEF ReassignProvider, IsActiveAssignment, TypeOK
  <2>2. /\ ended \in Seq(Assignment) /\ Len(ended) = n
        /\ \A a \in 1 .. n : /\ ended[a].attempt = assignments[a].attempt
                             /\ ended[a].status # "ACTIVE"
    BY <2>1, EndActiveRows DEF TypeOK
  <2>3. assignments[n] \in Assignment
    BY <2>1, ElementOfSeq DEF TypeOK
  <2>4. heir \in Assignment
    BY <2>3 DEF Assignment, AssignmentStatuses
  <2>5. assignments' = Append(ended, heir)
    BY <1>3 DEF ReassignProvider
  <2>6. /\ assignments' # <<>> /\ Len(assignments') = n + 1
        /\ DOMAIN assignments' = 1 .. n + 1
        /\ assignments'[n + 1] = heir
        /\ \A a \in 1 .. n : assignments'[a] = ended[a]
    BY <2>2, <2>4, <2>5, AppendProperties, LenProperties
  <2>7. \A a \in DOMAIN assignments' : IsActiveAssignment(a)' => a = n + 1
    BY <2>1, <2>2, <2>6 DEF IsActiveAssignment
  <2>8. IsActiveAssignment(Len(assignments))'
    BY <2>1, <2>6 DEF IsActiveAssignment
  <2>9. \A a \in DOMAIN assignments' :
           /\ assignments'[a].attempt \in DOMAIN attempts
           /\ attempts[assignments'[a].attempt].state = "ACCEPTED"
    BY <2>1, <2>2, <2>6 DEF AuthorityChain
  <2>10. state \in Assigned /\ state' \in Assigned
         /\ UNCHANGED <<attempts, judgement, eligible>>
    BY <1>3 DEF ReassignProvider, Transition, Assigned, demandVars, dispatchVars
  <2> HIDE DEF heir, ended, n
  <2> QED
    BY <2>6, <2>7, <2>8, <2>9, <2>10 DEF AuthorityChain, Assigned
<1>4. CASE RequestCustomerConfirmation
  BY <1>4, AuthorityFrame
  DEF RequestCustomerConfirmation, Transition, Assigned, dispatchVars
<1>5. CASE RecordCustomerConfirmation
  BY <1>5, AuthorityFrame
  DEF RecordCustomerConfirmation, Transition, Assigned, dispatchVars
<1>6. CASE StartFulfillment
  BY <1>6, AuthorityFrame DEF StartFulfillment, Transition, Assigned, dispatchVars
<1>7. ASSUME NEW target \in Results, NEW from, Conclude(target, from),
             target # "UNABLE_TO_FULFILL" => "PENDING_ACCEPTANCE" \notin from
      PROVE  AuthorityChain'
  <2>1. /\ state \notin Terminal /\ state' = target
        /\ target # "UNABLE_TO_FULFILL" => state # "PENDING_ACCEPTANCE"
    BY <1>7, NoExit DEF Conclude, Transition, TypeOK
  <2>2. UNCHANGED <<attempts, assignments, demandVars>>
    BY <1>7 DEF Conclude, dispatchVars
  <2> QED
    BY <2>1, <2>2, AuthorityFrame DEF Results, Terminal, Assigned
<1>8. CASE CancelService
  <2>1. \/ state' = "CANCELLED"
        \/ state' = state /\ state = "FULFILLMENT_ACTIVE"
    BY <1>8, OnlyActiveWorkResists DEF CancelService, Transition, TypeOK
  <2>2. /\ DOMAIN assignments' = DOMAIN assignments
        /\ \A a \in DOMAIN assignments :
              /\ assignments'[a].attempt = assignments[a].attempt
              /\ assignments'[a].status # "ACTIVE"
    BY <1>8, EndActiveRows DEF CancelService, TypeOK
  <2>3. UNCHANGED <<attempts, judgement, eligible>>
    BY <1>8 DEF CancelService, demandVars, dispatchVars
  <2>4. \A a \in DOMAIN assignments' : ~IsActiveAssignment(a)'
    BY <2>2 DEF IsActiveAssignment
  <2>5. \A a \in DOMAIN assignments' :
           /\ assignments'[a].attempt \in DOMAIN attempts'
           /\ attempts'[assignments'[a].attempt].state = "ACCEPTED"
    BY <2>2, <2>3 DEF AuthorityChain
  <2>6. state' \notin Assigned \union {"PENDING_ACCEPTANCE", "PROVIDER_DISPATCHED"}
    BY <2>1 DEF Assigned
  <2> QED
    BY <2>1, <2>3, <2>4, <2>5, <2>6 DEF AuthorityChain
<1>9. ASSUME NEW p \in Providers, RecordCapacityLoss(p) PROVE AuthorityChain'
  BY <1>9, AuthorityFrame DEF RecordCapacityLoss, dispatchVars
<1>10. CASE InitiateOperationalRecovery
  BY <1>10, AuthorityFrame DEF InitiateOperationalRecovery, dispatchVars
<1>11. ASSUME NEW i \in DOMAIN attempts, Response(i) PROVE AuthorityChain'
  <2>1. CASE ExpireDispatch(i)
    <3>1. state = "PROVIDER_DISPATCHED"
      BY <2>1 DEF ExpireDispatch, OfferMatchesRequest, Terminal
    <3> QED
      BY <2>1, <3>1, AuthorityDecided DEF ExpireDispatch, Transition, AttemptStates
  <2>2. CASE RecordProviderAcceptance(i)
    BY <2>2, AuthorityDecided
    DEF RecordProviderAcceptance, ResponseBinds, Transition, AttemptStates
  <2>3. CASE RecordProviderRejection(i)
    BY <2>3, AuthorityDecided
    DEF RecordProviderRejection, ResponseBinds, Transition, AttemptStates
  <2>4. CASE AssignProvider(i)
    <3> DEFINE row == [provider |-> attempts[i].provider, attempt |-> i,
                       status |-> "ACTIVE"]
    <3>1. /\ assignments' = <<row>> /\ attempts[i].state = "ACCEPTED"
          /\ state = "PROVIDER_ACCEPTED" /\ state' = "OWNER_ASSIGNED"
          /\ UNCHANGED <<attempts, judgement, eligible>>
      BY <2>4 DEF AssignProvider, Transition, demandVars, dispatchVars
    <3>2. /\ DOMAIN assignments' = {1} /\ Len(assignments') = 1
          /\ assignments' # <<>> /\ assignments'[1] = row
      BY <3>1
    <3> QED
      BY <3>1, <3>2 DEF AuthorityChain, IsActiveAssignment, Assigned
  <2> QED
    BY <1>11, <2>1, <2>2, <2>3, <2>4 DEF Response
<1>12. CASE Surroundings
  BY <1>12, AuthorityFrame
  DEF Surroundings, HoldCapacity, CommitCapacity, RivalTakesWindow,
      RivalFreesWindow, SuspendProvider, ApproveProviderSupply,
      AcceptanceWindowCloses, ConfirmationWindowCloses, dispatchVars
<1>13. CASE UNCHANGED vars
  BY <1>13, AuthorityFrame DEF vars, demandVars
<1> QED
  BY <1>1, <1>2, <1>3, <1>4, <1>5, <1>6, <1>7, <1>8, <1>9, <1>10, <1>11,
     <1>12, <1>13
  DEF Next, OwnerAct, CompleteService, MarkNoShow, MarkUnableToFulfill, Results

(* Nobody is put to work except downstream of the owner's judgement and of *)
(* the one acceptance on record, and one assignment at most is active.     *)
THEOREM AuthorityAlwaysChained == Spec => []AuthorityChain
<1>1. Init => AuthorityChain
  BY DEF Init, AuthorityChain, Assigned, None
<1> QED
  BY <1>1, AuthorityStep, OfferAlwaysMatches, TypeCorrect, PTL DEF Spec

-----------------------------------------------------------------------------
(* Consent.  While the contexts stay as they are, consent holds as long as *)
(* no step walks into CUSTOMER_CONFIRMED or changes what was agreed to.    *)

LEMMA ConsentFrame ==
    ASSUME ConsentIsCurrent, UNCHANGED contexts,
           \/ state' # "CUSTOMER_CONFIRMED"
           \/ UNCHANGED <<state, currentVersion, assignments>>
    PROVE  ConsentIsCurrent'
BY DEF ConsentIsCurrent, IsActiveAssignment

(* Once every context is ended, nothing but a fresh one can be live.       *)
LEMMA ConsentEnded ==
    ASSUME TypeOK, NEW status \in {"SUPERSEDED", "WITHDRAWN"},
           EndLiveContext(status), state' # "CUSTOMER_CONFIRMED"
    PROVE  ConsentIsCurrent'
<1>1. /\ DOMAIN contexts' = DOMAIN contexts
      /\ \A c \in DOMAIN contexts : ~IsLive(contexts'[c])
  BY EndedRows DEF EndLiveContext, TypeOK
<1> QED
  BY <1>1 DEF ConsentIsCurrent

LEMMA ConsentStep ==
    TypeOK /\ ConsentIsCurrent /\ [Next]_vars => ConsentIsCurrent'
<1> SUFFICES ASSUME TypeOK, ConsentIsCurrent, [Next]_vars
             PROVE  ConsentIsCurrent'
  OBVIOUS
<1>1. ASSUME NEW outcome \in Outcomes, QualifyRequest(outcome)
      PROVE  ConsentIsCurrent'
  BY <1>1, ConsentFrame DEF QualifyRequest, consentVars
<1>2. ASSUME NEW p \in Providers, DispatchProvider(p)
      PROVE  ConsentIsCurrent'
  BY <1>2, ConsentFrame DEF DispatchProvider, Transition, consentVars
<1>3. ASSUME NEW p \in Providers, ReassignProvider(p)
      PROVE  ConsentIsCurrent'
  <2>1. state' # "CUSTOMER_CONFIRMED"
    BY <1>3 DEF ReassignProvider, Transition
  <2> QED
    BY <1>3, <2>1, ConsentEnded DEF ReassignProvider
<1>4. CASE RequestCustomerConfirmation
  <2> DEFINE ended == [c \in DOMAIN contexts |-> Ended(contexts[c], "SUPERSEDED")]
             n == Len(ended)
  <2>1. PICK a \in DOMAIN assignments :
           contexts' = Append(ended, [assignment |-> a, version |-> currentVersion,
                                      status |-> "PENDING"])
    BY <1>4 DEF RequestCustomerConfirmation
  <2>2. /\ [assignment |-> a, version |-> currentVersion, status |-> "PENDING"]
              \in Context
        /\ ended \in Seq(Context) /\ DOMAIN ended = DOMAIN contexts
        /\ \A c \in DOMAIN contexts : ~IsLive(ended[c])
    <3>1. a \in 1 .. MaxAssignments
      BY LenProperties, BoundsAssumption DEF TypeOK
    <3>2. [assignment |-> a, version |-> currentVersion, status |-> "PENDING"]
             \in Context
      BY <3>1 DEF TypeOK, Context, ContextStatuses
    <3> QED
      BY <3>2, EndedRows DEF TypeOK
  <2> HIDE DEF ended
  <2>3. DOMAIN ended = 1 .. n /\ n \in Nat /\ DOMAIN contexts' = 1 .. n + 1
        /\ \A c \in 1 .. n : contexts'[c] = ended[c]
    BY <2>1, <2>2, AppendProperties, LenProperties
  <2>4. \A c \in 1 .. n : ~IsLive(contexts'[c])
    BY <2>2, <2>3
  <2>5. \A c, d \in DOMAIN contexts' :
           IsLive(contexts'[c]) /\ IsLive(contexts'[d]) => c = d
    BY <2>3, <2>4
  <2>6. state' = "AWAITING_CUSTOMER_CONFIRMATION"
    BY <1>4 DEF RequestCustomerConfirmation, Transition
  <2> QED
    BY <2>5, <2>6 DEF ConsentIsCurrent
<1>5. CASE RecordCustomerConfirmation
  <2>1. PICK c \in DOMAIN contexts :
           /\ contexts[c].status = "PENDING"
           /\ contexts[c].version = currentVersion
           /\ IsActiveAssignment(contexts[c].assignment)
           /\ contexts' = [contexts EXCEPT ![c].status = "CONFIRMED"]
    BY <1>5 DEF RecordCustomerConfirmation
  <2>2. contexts[c] \in Context /\ DOMAIN contexts' = DOMAIN contexts
    BY <2>1, ElementOfSeq, LenProperties DEF TypeOK
  <2>3. /\ contexts'[c].status = "CONFIRMED"
        /\ contexts'[c].version = contexts[c].version
        /\ contexts'[c].assignment = contexts[c].assignment
        /\ \A d \in DOMAIN contexts : d # c => contexts'[d] = contexts[d]
    BY <2>1, <2>2 DEF Context
  <2>4. \A d \in DOMAIN contexts' : IsLive(contexts'[d]) => d = c
    BY <2>1, <2>2, <2>3 DEF ConsentIsCurrent, IsLive
  <2>5. UNCHANGED <<currentVersion, assignments>>
    BY <1>5 DEF RecordCustomerConfirmation
  <2> QED
    BY <2>1, <2>2, <2>3, <2>4, <2>5 DEF ConsentIsCurrent, IsActiveAssignment
<1>6. CASE StartFulfillment
  BY <1>6, ConsentFrame DEF StartFulfillment, Transition, consentVars
<1>7. ASSUME NEW target \in Results, NEW from, Conclude(target, from)
      PROVE  ConsentIsCurrent'
  BY <1>7, ConsentFrame DEF Conclude, Transition, Results, consentVars
<1>8. CASE CancelService
  <2>1. state' # "CUSTOMER_CONFIRMED"
    BY <1>8, OnlyActiveWorkResists DEF CancelService, Transition, TypeOK
  <2> QED
    BY <1>8, <2>1, ConsentEnded DEF CancelService
<1>9. ASSUME NEW p \in Providers, RecordCapacityLoss(p)
      PROVE  ConsentIsCurrent'
  BY <1>9, ConsentFrame DEF RecordCapacityLoss, consentVars
<1>10. CASE InitiateOperationalRecovery
  BY <1>10, ConsentFrame DEF InitiateOperationalRecovery, consentVars
<1>11. ASSUME NEW i \in DOMAIN attempts, Response(i) PROVE ConsentIsCurrent'
  BY <1>11, ConsentFrame
  DEF Response, ExpireDispatch, RecordProviderAcceptance, RecordProviderRejection,
      AssignProvider, Transition, consentVars
<1>12. CASE Surroundings
  BY <1>12, ConsentFrame
  DEF Surroundings, HoldCapacity, CommitCapacity, RivalTakesWindow,
      RivalFreesWindow, SuspendProvider, ApproveProviderSupply,
      AcceptanceWindowCloses, ConfirmationWindowCloses, consentVars
<1>13. CASE UNCHANGED vars
  BY <1>13, ConsentFrame DEF vars
<1> QED
  BY <1>1, <1>2, <1>3, <1>4, <1>5, <1>6, <1>7, <1>8, <1>9, <1>10, <1>11,
     <1>12, <1>13
  DEF Next, OwnerAct, CompleteService, MarkNoShow, MarkUnableToFulfill, Results

(* What was agreed to stays agreed to while its rows stay, as long as the  *)
(* service goes on or begins from a confirmed request.                     *)
LEMMA ServiceFrame ==
    ASSUME AuthorityChain, ConsentIsCurrent, ServiceWasAgreed,
           UNCHANGED <<currentVersion, assignments, contexts>>,
           state' = state \/ state = "CUSTOMER_CONFIRMED"
    PROVE  ServiceWasAgreed'
<1>1. CASE state = "CUSTOMER_CONFIRMED"
  <2>1. PICK c \in DOMAIN contexts :
           /\ contexts[c].status = "CONFIRMED"
           /\ contexts[c].version = currentVersion
           /\ IsActiveAssignment(contexts[c].assignment)
    BY <1>1 DEF ConsentIsCurrent
  <2>2. contexts[c].assignment = Len(assignments)
    BY <2>1 DEF AuthorityChain, IsActiveAssignment
  <2> QED
    BY <2>1, <2>2 DEF ServiceWasAgreed
<1>2. CASE state' = state
  BY <1>2 DEF ServiceWasAgreed
<1> QED
  BY <1>1, <1>2

(* A cancellation of work under way withdraws the consent to it, and       *)
(* leaves on record what the consent was to.                               *)
LEMMA ServiceCancelled ==
    ASSUME TypeOK, ServiceWasAgreed, CancelService
    PROVE  ServiceWasAgreed'
<1>1. CASE state' \in {"FULFILLMENT_ACTIVE", "SERVICE_COMPLETED", "NO_SHOW"}
  <2>1. state = "FULFILLMENT_ACTIVE"
    BY <1>1, OnlyActiveWorkResists DEF CancelService, Transition, TypeOK
  <2>2. PICK c \in DOMAIN contexts :
           /\ contexts[c].status \in {"CONFIRMED", "WITHDRAWN"}
           /\ contexts[c].version = currentVersion
           /\ contexts[c].assignment = Len(assignments)
    BY <2>1 DEF ServiceWasAgreed
  <2>3. contexts[c] \in Context /\ Len(assignments) \in Nat
    BY <2>2, ElementOfSeq, LenProperties DEF TypeOK
  <2>4. /\ DOMAIN contexts' = DOMAIN contexts
        /\ contexts'[c] = Ended(contexts[c], "WITHDRAWN")
    BY <1>1, <2>2 DEF CancelService, EndLiveContext
  <2>5. /\ contexts'[c].status \in {"CONFIRMED", "WITHDRAWN"}
        /\ contexts'[c].version = contexts[c].version
        /\ contexts'[c].assignment = contexts[c].assignment
    BY <2>2, <2>3, <2>4 DEF Ended, Context
  <2>6. Len(assignments') = Len(assignments) /\ currentVersion' = currentVersion
    BY EndActiveRows DEF CancelService, TypeOK, AssignmentStatuses
  <2> QED
    BY <2>2, <2>4, <2>5, <2>6 DEF ServiceWasAgreed
<1>2. CASE state' \notin {"FULFILLMENT_ACTIVE", "SERVICE_COMPLETED", "NO_SHOW"}
  BY <1>2 DEF ServiceWasAgreed
<1> QED
  BY <1>1, <1>2

(* The graph leads to a result of the service from agreed work alone.      *)
LEMMA ServiceIsEntered ==
    ASSUME NEW from \in RequestStates, NEW to \in {"SERVICE_COMPLETED", "NO_SHOW"},
           to \in LegalTransitions[from]
    PROVE  from \in {"CUSTOMER_CONFIRMED", "FULFILLMENT_ACTIVE"}
BY DEF RequestStates, LegalTransitions

LEMMA ServiceStep ==
    TypeOK /\ AuthorityChain /\ ConfirmedUnderConsent /\ [Next]_vars => ServiceWasAgreed'
<1> SUFFICES ASSUME TypeOK, AuthorityChain, ConsentIsCurrent, ServiceWasAgreed,
                    [Next]_vars
             PROVE  ServiceWasAgreed'
  BY DEF ConfirmedUnderConsent
<1>1. ASSUME state' \notin {"FULFILLMENT_ACTIVE", "SERVICE_COMPLETED", "NO_SHOW"}
      PROVE  ServiceWasAgreed'
  BY <1>1 DEF ServiceWasAgreed
<1>2. ASSUME NEW p \in Providers, DispatchProvider(p) \/ ReassignProvider(p)
      PROVE  ServiceWasAgreed'
  BY <1>1, <1>2 DEF DispatchProvider, ReassignProvider, Transition, Assigned
<1>3. CASE RequestCustomerConfirmation \/ RecordCustomerConfirmation
  BY <1>1, <1>3 DEF RequestCustomerConfirmation, RecordCustomerConfirmation, Transition
<1>4. CASE StartFulfillment
  BY <1>4, ServiceFrame DEF StartFulfillment, consentVars
<1>5. ASSUME NEW target \in Results, NEW from, Conclude(target, from)
      PROVE  ServiceWasAgreed'
  <2>1. UNCHANGED <<currentVersion, assignments, contexts>> /\ state' = target
    BY <1>5 DEF Conclude, Transition, consentVars
  <2>2. CASE target = "UNABLE_TO_FULFILL"
    BY <1>1, <2>1, <2>2
  <2>3. CASE target # "UNABLE_TO_FULFILL"
    <3>1. state \in {"CUSTOMER_CONFIRMED", "FULFILLMENT_ACTIVE"}
      BY <1>5, <2>3, ServiceIsEntered DEF Conclude, Transition, Results, TypeOK
    <3>2. CASE state = "FULFILLMENT_ACTIVE"
      BY <2>1, <3>2 DEF ServiceWasAgreed
    <3> QED
      BY <2>1, <3>1, <3>2, ServiceFrame
  <2> QED
    BY <2>2, <2>3
<1>6. CASE CancelService
  BY <1>6, ServiceCancelled
<1>7. ASSUME NEW i \in DOMAIN attempts, Response(i) PROVE ServiceWasAgreed'
  BY <1>1, <1>7
  DEF Response, ExpireDispatch, RecordProviderAcceptance, RecordProviderRejection,
      AssignProvider, Transition
<1>8. ASSUME UNCHANGED <<state, currentVersion, assignments, contexts>>
      PROVE  ServiceWasAgreed'
  BY <1>8, ServiceFrame
<1>9. CASE \/ \E outcome \in Outcomes : QualifyRequest(outcome)
           \/ \E p \in Providers : RecordCapacityLoss(p)
           \/ InitiateOperationalRecovery
  BY <1>8, <1>9
  DEF QualifyRequest, RecordCapacityLoss, InitiateOperationalRecovery, consentVars
<1>10. CASE Surroundings
  BY <1>8, <1>10
  DEF Surroundings, HoldCapacity, CommitCapacity, RivalTakesWindow,
      RivalFreesWindow, SuspendProvider, ApproveProviderSupply,
      AcceptanceWindowCloses, ConfirmationWindowCloses, consentVars
<1>11. CASE UNCHANGED vars
  BY <1>8, <1>11 DEF vars
<1> QED
  BY <1>2, <1>3, <1>4, <1>5, <1>6, <1>7, <1>9, <1>10, <1>11
  DEF Next, OwnerAct, CompleteService, MarkNoShow, MarkUnableToFulfill, Results

(* A request that reads CUSTOMER_CONFIRMED always rests on one live consent *)
(* to the assignment that is active and the version that is authoritative, *)
(* and service that was begun or concluded was agreed to with the provider *)
(* last assigned.                                                          *)
THEOREM AlwaysUnderConsent == Spec => []ConfirmedUnderConsent
<1>1. Init => ConsentIsCurrent /\ ServiceWasAgreed
  BY DEF Init, ConsentIsCurrent, ServiceWasAgreed
<1>2. TypeOK /\ AuthorityChain /\ ConfirmedUnderConsent /\ [Next]_vars =>
         ConfirmedUnderConsent'
  BY ConsentStep, ServiceStep DEF ConfirmedUnderConsent
<1>3. Init => ConfirmedUnderConsent
  BY <1>1 DEF ConfirmedUnderConsent
<1> QED
  BY <1>2, <1>3, TypeCorrect, AuthorityAlwaysChained, PTL DEF Spec

-----------------------------------------------------------------------------
(* What no step may do.                                                    *)

(* No action of the orchestrator is taken on a terminal request.           *)
LEMMA TerminalStep ==
    ASSUME TypeOK, [Next]_vars, state \in Terminal
    PROVE  UNCHANGED evidence
<1>1. ASSUME NEW to PROVE ~Transition(to)
  BY NoExit DEF TypeOK
<1>2. CASE OwnerAct
  BY <1>1, <1>2
  DEF OwnerAct, QualifyRequest, DispatchProvider, ReassignProvider,
      RequestCustomerConfirmation, StartFulfillment, CompleteService, MarkNoShow,
      MarkUnableToFulfill, Conclude, CancelService, RecordCapacityLoss,
      InitiateOperationalRecovery, Terminal, Assigned
<1>3. CASE RecordCustomerConfirmation
  BY <1>1, <1>3 DEF RecordCustomerConfirmation
<1>4. ASSUME NEW i \in DOMAIN attempts, Response(i) PROVE UNCHANGED evidence
  BY <1>1, <1>4
  DEF Response, ExpireDispatch, RecordProviderAcceptance, RecordProviderRejection,
      AssignProvider
<1>5. CASE Surroundings
  BY <1>5
  DEF Surroundings, HoldCapacity, CommitCapacity, RivalTakesWindow,
      RivalFreesWindow, SuspendProvider, ApproveProviderSupply,
      AcceptanceWindowCloses, ConfirmationWindowCloses, evidence, demandVars,
      dispatchVars, consentVars
<1>6. CASE UNCHANGED vars
  BY <1>6 DEF vars, evidence
<1> QED
  BY <1>2, <1>3, <1>4, <1>5, <1>6 DEF Next

(* A question that cannot be answered is not answered, and the state it    *)
(* would have to be put from again is not reached.                         *)
LEMMA UnanswerableStep ==
    ASSUME TypeOK, OfferMatchesRequest, Unanswerable, [Next]_vars
    PROVE  Unanswerable' \/ state' \in {"CANCELLED", "UNABLE_TO_FULFILL"}
<1> USE DEF Unanswerable
<1>1. contexts \in Seq(Context) /\ \A c \in DOMAIN contexts : contexts[c] \in Context
  BY ElementOfSeq, LenProperties DEF TypeOK
<1>2. ASSUME UNCHANGED <<state, contexts>>, consentElapsed => consentElapsed'
      PROVE  Unanswerable'
  BY <1>2
<1>3. ASSUME NEW p \in Providers, ReassignProvider(p) PROVE Unanswerable'
  <2>1. UNCHANGED <<state, consentElapsed>> /\ EndLiveContext("SUPERSEDED")
    BY <1>3 DEF ReassignProvider
  <2>2. \A c \in DOMAIN contexts' : contexts'[c].status # "PENDING"
    <3>1. DOMAIN contexts' = DOMAIN contexts
      BY <2>1 DEF EndLiveContext
    <3>2. \A c \in DOMAIN contexts : contexts'[c] = Ended(contexts[c], "SUPERSEDED")
      BY <2>1 DEF EndLiveContext
    <3>3. \A c \in DOMAIN contexts : contexts'[c].status # "PENDING"
      BY <1>1, <3>2 DEF Ended, IsLive, Context
    <3> QED
      BY <3>1, <3>3
  <2> QED
    BY <2>1, <2>2
<1>4. ASSUME NEW target \in Results, NEW from, Conclude(target, from)
      PROVE  state' \in {"CANCELLED", "UNABLE_TO_FULFILL"}
  BY <1>4 DEF Conclude, Transition, Results, LegalTransitions
<1>5. CASE CancelService
  <2>1. "CANCELLED" \in LegalTransitions[state]
    BY DEF LegalTransitions
  <2> QED
    BY <1>5, <2>1 DEF CancelService, Transition
<1>6. CASE OwnerAct
  BY <1>2, <1>3, <1>4, <1>5, <1>6
  DEF OwnerAct, QualifyRequest, DispatchProvider, RequestCustomerConfirmation,
      StartFulfillment, CompleteService, MarkNoShow, MarkUnableToFulfill,
      RecordCapacityLoss, InitiateOperationalRecovery, Results, consentVars
<1>7. ~RecordCustomerConfirmation
  BY DEF RecordCustomerConfirmation
<1>8. ASSUME NEW i \in DOMAIN attempts, Response(i) PROVE Unanswerable'
  BY <1>2, <1>8
  DEF Response, ExpireDispatch, RecordProviderAcceptance, RecordProviderRejection,
      AssignProvider, ResponseBinds, OfferMatchesRequest, Terminal, consentVars
<1>9. CASE Surroundings
  BY <1>2, <1>9
  DEF Surroundings, HoldCapacity, CommitCapacity, RivalTakesWindow,
      RivalFreesWindow, SuspendProvider, ApproveProviderSupply,
      AcceptanceWindowCloses, ConfirmationWindowCloses, consentVars
<1>10. CASE UNCHANGED vars
  BY <1>2, <1>10 DEF vars
<1> QED
  BY <1>6, <1>7, <1>8, <1>9, <1>10 DEF Next

(* A terminal request is never reopened and no evidence about it moves;    *)
(* and a request whose customer can no longer answer is never asked again: *)
(* it can only be cancelled or given up, in any market and in any order of *)
(* the actors.                                                             *)
THEOREM NothingEverComesBack == Spec => NothingComesBack
<1>1. TypeOK /\ OfferMatchesRequest /\ [Next]_vars =>
         [/\ state \in Terminal => UNCHANGED evidence
          /\ Unanswerable =>
                Unanswerable' \/ state' \in {"CANCELLED", "UNABLE_TO_FULFILL"}]_vars
  BY TerminalStep, UnanswerableStep
<1> QED
  BY <1>1, TypeCorrect, OfferAlwaysMatches, PTL DEF Spec, NothingComesBack

(* Only Conclude and CancelService end a request, and both give back its   *)
(* time.                                                                   *)
LEMMA EndingStep ==
    ASSUME TypeOK, [Next]_vars, state \notin Terminal, state' \in Terminal
    PROVE  \A p \in Providers : holds'[p] = None
<1>1. ReleaseAllCapacity => \A p \in Providers : holds'[p] = None
  BY DEF ReleaseAllCapacity
<1>2. CASE OwnerAct
  BY <1>1, <1>2
  DEF OwnerAct, QualifyRequest, DispatchProvider, ReassignProvider,
      RequestCustomerConfirmation, StartFulfillment, CompleteService, MarkNoShow,
      MarkUnableToFulfill, Conclude, CancelService, RecordCapacityLoss,
      InitiateOperationalRecovery, Transition, Terminal
<1>3. CASE RecordCustomerConfirmation
  BY <1>3 DEF RecordCustomerConfirmation, Transition, Terminal
<1>4. ASSUME NEW i \in DOMAIN attempts, Response(i)
      PROVE  \A p \in Providers : holds'[p] = None
  BY <1>4
  DEF Response, ExpireDispatch, RecordProviderAcceptance, RecordProviderRejection,
      AssignProvider, Transition, Terminal
<1>5. CASE Surroundings
  BY <1>5
  DEF Surroundings, HoldCapacity, CommitCapacity, RivalTakesWindow,
      RivalFreesWindow, SuspendProvider, ApproveProviderSupply,
      AcceptanceWindowCloses, ConfirmationWindowCloses
<1>6. CASE UNCHANGED vars
  BY <1>6 DEF vars
<1> QED
  BY <1>2, <1>3, <1>4, <1>5, <1>6 DEF Next

(* Ending a request gives back every provider's time it held.              *)
THEOREM EndingAlwaysFrees == Spec => EndingFreesCapacity
<1>1. TypeOK /\ [Next]_vars =>
         [state \notin Terminal /\ state' \in Terminal =>
            \A p \in Providers : holds'[p] = None]_vars
  BY EndingStep
<1> QED
  BY <1>1, TypeCorrect, PTL DEF Spec, EndingFreesCapacity

-----------------------------------------------------------------------------
(* Rows.                                                                   *)

AttemptsEvolve ==
    \A i \in DOMAIN attempts :
       /\ i \in DOMAIN attempts'
       /\ attempts'[i].provider = attempts[i].provider
       /\ attempts[i].state # "OFFERED" => attempts'[i] = attempts[i]

AssignmentsEvolve ==
    \A a \in DOMAIN assignments :
       /\ a \in DOMAIN assignments'
       /\ assignments'[a].provider = assignments[a].provider
       /\ assignments[a].status # "ACTIVE" => assignments'[a] = assignments[a]

ContextsEvolve ==
    \A c \in DOMAIN contexts :
       /\ c \in DOMAIN contexts'
       /\ contexts'[c].assignment = contexts[c].assignment
       /\ contexts'[c].version = contexts[c].version
       /\ ~IsLive(contexts[c]) => contexts'[c] = contexts[c]
       /\ contexts[c].status = "CONFIRMED" => contexts'[c].status # "PENDING"

(* An attempt is only ever opened, and then decided.                       *)
LEMMA AttemptsKept == UNCHANGED attempts => AttemptsEvolve
BY DEF AttemptsEvolve

LEMMA AttemptDecided ==
    ASSUME TypeOK, NEW i \in DOMAIN attempts, attempts[i].state = "OFFERED",
           NEW decision \in AttemptStates, Decide(i, decision)
    PROVE  AttemptsEvolve
<1>1. /\ DOMAIN attempts' = DOMAIN attempts
      /\ \A j \in DOMAIN attempts : j # i => attempts'[j] = attempts[j]
  BY DecideRows DEF Decide, TypeOK
<1>2. attempts[i] \in Attempt
  BY ElementOfSeq, LenProperties DEF TypeOK
<1>3. attempts'[i].provider = attempts[i].provider
  BY <1>2 DEF Decide, Attempt
<1> QED
  BY <1>1, <1>3 DEF AttemptsEvolve

LEMMA AttemptsStep ==
    ASSUME TypeOK, [Next]_vars
    PROVE  AttemptsEvolve
<1>1. ASSUME NEW p \in Providers, DispatchProvider(p) PROVE AttemptsEvolve
  <2>1. /\ [provider |-> p, state |-> "OFFERED"] \in Attempt
        /\ attempts' = Append(attempts, [provider |-> p, state |-> "OFFERED"])
    BY <1>1 DEF DispatchProvider, Attempt, AttemptStates
  <2>2. /\ DOMAIN attempts = 1 .. Len(attempts) /\ Len(attempts) \in Nat
        /\ DOMAIN attempts' = 1 .. Len(attempts) + 1
        /\ \A j \in 1 .. Len(attempts) : attempts'[j] = attempts[j]
    BY <2>1, AppendProperties, LenProperties DEF TypeOK
  <2> QED
    BY <2>2 DEF AttemptsEvolve
<1>2. CASE OwnerAct
  BY <1>1, <1>2, AttemptsKept
  DEF OwnerAct, QualifyRequest, ReassignProvider, RequestCustomerConfirmation,
      StartFulfillment, CompleteService, MarkNoShow, MarkUnableToFulfill, Conclude,
      CancelService, RecordCapacityLoss, InitiateOperationalRecovery, dispatchVars
<1>3. CASE RecordCustomerConfirmation
  BY <1>3, AttemptsKept DEF RecordCustomerConfirmation, dispatchVars
<1>4. ASSUME NEW i \in DOMAIN attempts, Response(i) PROVE AttemptsEvolve
  BY <1>4, AttemptDecided, AttemptsKept
  DEF Response, ExpireDispatch, RecordProviderAcceptance, RecordProviderRejection,
      AssignProvider, ResponseBinds, IsCurrentAttempt, AttemptStates, dispatchVars
<1>5. CASE Surroundings
  BY <1>5, AttemptsKept
  DEF Surroundings, HoldCapacity, CommitCapacity, RivalTakesWindow,
      RivalFreesWindow, SuspendProvider, ApproveProviderSupply,
      AcceptanceWindowCloses, ConfirmationWindowCloses, dispatchVars
<1>6. CASE UNCHANGED vars
  BY <1>6, AttemptsKept DEF vars
<1> QED
  BY <1>2, <1>3, <1>4, <1>5, <1>6 DEF Next

(* An assignment is only ever made, and then ended.                        *)
LEMMA AssignmentsKept == UNCHANGED assignments => AssignmentsEvolve
BY DEF AssignmentsEvolve

LEMMA AssignmentsStep ==
    ASSUME TypeOK, [Next]_vars
    PROVE  AssignmentsEvolve
<1>1. ASSUME NEW status \in {"REPLACED", "REVOKED"}
      PROVE  LET ended == EndActive(assignments, status)
             IN  /\ ended \in Seq(Assignment) /\ Len(ended) = Len(assignments)
                 /\ DOMAIN ended = DOMAIN assignments
                 /\ \A a \in DOMAIN assignments :
                       /\ ended[a].provider = assignments[a].provider
                       /\ assignments[a].status # "ACTIVE" =>
                             ended[a] = assignments[a]
  <2>1. \A a \in DOMAIN assignments : assignments[a].status # "ACTIVE" =>
           EndActive(assignments, status)[a] = assignments[a]
    BY DEF EndActive
  <2> QED
    BY <2>1, EndActiveRows DEF TypeOK
<1>2. ASSUME NEW p \in Providers, ReassignProvider(p) PROVE AssignmentsEvolve
  <2> DEFINE n == Len(assignments)
             ended == EndActive(assignments, "REPLACED")
             heir == [provider |-> p, attempt |-> assignments[n].attempt,
                      status |-> "ACTIVE"]
  <2>1. n \in DOMAIN assignments /\ DOMAIN assignments = 1 .. n /\ n \in Nat
    BY <1>2, LenProperties DEF ReassignProvider, IsActiveAssignment, TypeOK
  <2>2. assignments[n] \in Assignment
    BY <2>1, ElementOfSeq DEF TypeOK
  <2>3. heir \in Assignment
    BY <2>2 DEF Assignment, AssignmentStatuses
  <2>4. assignments' = Append(ended, heir)
    BY <1>2 DEF ReassignProvider
  <2>5. /\ ended \in Seq(Assignment) /\ Len(ended) = n
        /\ \A a \in DOMAIN assignments :
              /\ ended[a].provider = assignments[a].provider
              /\ assignments[a].status # "ACTIVE" => ended[a] = assignments[a]
    BY <1>1
  <2>6. /\ DOMAIN assignments' = 1 .. n + 1
        /\ \A a \in 1 .. n : assignments'[a] = ended[a]
    BY <2>3, <2>4, <2>5, AppendProperties, LenProperties
  <2> HIDE DEF heir, ended, n
  <2> QED
    BY <2>1, <2>5, <2>6 DEF AssignmentsEvolve
<1>3. CASE CancelService
  BY <1>1, <1>3 DEF CancelService, AssignmentsEvolve
<1>4. CASE OwnerAct
  BY <1>2, <1>3, <1>4, AssignmentsKept
  DEF OwnerAct, QualifyRequest, DispatchProvider, RequestCustomerConfirmation,
      StartFulfillment, CompleteService, MarkNoShow, MarkUnableToFulfill, Conclude,
      RecordCapacityLoss, InitiateOperationalRecovery
<1>5. CASE RecordCustomerConfirmation
  BY <1>5, AssignmentsKept DEF RecordCustomerConfirmation
<1>6. ASSUME NEW i \in DOMAIN attempts, Response(i) PROVE AssignmentsEvolve
  <2>1. CASE AssignProvider(i)
    BY <2>1 DEF AssignProvider, AssignmentsEvolve
  <2> QED
    BY <1>6, <2>1, AssignmentsKept
    DEF Response, ExpireDispatch, RecordProviderAcceptance, RecordProviderRejection
<1>7. CASE Surroundings
  BY <1>7, AssignmentsKept
  DEF Surroundings, HoldCapacity, CommitCapacity, RivalTakesWindow,
      RivalFreesWindow, SuspendProvider, ApproveProviderSupply,
      AcceptanceWindowCloses, ConfirmationWindowCloses
<1>8. CASE UNCHANGED vars
  BY <1>8, AssignmentsKept DEF vars
<1> QED
  BY <1>4, <1>5, <1>6, <1>7, <1>8 DEF Next

(* A context is only ever opened, confirmed while pending, and ended.      *)
LEMMA ContextsKept == UNCHANGED contexts => ContextsEvolve
BY DEF ContextsEvolve, IsLive

LEMMA ContextsEnded ==
    ASSUME TypeOK, NEW status \in {"SUPERSEDED", "WITHDRAWN"}
    PROVE  LET ended == [c \in DOMAIN contexts |-> Ended(contexts[c], status)]
           IN  /\ ended \in Seq(Context) /\ Len(ended) = Len(contexts)
               /\ DOMAIN ended = DOMAIN contexts
               /\ \A c \in DOMAIN contexts :
                     /\ ended[c].assignment = contexts[c].assignment
                     /\ ended[c].version = contexts[c].version
                     /\ ~IsLive(contexts[c]) => ended[c] = contexts[c]
                     /\ ~IsLive(ended[c])
<1>1. \A c \in DOMAIN contexts : contexts[c] \in Context
  BY ElementOfSeq, LenProperties DEF TypeOK
<1>2. \A c \in DOMAIN contexts :
         /\ Ended(contexts[c], status).assignment = contexts[c].assignment
         /\ Ended(contexts[c], status).version = contexts[c].version
         /\ ~IsLive(contexts[c]) => Ended(contexts[c], status) = contexts[c]
  BY <1>1 DEF Ended, Context
<1> QED
  BY <1>2, EndedRows DEF TypeOK

LEMMA ContextsStep ==
    ASSUME TypeOK, [Next]_vars
    PROVE  ContextsEvolve
<1>1. ASSUME NEW status \in {"SUPERSEDED", "WITHDRAWN"}, EndLiveContext(status)
      PROVE  ContextsEvolve
  BY <1>1, ContextsEnded DEF EndLiveContext, ContextsEvolve, IsLive
<1>2. CASE RequestCustomerConfirmation
  <2> DEFINE ended == [c \in DOMAIN contexts |-> Ended(contexts[c], "SUPERSEDED")]
  <2>1. PICK a \in DOMAIN assignments :
           contexts' = Append(ended, [assignment |-> a, version |-> currentVersion,
                                      status |-> "PENDING"])
    BY <1>2 DEF RequestCustomerConfirmation
  <2>2. a \in 1 .. MaxAssignments
    BY LenProperties, BoundsAssumption DEF TypeOK
  <2>3. [assignment |-> a, version |-> currentVersion, status |-> "PENDING"] \in Context
    BY <2>2 DEF TypeOK, Context, ContextStatuses
  <2>4. /\ ended \in Seq(Context) /\ Len(ended) = Len(contexts)
        /\ \A c \in DOMAIN contexts :
              /\ ended[c].assignment = contexts[c].assignment
              /\ ended[c].version = contexts[c].version
              /\ ~IsLive(contexts[c]) => ended[c] = contexts[c]
              /\ ~IsLive(ended[c])
    BY ContextsEnded
  <2> HIDE DEF ended
  <2>5. /\ DOMAIN contexts = 1 .. Len(contexts) /\ Len(contexts) \in Nat
        /\ DOMAIN contexts' = 1 .. Len(contexts) + 1
        /\ \A c \in 1 .. Len(contexts) : contexts'[c] = ended[c]
    BY <2>1, <2>3, <2>4, AppendProperties, LenProperties DEF TypeOK
  <2> QED
    BY <2>4, <2>5 DEF ContextsEvolve, IsLive
<1>3. CASE RecordCustomerConfirmation
  <2>1. PICK c \in DOMAIN contexts :
           /\ contexts[c].status = "PENDING"
           /\ contexts' = [contexts EXCEPT ![c].status = "CONFIRMED"]
    BY <1>3 DEF RecordCustomerConfirmation
  <2>2. contexts[c] \in Context /\ DOMAIN contexts' = DOMAIN contexts
    BY <2>1, ElementOfSeq, LenProperties DEF TypeOK
  <2>3. /\ contexts'[c].status = "CONFIRMED"
        /\ contexts'[c].version = contexts[c].version
        /\ contexts'[c].assignment = contexts[c].assignment
        /\ \A d \in DOMAIN contexts : d # c => contexts'[d] = contexts[d]
    BY <2>1, <2>2 DEF Context
  <2> QED
    BY <2>1, <2>2, <2>3 DEF ContextsEvolve, IsLive
<1>4. CASE OwnerAct
  BY <1>1, <1>2, <1>4, ContextsKept
  DEF OwnerAct, QualifyRequest, DispatchProvider, ReassignProvider,
      StartFulfillment, CompleteService, MarkNoShow, MarkUnableToFulfill, Conclude,
      CancelService, RecordCapacityLoss, InitiateOperationalRecovery, consentVars
<1>5. ASSUME NEW i \in DOMAIN attempts, Response(i) PROVE ContextsEvolve
  BY <1>5, ContextsKept
  DEF Response, ExpireDispatch, RecordProviderAcceptance, RecordProviderRejection,
      AssignProvider, consentVars
<1>6. CASE Surroundings
  BY <1>6, ContextsKept
  DEF Surroundings, HoldCapacity, CommitCapacity, RivalTakesWindow,
      RivalFreesWindow, SuspendProvider, ApproveProviderSupply,
      AcceptanceWindowCloses, ConfirmationWindowCloses, consentVars
<1>7. CASE UNCHANGED vars
  BY <1>7, ContextsKept DEF vars
<1> QED
  BY <1>3, <1>4, <1>5, <1>6, <1>7 DEF Next

(* Operational history can be reconstructed from the tables: rows only     *)
(* accumulate, a decision is never replaced, and no row changes what it is *)
(* about.                                                                  *)
THEOREM EvidenceOnlyGrows == Spec => EvidenceIsAppendOnly
<1> DEFINE Grows ==
      /\ \A i \in DOMAIN attempts :
            /\ i \in DOMAIN attempts'
            /\ attempts'[i].provider = attempts[i].provider
            /\ attempts[i].state # "OFFERED" => attempts'[i] = attempts[i]
      /\ \A a \in DOMAIN assignments :
            /\ a \in DOMAIN assignments'
            /\ assignments'[a].provider = assignments[a].provider
            /\ assignments[a].status # "ACTIVE" => assignments'[a] = assignments[a]
      /\ \A c \in DOMAIN contexts :
            /\ c \in DOMAIN contexts'
            /\ contexts'[c].assignment = contexts[c].assignment
            /\ contexts'[c].version = contexts[c].version
            /\ ~IsLive(contexts[c]) => contexts'[c] = contexts[c]
            /\ contexts[c].status = "CONFIRMED" => contexts'[c].status # "PENDING"
<1>1. TypeOK /\ [Next]_vars => [Grows]_vars
  BY AttemptsStep, AssignmentsStep, ContextsStep
  DEF AttemptsEvolve, AssignmentsEvolve, ContextsEvolve
<1> QED
  BY <1>1, TypeCorrect, PTL DEF Spec, EvidenceIsAppendOnly

-----------------------------------------------------------------------------
(* The graph.                                                              *)

(* No handler moves a request but along an edge of the graph.              *)
LEMMA MovesAreLegal ==
    ASSUME [Next]_vars
    PROVE  UNCHANGED state \/ state' \in LegalTransitions[state]
<1>1. ASSUME NEW p \in Providers, DispatchProvider(p) \/ ReassignProvider(p)
      PROVE  UNCHANGED state \/ state' \in LegalTransitions[state]
  BY <1>1 DEF DispatchProvider, ReassignProvider, Transition
<1>2. CASE OwnerAct
  BY <1>1, <1>2
  DEF OwnerAct, QualifyRequest, RequestCustomerConfirmation, StartFulfillment,
      CompleteService, MarkNoShow, MarkUnableToFulfill, Conclude, CancelService,
      RecordCapacityLoss, InitiateOperationalRecovery, Transition
<1>3. CASE RecordCustomerConfirmation
  BY <1>3 DEF RecordCustomerConfirmation, Transition
<1>4. ASSUME NEW i \in DOMAIN attempts, Response(i)
      PROVE  UNCHANGED state \/ state' \in LegalTransitions[state]
  BY <1>4
  DEF Response, ExpireDispatch, RecordProviderAcceptance, RecordProviderRejection,
      AssignProvider, Transition
<1>5. CASE Surroundings
  BY <1>5
  DEF Surroundings, HoldCapacity, CommitCapacity, RivalTakesWindow,
      RivalFreesWindow, SuspendProvider, ApproveProviderSupply,
      AcceptanceWindowCloses, ConfirmationWindowCloses
<1>6. CASE UNCHANGED vars
  BY <1>6 DEF vars
<1> QED
  BY <1>2, <1>3, <1>4, <1>5, <1>6 DEF Next

-----------------------------------------------------------------------------
(* The customer is asked once.                                             *)

(* The context of a request that awaits confirmation is its first, and no  *)
(* step leads back to where another would be opened.                       *)
LEMMA AskedFrame ==
    ASSUME AskedOnce, DOMAIN contexts' = DOMAIN contexts,
           state' = state \/ state' \notin Unasked \/ state \in Unasked
    PROVE  AskedOnce'
BY DEF AskedOnce

LEMMA AskedOnceStep ==
    ASSUME TypeOK, OfferMatchesRequest, AskedOnce, [Next]_vars
    PROVE  AskedOnce'
<1> USE DEF Unasked
<1>1. UNCHANGED contexts => DOMAIN contexts' = DOMAIN contexts
  OBVIOUS
<1>2. ASSUME NEW status \in {"SUPERSEDED", "WITHDRAWN"}, EndLiveContext(status)
      PROVE  DOMAIN contexts' = DOMAIN contexts
  BY <1>2 DEF EndLiveContext
<1>3. ASSUME NEW p \in Providers, ReassignProvider(p) PROVE AskedOnce'
  BY <1>2, <1>3, AskedFrame DEF ReassignProvider, Transition
<1>4. CASE RequestCustomerConfirmation
  <2>1. DOMAIN contexts = {} /\ state' = "AWAITING_CUSTOMER_CONFIRMATION"
    BY <1>4 DEF RequestCustomerConfirmation, Transition, AskedOnce
  <2>2. PICK row : contexts' = Append([c \in DOMAIN contexts |->
                                         Ended(contexts[c], "SUPERSEDED")], row)
    BY <1>4 DEF RequestCustomerConfirmation
  <2> DEFINE none == [c \in DOMAIN contexts |-> Ended(contexts[c], "SUPERSEDED")]
  <2>3. none \in Seq({row}) /\ Len(none) = 0
    <3>1. contexts \in Seq(Context) /\ DOMAIN contexts = 1 .. Len(contexts)
      BY LenProperties DEF TypeOK
    <3>2. Len(contexts) = 0
      BY <2>1, <3>1
    <3>3. none \in [1 .. 0 -> {row}]
      BY <2>1
    <3> HIDE DEF none
    <3> QED
      BY <3>3
  <2> HIDE DEF none
  <2>4. DOMAIN contexts' = 1 .. 1
    BY <2>2, <2>3, AppendProperties, LenProperties DEF none
  <2> QED
    BY <2>1, <2>4 DEF AskedOnce
<1>5. CASE CancelService
  BY <1>2, <1>5, AskedFrame DEF CancelService, Transition
<1>6. ASSUME NEW target \in Results, NEW from, Conclude(target, from)
      PROVE  AskedOnce'
  BY <1>6, AskedFrame DEF Conclude, Transition, Results, consentVars
<1>7. CASE OwnerAct
  BY <1>1, <1>3, <1>4, <1>5, <1>6, <1>7, AskedFrame
  DEF OwnerAct, QualifyRequest, DispatchProvider, StartFulfillment, CompleteService,
      MarkNoShow, MarkUnableToFulfill, RecordCapacityLoss,
      InitiateOperationalRecovery, Transition, Results, consentVars
<1>8. CASE RecordCustomerConfirmation
  BY <1>8, AskedFrame DEF RecordCustomerConfirmation, Transition
<1>9. ASSUME NEW i \in DOMAIN attempts, Response(i) PROVE AskedOnce'
  BY <1>1, <1>9, AskedFrame
  DEF Response, ExpireDispatch, RecordProviderAcceptance, RecordProviderRejection,
      AssignProvider, Transition, ResponseBinds, OfferMatchesRequest, Terminal,
      consentVars
<1>10. CASE Surroundings
  BY <1>1, <1>10, AskedFrame
  DEF Surroundings, HoldCapacity, CommitCapacity, RivalTakesWindow,
      RivalFreesWindow, SuspendProvider, ApproveProviderSupply,
      AcceptanceWindowCloses, ConfirmationWindowCloses, consentVars
<1>11. CASE UNCHANGED vars
  BY <1>1, <1>11, AskedFrame DEF vars
<1> QED
  BY <1>7, <1>8, <1>9, <1>10, <1>11 DEF Next

(* Whatever is withdrawn, reassigned or let lapse, no request ever has a   *)
(* second confirmation context, though the table counts versions of them.  *)
THEOREM CustomerIsAskedOnce == Spec => []AskedOnce
<1>1. Init => AskedOnce
  BY DEF Init, AskedOnce
<1>2. TypeOK /\ OfferMatchesRequest /\ AskedOnce /\ [Next]_vars => AskedOnce'
  BY AskedOnceStep
<1> QED
  BY <1>1, <1>2, TypeCorrect, OfferAlwaysMatches, PTL DEF Spec

-----------------------------------------------------------------------------
(* How far a cancellation can fail.                                        *)

Revokes == \E a \in DOMAIN assignments :
              assignments[a].status = "ACTIVE" /\ assignments'[a].status = "REVOKED"

LEMMA OnlyCancelRevokes ==
    ASSUME TypeOK, [Next]_vars, Revokes
    PROVE  CancelService
<1>1. PICK a \in DOMAIN assignments :
         assignments[a].status = "ACTIVE" /\ assignments'[a].status = "REVOKED"
  BY DEF Revokes
<1>2. assignments[a] \in Assignment /\ assignments' # assignments
  BY <1>1, ElementOfSeq, LenProperties DEF TypeOK
<1>3. ASSUME NEW p \in Providers, ReassignProvider(p) PROVE FALSE
  <2> DEFINE n == Len(assignments)
             ended == EndActive(assignments, "REPLACED")
             heir == [provider |-> p, attempt |-> assignments[n].attempt,
                      status |-> "ACTIVE"]
  <2>1. n \in DOMAIN assignments /\ DOMAIN assignments = 1 .. n /\ n \in Nat
    BY <1>3, LenProperties DEF ReassignProvider, IsActiveAssignment, TypeOK
  <2>2. heir \in Assignment
    BY <2>1, ElementOfSeq, <1>3
    DEF TypeOK, ReassignProvider, Assignment, AssignmentStatuses
  <2>3. ended \in Seq(Assignment) /\ Len(ended) = n
    BY EndActiveRows DEF TypeOK
  <2>4. assignments' = Append(ended, heir)
    BY <1>3 DEF ReassignProvider
  <2>5. ended[a].status = "REPLACED"
    BY <1>1, <1>2 DEF EndActive, Assignment
  <2> HIDE DEF heir, ended, n
  <2>6. assignments'[a] = ended[a]
    BY <2>1, <2>2, <2>3, <2>4, AppendProperties, LenProperties
  <2> QED
    BY <1>1, <2>5, <2>6
<1>4. ASSUME NEW i \in DOMAIN attempts, Response(i) PROVE FALSE
  <2>1. AssignProvider(i)
    BY <1>2, <1>4
    DEF Response, ExpireDispatch, RecordProviderAcceptance, RecordProviderRejection
  <2> QED
    BY <1>1, <2>1 DEF AssignProvider
<1>5. CASE OwnerAct
  BY <1>2, <1>3, <1>5
  DEF OwnerAct, QualifyRequest, DispatchProvider, RequestCustomerConfirmation,
      StartFulfillment, CompleteService, MarkNoShow, MarkUnableToFulfill, Conclude,
      RecordCapacityLoss, InitiateOperationalRecovery
<1>6. CASE RecordCustomerConfirmation \/ Surroundings \/ UNCHANGED vars
  BY <1>2, <1>6
  DEF RecordCustomerConfirmation, Surroundings, HoldCapacity, CommitCapacity,
      RivalTakesWindow, RivalFreesWindow, SuspendProvider, ApproveProviderSupply,
      AcceptanceWindowCloses, ConfirmationWindowCloses, vars
<1> QED
  BY <1>4, <1>5, <1>6 DEF Next

(* The fault that CancellationIsAllOrNothing exhibits goes no further than *)
(* work under way: a provider's assignment is revoked by a cancellation    *)
(* alone, with every context ended and every hold released, and the        *)
(* request becomes CANCELLED unless it was, and stays, FULFILLMENT_ACTIVE  *)
(* (serviceRequest.ts:68).                                                 *)
THEOREM RevocationCancels ==
    Spec => [][Revokes =>
                 /\ \A a \in DOMAIN assignments : ~IsActiveAssignment(a)'
                 /\ \A c \in DOMAIN contexts : ~IsLive(contexts'[c])
                 /\ \A p \in Providers : holds'[p] = None
                 /\ \/ state' = "CANCELLED"
                    \/ state = "FULFILLMENT_ACTIVE" /\ state' = state]_vars
<1>1. ASSUME TypeOK, CancelService
      PROVE  /\ \A a \in DOMAIN assignments : ~IsActiveAssignment(a)'
             /\ \A c \in DOMAIN contexts : ~IsLive(contexts'[c])
             /\ \A p \in Providers : holds'[p] = None
             /\ \/ state' = "CANCELLED"
                \/ state = "FULFILLMENT_ACTIVE" /\ state' = state
  <2>1. \A a \in DOMAIN assignments : ~IsActiveAssignment(a)'
    BY <1>1, EndActiveRows DEF CancelService, TypeOK, IsActiveAssignment
  <2>2. \A c \in DOMAIN contexts : ~IsLive(contexts'[c])
    BY <1>1, EndedRows DEF CancelService, EndLiveContext, TypeOK
  <2>3. \A p \in Providers : holds'[p] = None
    BY <1>1 DEF CancelService, ReleaseAllCapacity
  <2>4. state' = "CANCELLED" \/ (state = "FULFILLMENT_ACTIVE" /\ state' = state)
    BY <1>1, OnlyActiveWorkResists DEF CancelService, Transition, TypeOK
  <2> QED
    BY <2>1, <2>2, <2>3, <2>4
<1>2. TypeOK /\ [Next]_vars =>
        [Revokes =>
                 /\ \A a \in DOMAIN assignments : ~IsActiveAssignment(a)'
                 /\ \A c \in DOMAIN contexts : ~IsLive(contexts'[c])
                 /\ \A p \in Providers : holds'[p] = None
                 /\ \/ state' = "CANCELLED"
                    \/ state = "FULFILLMENT_ACTIVE" /\ state' = state]_vars
  BY <1>1, OnlyCancelRevokes
<1> QED
  BY <1>2, TypeCorrect, PTL DEF Spec
=============================================================================
