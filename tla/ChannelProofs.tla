--------------------------- MODULE ChannelProofs ---------------------------
(***************************************************************************)
(* Theorems about the conversation, for any events, any number of messages *)
(* and any bounds of the request.  A conversation is a behaviour of        *)
(* RequestLifecycle, so what is proved of the request holds here too; on   *)
(* that rests an invariant that ties three tables together: what an action *)
(* on record did, which event it answers, and what the request shows.      *)
(***************************************************************************)
EXTENDS Channel, RequestSafetyProofs

(* What an accepted action did still stands.                               *)
Stands(row) ==
    row.outcome = "ACCEPTED" =>
       /\ row.intent = "PROVIDER_ACCEPT" =>
             row.attempt \in DOMAIN attempts /\ attempts[row.attempt].state = "ACCEPTED"
       /\ row.intent = "PROVIDER_DECLINE" =>
             row.attempt \in DOMAIN attempts /\ attempts[row.attempt].state = "DECLINED"
       /\ row.intent = "CUSTOMER_CONFIRM" =>
             1 \in DOMAIN contexts /\ contexts[1].status # "PENDING"
       /\ row.intent = "CUSTOMER_DECLINE" => state = "CANCELLED"

ActionsStand == \A k \in Keys : Stands(actions[k])

(* No two accepted actions are the same action.                            *)
ActionsDiffer ==
    \A k, l \in Keys :
       /\ actions[k].outcome = "ACCEPTED" /\ actions[l].outcome = "ACCEPTED"
       /\ actions[k].intent = actions[l].intent
       /\ actions[k].attempt = actions[l].attempt
       => k = l

(* An accepted answer is an action on record, about what it replied to.    *)
OnRecord(e) ==
    events[e].outcome = "ACCEPTED" =>
       LET message == messages[events[e].message]
       IN  /\ actions[Key(e)].outcome = "ACCEPTED"
           /\ actions[Key(e)].intent = events[e].intent
           /\ actions[Key(e)].attempt = PayloadOf(message)
           /\ \E agreed \in BOOLEAN : events[e].intent = IntentOf(message, agreed)

AnswersOnRecord == \A e \in Events : OnRecord(e)

(* What was decided has the event that decided it.                         *)
DecisionsAnswered ==
    /\ \A i \in DOMAIN attempts :
          /\ attempts[i].state = "ACCEPTED" =>
                \E e \in Events : IsAnswer(e, "PROVIDER_ACCEPT") /\ About(e) = i
          /\ attempts[i].state = "DECLINED" =>
                \E e \in Events : IsAnswer(e, "PROVIDER_DECLINE") /\ About(e) = i
    /\ \A c \in DOMAIN contexts :
          contexts[c].status = "CONFIRMED" =>
             \E e \in Events : IsAnswer(e, "CUSTOMER_CONFIRM") /\ About(e) = c

CInv == /\ ChannelTypeOK /\ OfferMatchesRequest /\ AskedOnce
        /\ ActionsStand /\ ActionsDiffer /\ AnswersOnRecord /\ DecisionsAnswered

-----------------------------------------------------------------------------
(* The conversation moves the request as RequestLifecycle does.            *)

LEMMA AcceptsMoves ==
    ASSUME NEW intent, NEW attempt, Accepts(intent, attempt)
    PROVE  Next
BY DEF Accepts, RecordProviderAcceptance, RecordProviderRejection, ResponseBinds,
       IsCurrentAttempt, Next, Response, OwnerAct

LEMMA LifecycleStep == [ChannelNext]_conversation => [Next]_vars
<1> SUFFICES ASSUME [ChannelNext]_conversation PROVE [Next]_vars
  OBVIOUS
<1>1. CASE Operate
  BY <1>1 DEF Operate, Next, Response, Surroundings
<1>2. CASE Send
  BY <1>2 DEF Send, SendProviderOfferMessage, SendCustomerConfirmationMessage, Persist
<1>3. CASE Ingest
  <2>1. ASSUME NEW e, NEW m, NEW intent, NEW outcome,
               ExecuteAnswer(e, m, intent, outcome) \/ ReplayAnswer(e, m, intent, outcome)
        PROVE  [Next]_vars
    <3>1. ASSUME NEW attempt, Refuses(intent, attempt) PROVE [Next]_vars
      BY <3>1 DEF Refuses, Next, OwnerAct
    <3> QED
      BY <2>1, <3>1, AcceptsMoves DEF ExecuteAnswer, ReplayAnswer
  <2> QED
    BY <1>3, <2>1 DEF Ingest, Receipt, RefuseEvent, Answer
<1>4. CASE UNCHANGED conversation
  BY <1>4 DEF conversation
<1> QED
  BY <1>1, <1>2, <1>3, <1>4 DEF ChannelNext

(* ingress.ts, outbound.ts: whatever is sent, answered, received and       *)
(* refused, the request behaves as RequestLifecycle specifies, so every    *)
(* theorem about the request is one about the conversation.                *)
THEOREM ConversationIsALifecycle == ChannelSpec => Spec
<1>1. ChannelInit => Init
  BY DEF ChannelInit
<1> QED
  BY <1>1, LifecycleStep, PTL DEF ChannelSpec, Spec

-----------------------------------------------------------------------------
(* What is recorded stays.                                                 *)

EventsEvolve ==
    /\ \A e \in Events : events[e] # NoEvent => events'[e] = events[e]
    /\ \A k \in Keys : actions[k] # NoAction => actions'[k] = actions[k]
    /\ \A m \in DOMAIN messages :
          /\ m \in DOMAIN messages'
          /\ messages'[m].type = messages[m].type
          /\ messages'[m].about = messages[m].about
          /\ messages[m].status = "SEND_FAILED" => messages'[m] = messages[m]

LEMMA NothingRecorded == UNCHANGED channelVars => EventsEvolve
BY DEF channelVars, EventsEvolve

(* One event is recorded, and at most the action it asked for.             *)
LEMMA EventRecorded ==
    ASSUME ChannelTypeOK, NEW e \in Events, events[e] = NoEvent, NEW row,
           RecordEvent(e, row)
    PROVE  /\ \A d \in Events : events[d] # NoEvent => events'[d] = events[d]
           /\ events'[e] = row
           /\ \A d \in Events : d # e => events'[d] = events[d]
BY DEF RecordEvent, ChannelTypeOK

(* A message is sent about an offer or a context there is.                 *)
SentOnly ==
    /\ messages' \in Seq(Message)
    /\ \A m \in DOMAIN messages' :
          messages'[m].about \in IF messages'[m].type = "PROVIDER_OFFER"
                                 THEN DOMAIN attempts ELSE DOMAIN contexts
    /\ UNCHANGED <<vars, events, actions>>
    /\ EventsEvolve

LEMMA PersistStep ==
    ASSUME ChannelTypeOK, NEW type \in MessageTypes, NEW about,
           about \in IF type = "PROVIDER_OFFER" THEN DOMAIN attempts
                                                ELSE DOMAIN contexts,
           NEW status \in {"SENT", "SEND_FAILED"}, Persist(type, about, status)
    PROVE  SentOnly
<1> DEFINE row == [type |-> type, about |-> about, status |-> status]
<1>2. about \in Nat \ {0}
  <2>1. attempts \in Seq(Attempt) /\ contexts \in Seq(Context)
    BY DEF ChannelTypeOK, TypeOK
  <2>2. DOMAIN attempts \subseteq Nat \ {0} /\ DOMAIN contexts \subseteq Nat \ {0}
    BY <2>1, LenProperties
  <2> QED
    BY <2>2
<1>3. row \in Message /\ messages' = Append(messages, row)
  BY <1>2 DEF Persist, Message, MessageTypes, MessageStatuses
<1>4. messages \in Seq(Message)
  BY DEF ChannelTypeOK
<1>5. row.type = type /\ row.about = about
  OBVIOUS
<1> HIDE DEF row
<1>6. /\ DOMAIN messages = 1 .. Len(messages) /\ Len(messages) \in Nat
      /\ DOMAIN messages' = 1 .. Len(messages) + 1
      /\ \A m \in 1 .. Len(messages) : messages'[m] = messages[m]
      /\ messages'[Len(messages) + 1] = row /\ messages' \in Seq(Message)
  BY <1>3, <1>4, AppendProperties, LenProperties
<1>7. \A m \in DOMAIN messages' :
         messages'[m].about \in IF messages'[m].type = "PROVIDER_OFFER"
                                THEN DOMAIN attempts ELSE DOMAIN contexts
  <2>1. \A m \in DOMAIN messages :
           messages[m].about \in IF messages[m].type = "PROVIDER_OFFER"
                                 THEN DOMAIN attempts ELSE DOMAIN contexts
    BY DEF ChannelTypeOK
  <2> QED
    BY <1>5, <1>6, <2>1
<1>8. UNCHANGED <<vars, events, actions>>
  BY DEF Persist
<1> QED
  BY <1>6, <1>7, <1>8 DEF EventsEvolve, SentOnly

LEMMA SendStep ==
    ASSUME ChannelTypeOK, Send
    PROVE  SentOnly
<1>1. ASSUME NEW i \in DOMAIN attempts, NEW status \in {"SENT", "SEND_FAILED"},
             SendProviderOfferMessage(i, status)
      PROVE  SentOnly
  BY <1>1, PersistStep DEF SendProviderOfferMessage, MessageTypes
<1>2. ASSUME NEW c \in DOMAIN contexts, NEW status \in {"SENT", "SEND_FAILED"},
             SendCustomerConfirmationMessage(c, status)
      PROVE  SentOnly
  BY <1>2, PersistStep DEF SendCustomerConfirmationMessage, MessageTypes
<1> QED
  BY <1>1, <1>2 DEF Send

(* A receipt moves a status and nothing else.                              *)
LEMMA ReceiptStep ==
    ASSUME ChannelTypeOK, NEW e \in Events, NEW m \in DOMAIN messages,
           NEW status \in {"DELIVERED", "READ"}, Receipt(e, m, status)
    PROVE  /\ messages' \in Seq(Message) /\ DOMAIN messages' = DOMAIN messages
           /\ UNCHANGED <<vars, actions>>
           /\ events'[e] = Received /\ \A d \in Events : d # e => events'[d] = events[d]
           /\ EventsEvolve
<1>1. messages \in Seq(Message) /\ DOMAIN messages = 1 .. Len(messages)
  BY LenProperties DEF ChannelTypeOK
<1>2. messages[m] \in Message
  BY <1>1, ElementOfSeq
<1> DEFINE row == [messages[m] EXCEPT !.status = status]
<1>3. row \in Message /\ row.type = messages[m].type /\ row.about = messages[m].about
  BY <1>2 DEF Message, MessageStatuses
<1>4. \/ messages' = messages
      \/ messages[m].status # "SEND_FAILED" /\ messages' = [messages EXCEPT ![m] = row]
  BY DEF Receipt
<1> HIDE DEF row
<1>5. /\ messages' \in Seq(Message) /\ DOMAIN messages' = DOMAIN messages
      /\ \A n \in DOMAIN messages :
            /\ messages'[n].type = messages[n].type
            /\ messages'[n].about = messages[n].about
            /\ messages[n].status = "SEND_FAILED" => messages'[n] = messages[n]
  <2>1. CASE messages' = messages
    BY <1>1, <2>1
  <2>2. CASE /\ messages[m].status # "SEND_FAILED"
             /\ messages' = [messages EXCEPT ![m] = row]
    <3>1. messages' \in Seq(Message) /\ Len(messages') = Len(messages)
      BY <1>1, <1>3, <2>2, ExceptSeq
    <3> QED
      BY <1>1, <1>3, <2>2, <3>1, LenProperties
  <2> QED
    BY <1>4, <2>1, <2>2
<1>6. /\ events'[e] = Received /\ \A d \in Events : d # e => events'[d] = events[d]
      /\ \A d \in Events : events[d] # NoEvent => events'[d] = events[d]
      /\ UNCHANGED <<vars, actions>>
  BY EventRecorded DEF Receipt, IsFirstDelivery
<1> QED
  BY <1>5, <1>6 DEF EventsEvolve

-----------------------------------------------------------------------------
(* The request, as the conversation sees it.                               *)

(* What an accepted action did is never undone.                            *)
LEMMA StandsKept ==
    ASSUME TypeOK, [Next]_vars, NEW row, Stands(row)
    PROVE  Stands(row)'
<1>1. AttemptsEvolve /\ ContextsEvolve
  BY AttemptsStep, ContextsStep
<1>2. state = "CANCELLED" => state' = "CANCELLED"
  BY TerminalStep DEF Terminal, evidence
<1> QED
  BY <1>1, <1>2 DEF Stands, AttemptsEvolve, ContextsEvolve, IsLive

(* An action that is accepted does what it says,                           *)
LEMMA AcceptedStands ==
    ASSUME TypeOK, AskedOnce, NEW row, Accepts(row.intent, row.attempt)
    PROVE  Stands(row)'
<1>1. ASSUME NEW i, NEW decision \in AttemptStates, ResponseBinds(i),
             Decide(i, decision)
      PROVE  i \in DOMAIN attempts' /\ attempts'[i].state = decision
  BY <1>1, DecideRows DEF ResponseBinds, IsCurrentAttempt, Decide, TypeOK
<1>2. RecordCustomerConfirmation =>
         1 \in DOMAIN contexts' /\ contexts'[1].status # "PENDING"
  <2> SUFFICES ASSUME RecordCustomerConfirmation
               PROVE  1 \in DOMAIN contexts' /\ contexts'[1].status # "PENDING"
    OBVIOUS
  <2>1. PICK c \in DOMAIN contexts :
           contexts' = [contexts EXCEPT ![c].status = "CONFIRMED"]
    BY DEF RecordCustomerConfirmation
  <2>2. c = 1 /\ contexts[c] \in Context
    BY ElementOfSeq, LenProperties DEF AskedOnce, TypeOK
  <2> QED
    BY <2>1, <2>2 DEF Context
<1> QED
  BY <1>1, <1>2
  DEF Accepts, Stands, RecordProviderAcceptance, RecordProviderRejection, AttemptStates

(* and is not accepted again.                                              *)
LEMMA AcceptedOnce ==
    ASSUME AskedOnce, NEW row, row.outcome = "ACCEPTED", Stands(row)
    PROVE  ~Accepts(row.intent, row.attempt)
<1>1. row.intent = "CUSTOMER_DECLINE" => ~CancelService
  BY DEF Stands, CancelService, Terminal
<1>2. row.intent = "CUSTOMER_CONFIRM" => ~RecordCustomerConfirmation
  BY DEF Stands, RecordCustomerConfirmation, AskedOnce
<1> QED
  BY <1>1, <1>2
  DEF Accepts, Stands, RecordProviderAcceptance, RecordProviderRejection,
      ResponseBinds, IsCurrentAttempt

(* Whatever is no accepted answer decides nothing.                         *)
NothingDecided ==
    /\ \A i \in DOMAIN attempts' :
          attempts'[i].state \in {"ACCEPTED", "DECLINED"} =>
             i \in DOMAIN attempts /\ attempts'[i].state = attempts[i].state
    /\ \A c \in DOMAIN contexts' :
          contexts'[c].status = "CONFIRMED" =>
             c \in DOMAIN contexts /\ contexts[c].status = "CONFIRMED"

LEMMA DecidesNothingFrame ==
    ASSUME TypeOK,
           UNCHANGED attempts,
           \/ UNCHANGED contexts
           \/ \E status \in {"SUPERSEDED", "WITHDRAWN"} : EndLiveContext(status)
    PROVE  NothingDecided
<1>1. CASE UNCHANGED contexts
  BY <1>1 DEF NothingDecided
<1>2. ASSUME NEW status \in {"SUPERSEDED", "WITHDRAWN"}, EndLiveContext(status)
      PROVE  NothingDecided
  BY <1>2, ContextsEnded DEF EndLiveContext, NothingDecided, IsLive
<1> QED
  BY <1>1, <1>2

LEMMA OperateDecidesNothing ==
    ASSUME TypeOK, Operate
    PROVE  NothingDecided
<1>1. ASSUME NEW p \in Providers, DispatchProvider(p) PROVE NothingDecided
  <2>1. /\ [provider |-> p, state |-> "OFFERED"] \in Attempt
        /\ attempts' = Append(attempts, [provider |-> p, state |-> "OFFERED"])
        /\ UNCHANGED contexts
    BY <1>1 DEF DispatchProvider, Attempt, AttemptStates, consentVars
  <2>2. /\ DOMAIN attempts = 1 .. Len(attempts) /\ Len(attempts) \in Nat
        /\ DOMAIN attempts' = 1 .. Len(attempts) + 1
        /\ \A j \in 1 .. Len(attempts) : attempts'[j] = attempts[j]
        /\ attempts'[Len(attempts) + 1].state = "OFFERED"
    BY <2>1, AppendProperties, LenProperties DEF TypeOK
  <2> QED
    BY <2>1, <2>2 DEF NothingDecided
<1>2. CASE RequestCustomerConfirmation
  <2> DEFINE ended == [c \in DOMAIN contexts |-> Ended(contexts[c], "SUPERSEDED")]
  <2>1. PICK a \in DOMAIN assignments :
           contexts' = Append(ended, [assignment |-> a, version |-> currentVersion,
                                      status |-> "PENDING"])
    BY <1>2 DEF RequestCustomerConfirmation
  <2>2. a \in 1 .. MaxAssignments
    BY LenProperties, BoundsAssumption DEF TypeOK
  <2>3. [assignment |-> a, version |-> currentVersion, status |-> "PENDING"] \in Context
    BY <2>2 DEF TypeOK, Context, ContextStatuses
  <2>4. /\ ended \in Seq(Context) /\ DOMAIN ended = DOMAIN contexts
        /\ \A c \in DOMAIN contexts : ~IsLive(ended[c])
    BY ContextsEnded
  <2> HIDE DEF ended
  <2>5. /\ DOMAIN ended = 1 .. Len(ended) /\ Len(ended) \in Nat
        /\ DOMAIN contexts' = 1 .. Len(ended) + 1
        /\ \A c \in 1 .. Len(ended) : contexts'[c] = ended[c]
        /\ contexts'[Len(ended) + 1].status = "PENDING"
    BY <2>1, <2>3, <2>4, AppendProperties, LenProperties
  <2>6. UNCHANGED attempts
    BY <1>2 DEF RequestCustomerConfirmation, dispatchVars
  <2> QED
    BY <2>4, <2>5, <2>6 DEF NothingDecided, IsLive
<1>3. ASSUME NEW p \in Providers, ReassignProvider(p) PROVE NothingDecided
  BY <1>3, DecidesNothingFrame DEF ReassignProvider, dispatchVars
<1>4. CASE CancelService
  BY <1>4, DecidesNothingFrame DEF CancelService, dispatchVars
<1>5. CASE OwnerAct
  BY <1>1, <1>2, <1>3, <1>4, <1>5, DecidesNothingFrame
  DEF OwnerAct, QualifyRequest, StartFulfillment, CompleteService, MarkNoShow,
      MarkUnableToFulfill, Conclude, RecordCapacityLoss, InitiateOperationalRecovery,
      dispatchVars, consentVars
<1>6. ASSUME NEW i \in DOMAIN attempts, ExpireDispatch(i) PROVE NothingDecided
  <2>1. /\ DOMAIN attempts' = DOMAIN attempts /\ attempts'[i].state = "EXPIRED"
        /\ \A j \in DOMAIN attempts : j # i => attempts'[j] = attempts[j]
    BY <1>6, DecideRows DEF ExpireDispatch, Decide, AttemptStates, TypeOK
  <2>2. UNCHANGED contexts
    BY <1>6 DEF ExpireDispatch, consentVars
  <2> QED
    BY <2>1, <2>2 DEF NothingDecided
<1>7. ASSUME NEW i \in DOMAIN attempts, AssignProvider(i) PROVE NothingDecided
  BY <1>7, DecidesNothingFrame DEF AssignProvider, dispatchVars, consentVars
<1>8. CASE AcceptanceWindowCloses \/ ConfirmationWindowCloses
  BY <1>8, DecidesNothingFrame
  DEF AcceptanceWindowCloses, ConfirmationWindowCloses, dispatchVars, consentVars
<1> QED
  BY <1>5, <1>6, <1>7, <1>8 DEF Operate

-----------------------------------------------------------------------------
(* The tables, step by step.                                               *)

LEMMA KeyTyped == \A e \in Events : Key(e) \in Keys
BY DEF Keys

(* An accepted answer keeps its message and what the message is about.     *)
LEMMA AnswerKept ==
    ASSUME ChannelTypeOK, EventsEvolve, NEW e \in Events,
           events[e].outcome = "ACCEPTED"
    PROVE  /\ events'[e] = events[e]
           /\ events[e].message \in DOMAIN messages
           /\ events[e].message \in DOMAIN messages'
           /\ LET m == events[e].message
              IN  messages'[m].type = messages[m].type
                     /\ messages'[m].about = messages[m].about
<1>1. events[e] # NoEvent
  BY DEF NoEvent, None
<1> QED
  BY <1>1 DEF ChannelTypeOK, EventsEvolve

LEMMA OnRecordKept ==
    ASSUME ChannelTypeOK, EventsEvolve, NEW e \in Events,
           events[e].outcome = "ACCEPTED", OnRecord(e)
    PROVE  OnRecord(e)'
<1>1. actions[Key(e)] # NoAction
  BY DEF OnRecord, NoAction, None
<1>2. actions'[Key(e)] = actions[Key(e)]
  BY <1>1, KeyTyped DEF EventsEvolve
<1>3. /\ events'[e] = events[e]
      /\ LET m == events[e].message
         IN  messages'[m].type = messages[m].type /\ messages'[m].about = messages[m].about
  BY AnswerKept
<1> QED
  BY <1>2, <1>3 DEF OnRecord, PayloadOf, IntentOf

LEMMA DecisionsKept ==
    ASSUME ChannelTypeOK, EventsEvolve, DecisionsAnswered
    PROVE  /\ \A i \in DOMAIN attempts :
                 /\ attempts[i].state = "ACCEPTED" =>
                       \E e \in Events : (IsAnswer(e, "PROVIDER_ACCEPT") /\ About(e) = i)'
                 /\ attempts[i].state = "DECLINED" =>
                       \E e \in Events : (IsAnswer(e, "PROVIDER_DECLINE") /\ About(e) = i)'
           /\ \A c \in DOMAIN contexts :
                 contexts[c].status = "CONFIRMED" =>
                    \E e \in Events : (IsAnswer(e, "CUSTOMER_CONFIRM") /\ About(e) = c)'
<1>1. ASSUME NEW e \in Events, NEW intent, IsAnswer(e, intent)
      PROVE  events'[e].outcome = "ACCEPTED" /\ events'[e].intent = intent
             /\ messages'[events'[e].message].about = About(e)
  BY <1>1, AnswerKept DEF IsAnswer, About
<1> QED
  BY <1>1 DEF DecisionsAnswered, IsAnswer, About

(* Messages go on being about rows that exist.                             *)
LEMMA MessagesStep ==
    ASSUME ChannelTypeOK, [Next]_vars, EventsEvolve, DOMAIN messages' = DOMAIN messages
    PROVE  \A m \in DOMAIN messages' :
              messages'[m].about \in IF messages'[m].type = "PROVIDER_OFFER"
                                     THEN DOMAIN attempts' ELSE DOMAIN contexts'
<1>1. AttemptsEvolve /\ ContextsEvolve
  BY AttemptsStep, ContextsStep DEF ChannelTypeOK
<1> QED
  BY <1>1 DEF ChannelTypeOK, EventsEvolve, AttemptsEvolve, ContextsEvolve

(* A step that accepts no answer.                                          *)
LEMMA QuietStep ==
    ASSUME CInv, [Next]_vars, ChannelTypeOK', EventsEvolve, NothingDecided,
           \A k \in Keys : actions'[k].outcome = "ACCEPTED" => actions'[k] = actions[k],
           \A d \in Events : events'[d].outcome = "ACCEPTED" => events'[d] = events[d]
    PROVE  CInv'
<1>1. TypeOK /\ ChannelTypeOK
  BY DEF CInv, ChannelTypeOK
<1>2. OfferMatchesRequest' /\ AskedOnce'
  BY <1>1, OfferStep, AskedOnceStep DEF CInv
<1>3. ActionsStand'
  <2> SUFFICES ASSUME NEW k \in Keys PROVE Stands(actions[k])'
    BY DEF ActionsStand
  <2>1. CASE actions'[k].outcome # "ACCEPTED"
    BY <2>1 DEF Stands
  <2>2. CASE actions'[k] = actions[k]
    <3>1. \A row : Stands(row) => Stands(row)'
      BY <1>1, StandsKept
    <3>2. Stands(actions[k])
      BY DEF CInv, ActionsStand
    <3> QED
      BY <2>2, <3>1, <3>2 DEF Stands
  <2> QED
    BY <2>1, <2>2
<1>4. ActionsDiffer'
  BY DEF CInv, ActionsDiffer
<1>5. AnswersOnRecord'
  <2> SUFFICES ASSUME NEW e \in Events, events'[e].outcome = "ACCEPTED"
               PROVE  OnRecord(e)'
    BY DEF AnswersOnRecord, OnRecord
  <2>1. events[e].outcome = "ACCEPTED"
    OBVIOUS
  <2> QED
    BY <1>1, <2>1, OnRecordKept DEF CInv, AnswersOnRecord
<1>6. DecisionsAnswered'
  BY <1>1, DecisionsKept DEF CInv, NothingDecided, DecisionsAnswered
<1> QED
  BY <1>2, <1>3, <1>4, <1>5, <1>6 DEF CInv

(* What an answer records, and where.                                      *)
LEMMA AnswerRecords ==
    ASSUME ChannelTypeOK, NEW e \in Events, NEW m \in DOMAIN messages,
           NEW agreed \in BOOLEAN, NEW outcome \in {"ACCEPTED", "REFUSED"},
           Answer(e, m, agreed, outcome)
    PROVE  /\ ChannelTypeOK' /\ EventsEvolve /\ [Next]_vars
           /\ UNCHANGED messages /\ events[e] = NoEvent
           /\ events'[e] = IF outcome = "REFUSED" THEN Refused
                           ELSE [outcome |-> outcome, message |-> m,
                                 intent |-> IntentOf(messages[m], agreed)]
           /\ \A d \in Events : d # e => events'[d] = events[d]
           /\ \A k \in Keys : k # Key(e) => actions'[k] = actions[k]
<1> DEFINE intent == IntentOf(messages[m], agreed)
           row == [outcome |-> outcome, intent |-> intent, message |-> m]
           done == [intent |-> intent, attempt |-> PayloadOf(messages[m]),
                    outcome |-> outcome]
<1>1. messages \in Seq(Message) /\ DOMAIN messages = 1 .. Len(messages)
  BY LenProperties DEF ChannelTypeOK
<1>2. messages[m] \in Message /\ m \in Nat \ {0}
  BY <1>1, ElementOfSeq, LenProperties
<1>3. intent \in Intents /\ PayloadOf(messages[m]) \in Nat
  BY <1>2 DEF IntentOf, Intents, PayloadOf, Message
<1>4. /\ outcome = "ACCEPTED" => row \in EventRow
      /\ done \in ActionRow
  BY <1>2, <1>3 DEF EventRow, ActionRow
<1>5. /\ events[e] = NoEvent /\ UNCHANGED messages
      /\ ExecuteAnswer(e, m, intent, outcome) \/ ReplayAnswer(e, m, intent, outcome)
      /\ RecordEvent(e, IF outcome = "REFUSED" THEN Refused ELSE row)
  BY DEF Answer, IsFirstDelivery
<1>6. \/ actions' = actions
      \/ actions[Key(e)] = NoAction /\ actions' = [actions EXCEPT ![Key(e)] = done]
  BY <1>5 DEF ExecuteAnswer, ReplayAnswer, RecordAction
<1>7. [Next]_vars
  BY LifecycleStep DEF ChannelNext, Ingest
<1> HIDE DEF row, done, intent
<1>8. /\ events'[e] = IF outcome = "REFUSED" THEN Refused ELSE row
      /\ \A d \in Events : d # e => events'[d] = events[d]
      /\ \A d \in Events : events[d] # NoEvent => events'[d] = events[d]
  BY <1>5, EventRecorded
<1>9. events' \in [Events -> EventRow \union {NoEvent, Received, Refused}]
  BY <1>4, <1>5 DEF RecordEvent, ChannelTypeOK
<1>10. /\ actions' \in [Keys -> ActionRow \union {NoAction}]
       /\ \A k \in Keys : k # Key(e) => actions'[k] = actions[k]
       /\ \A k \in Keys : actions[k] # NoAction => actions'[k] = actions[k]
  BY <1>4, <1>6, KeyTyped DEF ChannelTypeOK
<1>11. EventsEvolve
  BY <1>5, <1>8, <1>10 DEF EventsEvolve
<1>12. ChannelTypeOK'
  <2>1. TypeOK'
    BY <1>7, TypeStep DEF ChannelTypeOK
  <2>2. \A d \in Events : events'[d].outcome = "ACCEPTED" =>
           events'[d].message \in DOMAIN messages'
    BY <1>5, <1>8 DEF ChannelTypeOK, row, Refused
  <2>3. \A n \in DOMAIN messages' :
           messages'[n].about \in IF messages'[n].type = "PROVIDER_OFFER"
                                  THEN DOMAIN attempts' ELSE DOMAIN contexts'
    BY <1>5, <1>7, <1>11, MessagesStep
  <2> QED
    BY <1>1, <1>5, <1>9, <1>10, <2>1, <2>2, <2>3 DEF ChannelTypeOK
<1> QED
  BY <1>5, <1>7, <1>8, <1>10, <1>11, <1>12 DEF row, intent

(* A refused answer decides nothing, though a refused cancellation writes. *)
LEMMA RefusedAnswerStep ==
    ASSUME CInv, NEW e \in Events, NEW m \in DOMAIN messages, NEW agreed \in BOOLEAN,
           Answer(e, m, agreed, "REFUSED")
    PROVE  CInv' /\ UNCHANGED <<state, judgement, attempts, recovery, result>>
<1> DEFINE intent == IntentOf(messages[m], agreed)
           attempt == PayloadOf(messages[m])
<1>1. TypeOK /\ ChannelTypeOK
  BY DEF CInv, ChannelTypeOK
<1>2. \/ ReplayAnswer(e, m, intent, "REFUSED")
      \/ /\ actions[Key(e)] = NoAction
         /\ Refuses(intent, attempt)
         /\ RecordAction(e, messages[m], intent, "REFUSED")
  BY DEF Answer, ExecuteAnswer
<1> HIDE DEF intent, attempt
<1>3. UNCHANGED vars \/ (CancelService /\ state' # "CANCELLED")
  BY <1>2 DEF Refuses, ReplayAnswer
<1>4. NothingDecided /\ UNCHANGED <<state, judgement, attempts, recovery, result>>
  <2>1. CASE UNCHANGED vars
    <3>1. UNCHANGED <<state, judgement, attempts, contexts, recovery, result>>
      BY <2>1 DEF vars
    <3> QED
      BY <1>1, <3>1, DecidesNothingFrame
  <2>2. CASE CancelService /\ state' # "CANCELLED"
    <3>1. EndLiveContext("WITHDRAWN") /\ UNCHANGED <<state, judgement, attempts,
                                                    recovery, result>>
      BY <2>2 DEF CancelService, Transition, demandVars, dispatchVars
    <3> QED
      BY <1>1, <3>1, DecidesNothingFrame
  <2> QED
    BY <1>3, <2>1, <2>2
<1>5. \A k \in Keys : actions'[k].outcome = "ACCEPTED" => actions'[k] = actions[k]
  BY <1>1, <1>2 DEF ReplayAnswer, RecordAction, ChannelTypeOK
<1>6. /\ ChannelTypeOK' /\ EventsEvolve /\ [Next]_vars
      /\ events'[e] = Refused
      /\ \A d \in Events : d # e => events'[d] = events[d]
  BY <1>1, AnswerRecords
<1>7. \A d \in Events : events'[d].outcome = "ACCEPTED" => events'[d] = events[d]
  BY <1>6 DEF Refused
<1> QED
  BY <1>4, <1>5, <1>6, <1>7, QuietStep

(* An accepted answer is, or was, an accepted action about the same thing. *)
LEMMA AcceptedAnswerStep ==
    ASSUME CInv, NEW e \in Events, NEW m \in DOMAIN messages, NEW agreed \in BOOLEAN,
           Answer(e, m, agreed, "ACCEPTED")
    PROVE  CInv'
<1> SUFFICES ASSUME NEW intent, intent = IntentOf(messages[m], agreed),
                    NEW attempt, attempt = PayloadOf(messages[m]),
                    NEW done, done = [intent |-> intent, attempt |-> attempt,
                                      outcome |-> "ACCEPTED"]
             PROVE  CInv'
  OBVIOUS
<1>1. TypeOK /\ ChannelTypeOK /\ AskedOnce
  BY DEF CInv, ChannelTypeOK
<1>2. \/ ReplayAnswer(e, m, intent, "ACCEPTED")
      \/ /\ actions[Key(e)] = NoAction
         /\ Accepts(intent, attempt)
         /\ actions' = [actions EXCEPT ![Key(e)] = done]
  BY DEF Answer, ExecuteAnswer, RecordAction
<1>3. /\ ChannelTypeOK' /\ EventsEvolve /\ [Next]_vars /\ UNCHANGED messages
      /\ events'[e] = [outcome |-> "ACCEPTED", message |-> m, intent |-> intent]
      /\ \A d \in Events : d # e => events'[d] = events[d]
      /\ \A k \in Keys : k # Key(e) => actions'[k] = actions[k]
      /\ events[e] = NoEvent
  BY <1>1, AnswerRecords
<1>4. /\ done.intent = intent /\ done.attempt = attempt /\ done.outcome = "ACCEPTED"
  OBVIOUS
<1>5. Key(e) \in Keys
  BY KeyTyped
<1>6. OfferMatchesRequest' /\ AskedOnce'
  BY <1>1, <1>3, OfferStep, AskedOnceStep DEF CInv
<1>7. /\ actions'[Key(e)].outcome = "ACCEPTED"
      /\ actions'[Key(e)].intent = intent
      /\ actions'[Key(e)].attempt = attempt
  <2>1. CASE ReplayAnswer(e, m, intent, "ACCEPTED")
    BY <1>4, <2>1 DEF ReplayAnswer, RepliesFrom
  <2>2. CASE actions' = [actions EXCEPT ![Key(e)] = done]
    BY <1>1, <1>4, <1>5, <2>2 DEF ChannelTypeOK
  <2> QED
    BY <1>2, <2>1, <2>2
<1>8. ActionsStand'
  <2>1. \A row : Stands(row) => Stands(row)'
    BY <1>1, <1>3, StandsKept
  <2>2. ASSUME NEW k \in Keys, actions'[k] = actions[k] PROVE Stands(actions[k])'
    <3>1. Stands(actions[k])
      BY DEF CInv, ActionsStand
    <3> QED
      BY <2>1, <2>2, <3>1 DEF Stands
  <2>3. CASE ReplayAnswer(e, m, intent, "ACCEPTED")
    BY <2>2, <2>3 DEF ReplayAnswer, ActionsStand
  <2>4. CASE Accepts(intent, attempt) /\ actions' = [actions EXCEPT ![Key(e)] = done]
    <3>1. Stands(done)'
      BY <1>1, <1>4, <2>4, AcceptedStands
    <3>2. actions'[Key(e)] = done
      BY <1>1, <1>5, <2>4 DEF ChannelTypeOK
    <3>3. Stands(actions[Key(e)])'
      BY <3>1, <3>2 DEF Stands
    <3> QED
      BY <1>3, <2>2, <3>3 DEF ActionsStand
  <2> QED
    BY <1>2, <2>3, <2>4
<1>9. ActionsDiffer'
  <2>1. CASE ReplayAnswer(e, m, intent, "ACCEPTED")
    BY <2>1 DEF ReplayAnswer, CInv, ActionsDiffer
  <2>2. CASE Accepts(intent, attempt) /\ actions' = [actions EXCEPT ![Key(e)] = done]
    <3>1. ASSUME NEW k \in Keys, k # Key(e), actions'[k].outcome = "ACCEPTED",
                 actions'[k].intent = intent, actions'[k].attempt = attempt
          PROVE  FALSE
      <4>1. actions[k].outcome = "ACCEPTED" /\ Stands(actions[k])
        BY <1>3, <3>1 DEF CInv, ActionsStand
      <4>2. ~Accepts(actions[k].intent, actions[k].attempt)
        BY <1>1, <4>1, AcceptedOnce
      <4> QED
        BY <1>3, <2>2, <3>1, <4>2
    <3> QED
      BY <1>3, <1>7, <3>1 DEF CInv, ActionsDiffer
  <2> QED
    BY <1>2, <2>1, <2>2
<1>10. AnswersOnRecord'
  <2>1. OnRecord(e)'
    BY <1>3, <1>4, <1>7 DEF OnRecord
  <2>2. ASSUME NEW d \in Events, d # e, events'[d].outcome = "ACCEPTED"
        PROVE  OnRecord(d)'
    <3>1. events[d].outcome = "ACCEPTED" /\ OnRecord(d)
      BY <1>3, <2>2 DEF CInv, AnswersOnRecord
    <3> QED
      BY <1>1, <1>3, <3>1, OnRecordKept
  <2> QED
    BY <2>1, <2>2 DEF AnswersOnRecord, OnRecord
<1>11. DecisionsAnswered'
  <2>1. IsAnswer(e, intent)' /\ About(e)' = messages[m].about
    BY <1>3 DEF IsAnswer, About
  <2>2. CASE NothingDecided
    BY <1>1, <1>3, <2>2, DecisionsKept DEF CInv, NothingDecided, DecisionsAnswered
  <2>3. CASE intent = "PROVIDER_ACCEPT" /\ RecordProviderAcceptance(attempt)
    <3>1. attempt \in DOMAIN attempts /\ attempt = messages[m].about
      BY <1>4, <2>3
      DEF RecordProviderAcceptance, ResponseBinds, IsCurrentAttempt, IntentOf, PayloadOf
    <3>2. /\ DOMAIN attempts' = DOMAIN attempts
          /\ attempts'[attempt].state = "ACCEPTED"
          /\ \A j \in DOMAIN attempts : j # attempt => attempts'[j] = attempts[j]
          /\ UNCHANGED contexts
      BY <1>1, <2>3, <3>1, DecideRows
      DEF RecordProviderAcceptance, Decide, AttemptStates, TypeOK, consentVars
    <3> QED
      BY <1>1, <1>3, <2>1, <2>3, <3>1, <3>2, DecisionsKept DEF CInv, DecisionsAnswered
  <2>4. CASE intent = "PROVIDER_DECLINE" /\ RecordProviderRejection(attempt)
    <3>1. attempt \in DOMAIN attempts /\ attempt = messages[m].about
      BY <1>4, <2>4
      DEF RecordProviderRejection, ResponseBinds, IsCurrentAttempt, IntentOf, PayloadOf
    <3>2. /\ DOMAIN attempts' = DOMAIN attempts
          /\ attempts'[attempt].state = "DECLINED"
          /\ \A j \in DOMAIN attempts : j # attempt => attempts'[j] = attempts[j]
          /\ UNCHANGED contexts
      BY <1>1, <2>4, <3>1, DecideRows
      DEF RecordProviderRejection, Decide, AttemptStates, TypeOK, consentVars
    <3> QED
      BY <1>1, <1>3, <2>1, <2>4, <3>1, <3>2, DecisionsKept DEF CInv, DecisionsAnswered
  <2>5. CASE intent = "CUSTOMER_CONFIRM" /\ RecordCustomerConfirmation
    <3>1. DOMAIN contexts \subseteq {1} /\ DOMAIN contexts' = DOMAIN contexts
          /\ UNCHANGED attempts
      BY <1>1, <2>5 DEF AskedOnce, RecordCustomerConfirmation, dispatchVars
    <3>2. messages[m].about \in DOMAIN contexts
      BY <1>1, <1>4, <2>5 DEF IntentOf, ChannelTypeOK
    <3>3. \A c \in DOMAIN contexts' : c = messages[m].about
      BY <3>1, <3>2
    <3> QED
      BY <1>1, <1>3, <2>1, <2>5, <3>1, <3>3, DecisionsKept DEF CInv, DecisionsAnswered
  <2>6. CASE intent = "CUSTOMER_DECLINE" /\ CancelService
    <3>1. UNCHANGED attempts /\ EndLiveContext("WITHDRAWN")
      BY <2>6 DEF CancelService, dispatchVars
    <3> QED
      BY <1>1, <2>2, <3>1, DecidesNothingFrame
  <2>7. CASE ReplayAnswer(e, m, intent, "ACCEPTED")
    <3>1. UNCHANGED <<attempts, contexts>>
      BY <2>7 DEF ReplayAnswer, vars
    <3> QED
      BY <1>1, <2>2, <3>1, DecidesNothingFrame
  <2> QED
    BY <1>2, <2>3, <2>4, <2>5, <2>6, <2>7 DEF Accepts
<1> QED
  BY <1>3, <1>6, <1>8, <1>9, <1>10, <1>11 DEF CInv

-----------------------------------------------------------------------------
(* The behaviours.                                                         *)

LEMMA Initially == ChannelInit => CInv
<1> SUFFICES ASSUME ChannelInit PROVE CInv
  OBVIOUS
<1>1. TypeOK /\ DOMAIN messages = {} /\ DOMAIN attempts = {} /\ DOMAIN contexts = {}
  BY TypeInit DEF ChannelInit, Init
<1>2. ChannelTypeOK
  BY <1>1 DEF ChannelInit, ChannelTypeOK, NoEvent, None
<1>3. OfferMatchesRequest /\ AskedOnce /\ DecisionsAnswered
  BY <1>1 DEF ChannelInit, Init, OfferMatchesRequest, AskedOnce, DecisionsAnswered
<1>4. ActionsStand /\ ActionsDiffer /\ AnswersOnRecord
  BY DEF ChannelInit, ActionsStand, Stands, ActionsDiffer, AnswersOnRecord, OnRecord,
         NoEvent, NoAction, None
<1> QED
  BY <1>2, <1>3, <1>4 DEF CInv

LEMMA OperateStep == CInv /\ Operate => CInv' /\ EventsEvolve
<1> SUFFICES ASSUME CInv, Operate PROVE CInv' /\ EventsEvolve
  OBVIOUS
<1>1. TypeOK /\ ChannelTypeOK /\ UNCHANGED <<messages, events, actions>>
  BY DEF CInv, ChannelTypeOK, Operate, channelVars
<1>2. EventsEvolve /\ NothingDecided /\ [Next]_vars
  BY <1>1, NothingRecorded, OperateDecidesNothing, LifecycleStep
  DEF Operate, ChannelNext
<1>3. ChannelTypeOK'
  BY <1>1, <1>2, MessagesStep, TypeStep DEF ChannelTypeOK
<1> QED
  BY <1>1, <1>2, <1>3, QuietStep

LEMMA SendsStep == CInv /\ Send => CInv' /\ EventsEvolve
<1> SUFFICES ASSUME CInv, Send PROVE CInv' /\ EventsEvolve
  OBVIOUS
<1>1. TypeOK /\ ChannelTypeOK /\ SentOnly
  BY SendStep DEF CInv, ChannelTypeOK
<1>2. UNCHANGED <<vars, events, actions>> /\ EventsEvolve
  BY <1>1 DEF SentOnly
<1>3. UNCHANGED <<attempts, contexts>>
  BY <1>2 DEF vars
<1>4. TypeOK'
  BY <1>1, <1>2, TypeStep
<1>5. ChannelTypeOK'
  BY <1>1, <1>2, <1>3, <1>4 DEF ChannelTypeOK, SentOnly, EventsEvolve
<1>6. NothingDecided
  BY <1>1, <1>3, DecidesNothingFrame
<1> QED
  BY <1>2, <1>5, <1>6, QuietStep

(* What an inbound event does; a receipt, or a refusal, advances nothing.  *)
Advances == ~UNCHANGED <<state, judgement, attempts, recovery, result>>

LEMMA IngestStep ==
    ASSUME CInv, Ingest
    PROVE  /\ CInv' /\ EventsEvolve
           /\ Advances => \A d \in Events : events[d] = NoEvent /\ events'[d] # NoEvent
                                            => events'[d].outcome = "ACCEPTED"
<1>1. TypeOK /\ ChannelTypeOK
  BY DEF CInv, ChannelTypeOK
<1>2. ASSUME NEW e \in Events, NEW m \in DOMAIN messages,
             NEW status \in {"DELIVERED", "READ"}, Receipt(e, m, status)
      PROVE  CInv' /\ EventsEvolve /\ ~Advances
  <2>1. /\ messages' \in Seq(Message) /\ DOMAIN messages' = DOMAIN messages
        /\ UNCHANGED <<vars, actions>>
        /\ events'[e] = Received /\ \A d \in Events : d # e => events'[d] = events[d]
        /\ EventsEvolve
    BY <1>1, <1>2, ReceiptStep
  <2>2. UNCHANGED <<state, judgement, attempts, contexts, recovery, result>>
    BY <2>1 DEF vars
  <2>3. TypeOK' /\ [Next]_vars
    BY <1>1, <2>1, TypeStep
  <2>4. events' \in [Events -> EventRow \union {NoEvent, Received, Refused}]
    BY <1>1, <1>2 DEF Receipt, RecordEvent, ChannelTypeOK
  <2>5. ChannelTypeOK'
    <3>1. \A d \in Events : events'[d].outcome = "ACCEPTED" =>
             events'[d].message \in DOMAIN messages'
      BY <1>1, <2>1 DEF ChannelTypeOK, Received
    <3>2. \A n \in DOMAIN messages' :
             messages'[n].about \in IF messages'[n].type = "PROVIDER_OFFER"
                                    THEN DOMAIN attempts' ELSE DOMAIN contexts'
      BY <1>1, <2>1, <2>3, MessagesStep
    <3> QED
      BY <1>1, <2>1, <2>3, <2>4, <3>1, <3>2 DEF ChannelTypeOK
  <2>6. NothingDecided
    BY <1>1, <2>2, DecidesNothingFrame
  <2>7. \A d \in Events : events'[d].outcome = "ACCEPTED" => events'[d] = events[d]
    BY <2>1 DEF Received
  <2> QED
    BY <2>1, <2>2, <2>3, <2>5, <2>6, <2>7, QuietStep DEF Advances
<1>3. ASSUME NEW e \in Events, RefuseEvent(e)
      PROVE  CInv' /\ EventsEvolve /\ ~Advances
  <2>1. /\ UNCHANGED <<vars, messages, actions>>
        /\ events'[e] = Refused /\ \A d \in Events : d # e => events'[d] = events[d]
        /\ \A d \in Events : events[d] # NoEvent => events'[d] = events[d]
    BY <1>1, <1>3, EventRecorded DEF RefuseEvent, IsFirstDelivery
  <2>2. UNCHANGED <<state, judgement, attempts, contexts, recovery, result>>
    BY <2>1 DEF vars
  <2>3. TypeOK' /\ [Next]_vars /\ EventsEvolve
    BY <1>1, <2>1, TypeStep DEF EventsEvolve
  <2>4. events' \in [Events -> EventRow \union {NoEvent, Received, Refused}]
    BY <1>1, <1>3 DEF RefuseEvent, RecordEvent, ChannelTypeOK
  <2>5. \A d \in Events : events'[d].outcome = "ACCEPTED" => events'[d] = events[d]
    BY <2>1 DEF Refused
  <2>6. ChannelTypeOK'
    BY <1>1, <2>1, <2>2, <2>3, <2>4, <2>5 DEF ChannelTypeOK
  <2>7. NothingDecided
    BY <1>1, <2>2, DecidesNothingFrame
  <2> QED
    BY <2>1, <2>2, <2>3, <2>5, <2>6, <2>7, QuietStep DEF Advances
<1>4. ASSUME NEW e \in Events, NEW m \in DOMAIN messages, NEW agreed \in BOOLEAN,
             Answer(e, m, agreed, "REFUSED")
      PROVE  CInv' /\ EventsEvolve /\ ~Advances
  BY <1>1, <1>4, RefusedAnswerStep, AnswerRecords DEF Advances
<1>5. ASSUME NEW e \in Events, NEW m \in DOMAIN messages, NEW agreed \in BOOLEAN,
             Answer(e, m, agreed, "ACCEPTED")
      PROVE  /\ CInv' /\ EventsEvolve
             /\ \A d \in Events : events[d] = NoEvent /\ events'[d] # NoEvent
                                  => events'[d].outcome = "ACCEPTED"
  <2>1. /\ EventsEvolve
        /\ events'[e] = [outcome |-> "ACCEPTED", message |-> m,
                         intent |-> IntentOf(messages[m], agreed)]
        /\ \A d \in Events : d # e => events'[d] = events[d]
    BY <1>1, <1>5, AnswerRecords
  <2> QED
    BY <1>5, <2>1, AcceptedAnswerStep
<1> QED
  BY <1>2, <1>3, <1>4, <1>5 DEF Ingest

LEMMA Stutter == CInv /\ UNCHANGED conversation => CInv' /\ EventsEvolve
<1> SUFFICES ASSUME CInv, UNCHANGED conversation PROVE CInv' /\ EventsEvolve
  OBVIOUS
<1>1. TypeOK /\ UNCHANGED <<vars, messages, events, actions>>
  BY DEF CInv, ChannelTypeOK, conversation, channelVars
<1>2. UNCHANGED <<attempts, contexts>>
  BY <1>1 DEF vars
<1>3. EventsEvolve /\ NothingDecided /\ TypeOK'
  BY <1>1, <1>2, NothingRecorded, DecidesNothingFrame, TypeStep DEF channelVars
<1>4. ChannelTypeOK'
  BY <1>1, <1>2, <1>3 DEF CInv, ChannelTypeOK
<1> QED
  BY <1>1, <1>3, <1>4, QuietStep

LEMMA ConversationStep == CInv /\ [ChannelNext]_conversation => CInv' /\ EventsEvolve
BY OperateStep, SendsStep, IngestStep, Stutter DEF ChannelNext

LEMMA Inductive == ChannelSpec => []CInv
BY Initially, ConversationStep, PTL DEF ChannelSpec

-----------------------------------------------------------------------------
(* Rows keep their columns, and messages and events point to rows that     *)
(* exist, for any events and any number of messages.                       *)
THEOREM ChannelTypeCorrect == ChannelSpec => []ChannelTypeOK
<1>1. CInv => ChannelTypeOK
  BY DEF CInv
<1> QED
  BY Inductive, <1>1, PTL

(* channel/ingress.ts: whatever a provider or a customer is held to was    *)
(* said in a recorded event, in reply to a message about that very offer   *)
(* or context; and what an accepted event said, the request shows.         *)
THEOREM EveryDecisionHasItsEvent == ChannelSpec => []DecisionHasItsEvent
<1>1. CInv => DecisionHasItsEvent
  <2> SUFFICES ASSUME CInv PROVE DecisionHasItsEvent
    OBVIOUS
  <2>1. ASSUME NEW e \in Events, NEW intent, IsAnswer(e, intent)
        PROVE  /\ events[e].message \in DOMAIN messages
               /\ actions[Key(e)].outcome = "ACCEPTED"
               /\ actions[Key(e)].intent = intent
               /\ actions[Key(e)].attempt = PayloadOf(messages[events[e].message])
               /\ \E agreed \in BOOLEAN :
                     intent = IntentOf(messages[events[e].message], agreed)
               /\ Stands(actions[Key(e)])
    BY <2>1, KeyTyped
    DEF CInv, ChannelTypeOK, AnswersOnRecord, OnRecord, IsAnswer, ActionsStand
  <2>2. ASSUME NEW e \in Events, IsAnswer(e, "PROVIDER_ACCEPT")
        PROVE  attempts[About(e)].state = "ACCEPTED"
    BY <2>1, <2>2 DEF Stands, PayloadOf, IntentOf, About
  <2>3. ASSUME NEW e \in Events, IsAnswer(e, "PROVIDER_DECLINE")
        PROVE  attempts[About(e)].state = "DECLINED"
    BY <2>1, <2>3 DEF Stands, PayloadOf, IntentOf, About
  <2>4. ASSUME NEW e \in Events, IsAnswer(e, "CUSTOMER_CONFIRM")
        PROVE  contexts[About(e)].status # "PENDING"
    <3>1. messages[events[e].message].type # "PROVIDER_OFFER"
      BY <2>1, <2>4 DEF IntentOf
    <3>2. About(e) \in DOMAIN contexts
      BY <2>1, <2>4, <3>1 DEF CInv, ChannelTypeOK, About
    <3>3. About(e) = 1
      BY <3>2 DEF CInv, AskedOnce
    <3> QED
      BY <2>1, <2>4, <3>3 DEF Stands
  <2>5. ASSUME NEW e \in Events, IsAnswer(e, "CUSTOMER_DECLINE")
        PROVE  state = "CANCELLED"
    BY <2>1, <2>5 DEF Stands
  <2> QED
    BY <2>2, <2>3, <2>4, <2>5 DEF CInv, DecisionsAnswered, DecisionHasItsEvent
<1> QED
  BY Inductive, <1>1, PTL

(* outbound.ts, ingress.ts: however many messages ask one question and     *)
(* however many replies come back, one decides; two accepted answers about *)
(* an offer are one decision.                                              *)
THEOREM QuestionsAreDecidedOnce == ChannelSpec => []OneDecisionPerQuestion
<1>1. CInv => OneDecisionPerQuestion
  <2> SUFFICES ASSUME CInv, NEW d \in Events, NEW e \in Events,
                      events[d].outcome = "ACCEPTED", events[e].outcome = "ACCEPTED",
                      messages[events[d].message].type = messages[events[e].message].type,
                      About(d) = About(e)
               PROVE  \/ Key(d) = Key(e) /\ events[d].intent = events[e].intent
                      \/ /\ events[d].intent # events[e].intent
                         /\ messages[events[d].message].type
                                = "CUSTOMER_CONFIRMATION_REQUEST"
    BY DEF OneDecisionPerQuestion
  <2>1. OnRecord(d) /\ OnRecord(e) /\ Key(d) \in Keys /\ Key(e) \in Keys
    BY KeyTyped DEF CInv, AnswersOnRecord
  <2>2. actions[Key(d)].attempt = actions[Key(e)].attempt
    BY <2>1 DEF OnRecord, PayloadOf, About
  <2>3. CASE events[d].intent = events[e].intent
    BY <2>1, <2>2, <2>3 DEF CInv, ActionsDiffer, OnRecord
  <2>4. CASE events[d].intent # events[e].intent
    <3>1. messages[events[d].message].type \in MessageTypes
      <4>1. messages \in Seq(Message) /\ events[d].message \in DOMAIN messages
        BY DEF CInv, ChannelTypeOK
      <4>2. messages[events[d].message] \in Message
        BY <4>1, ElementOfSeq, LenProperties
      <4> QED
        BY <4>2 DEF Message
    <3>2. messages[events[d].message].type # "PROVIDER_OFFER"
      <4> SUFFICES ASSUME messages[events[d].message].type = "PROVIDER_OFFER"
                   PROVE  FALSE
        OBVIOUS
      <4>1. Stands(actions[Key(d)]) /\ Stands(actions[Key(e)])
        BY <2>1 DEF CInv, ActionsStand
      <4>2. {events[d].intent, events[e].intent} = {"PROVIDER_ACCEPT", "PROVIDER_DECLINE"}
        BY <2>1, <2>4 DEF OnRecord, IntentOf
      <4> QED
        BY <2>1, <2>2, <4>1, <4>2 DEF OnRecord, Stands
    <3> QED
      BY <2>4, <3>1, <3>2 DEF MessageTypes
  <2> QED
    BY <2>3, <2>4
<1> QED
  BY Inductive, <1>1, PTL

(* ingress.ts: a transport's event is settled when it first arrives, as is *)
(* the action it asked for, and no delivery changes either.                *)
THEOREM EventsStayFinal == ChannelSpec => EventsAreFinal
<1> DEFINE Final ==
      /\ \A e \in Events : events[e] # NoEvent => events'[e] = events[e]
      /\ \A k \in Keys : actions[k] # NoAction => actions'[k] = actions[k]
      /\ \A m \in DOMAIN messages :
            /\ m \in DOMAIN messages'
            /\ messages'[m].about = messages[m].about
            /\ messages[m].status = "SEND_FAILED" => messages'[m] = messages[m]
<1>1. CInv /\ [ChannelNext]_conversation => [Final]_conversation
  BY ConversationStep DEF EventsEvolve
<1> QED
  BY Inductive, <1>1, PTL DEF ChannelSpec, EventsAreFinal

(* outbound.ts, ingress.ts: a receipt or a refusal is a fact about the     *)
(* network, and recording it moves no part of the request forward.         *)
THEOREM NetworkFactsNeverAdvance == ChannelSpec => NetworkFactsAdvanceNothing
<1> DEFINE Harmless ==
      (\E e \in Events :
          /\ events[e] = NoEvent /\ events'[e] # NoEvent
          /\ events'[e] \in {Received, Refused})
      => UNCHANGED <<state, judgement, attempts, recovery, result>>
<1>1. CInv /\ [ChannelNext]_conversation => [Harmless]_conversation
  <2> SUFFICES ASSUME CInv, ChannelNext PROVE Harmless
    OBVIOUS
  <2>1. CASE Operate
    BY <2>1 DEF Operate, channelVars
  <2>2. CASE Send
    BY <2>2, SendStep DEF CInv, SentOnly
  <2>3. CASE Ingest
    BY <2>3, IngestStep DEF Advances, Received, Refused
  <2> QED
    BY <2>1, <2>2, <2>3 DEF ChannelNext
<1> QED
  BY Inductive, <1>1, PTL DEF ChannelSpec, NetworkFactsAdvanceNothing

-----------------------------------------------------------------------------
(* Service rests on two people's word.                                     *)

InService == {"CUSTOMER_CONFIRMED", "FULFILLMENT_ACTIVE", "SERVICE_COMPLETED", "NO_SHOW"}

(* The customer's answer outlives the consent it gave: a late cancellation *)
(* withdraws the context and leaves the event.                             *)
CustomerAnswered == state \in InService => \E e \in Events : IsAnswer(e, "CUSTOMER_CONFIRM")

(* Service is entered from service, but for the confirmation itself.       *)
LEMMA ServiceIsContinued ==
    ASSUME NEW from \in RequestStates, NEW to \in InService \ {"CUSTOMER_CONFIRMED"},
           to \in LegalTransitions[from]
    PROVE  from \in InService
BY DEF RequestStates, LegalTransitions, InService

LEMMA CustomerAnsweredStep ==
    ASSUME CInv, CInv', EventsEvolve, ConsentIsCurrent', CustomerAnswered, [Next]_vars
    PROVE  CustomerAnswered'
<1>1. ChannelTypeOK /\ state \in RequestStates
  BY DEF CInv, ChannelTypeOK, TypeOK
<1>2. CASE state' = "CUSTOMER_CONFIRMED"
  <2>1. \E c \in DOMAIN contexts' : contexts'[c].status = "CONFIRMED"
    BY <1>2 DEF ConsentIsCurrent
  <2>2. DecisionsAnswered'
    BY DEF CInv
  <2>3. \E e \in Events : IsAnswer(e, "CUSTOMER_CONFIRM")'
    BY <2>1, <2>2 DEF DecisionsAnswered
  <2> QED
    BY <2>3 DEF CustomerAnswered
<1>3. CASE state' \in InService \ {"CUSTOMER_CONFIRMED"}
  <2>1. state \in InService
    BY <1>1, <1>3, MovesAreLegal, ServiceIsContinued
  <2>2. PICK e \in Events : IsAnswer(e, "CUSTOMER_CONFIRM")
    BY <2>1 DEF CustomerAnswered
  <2>3. events'[e] = events[e]
    BY <1>1, <2>2, AnswerKept DEF IsAnswer
  <2> QED
    BY <2>2, <2>3 DEF CustomerAnswered, IsAnswer
<1>4. CASE state' \notin InService
  BY <1>4 DEF CustomerAnswered
<1> QED
  BY <1>2, <1>3, <1>4

(* A request in service has one context, about the last assignment and the *)
(* terms in force, and an assignment that rests on an accepted offer.      *)
LEMMA ServiceRows ==
    ASSUME TypeOK, AskedOnce, AuthorityChain, ConfirmedUnderConsent, state \in InService
    PROVE  /\ assignments # <<>>
           /\ assignments[Len(assignments)].attempt \in DOMAIN attempts
           /\ attempts[assignments[Len(assignments)].attempt].state = "ACCEPTED"
           /\ 1 \in DOMAIN contexts
           /\ contexts[1].assignment = Len(assignments)
           /\ contexts[1].version = currentVersion
<1>1. PICK c \in DOMAIN contexts :
         contexts[c].version = currentVersion /\ contexts[c].assignment = Len(assignments)
  <2>1. CASE state = "CUSTOMER_CONFIRMED"
    <3>1. PICK c \in DOMAIN contexts :
             contexts[c].version = currentVersion
                /\ IsActiveAssignment(contexts[c].assignment)
      BY <2>1 DEF ConfirmedUnderConsent, ConsentIsCurrent
    <3>2. contexts[c].assignment = Len(assignments)
      BY <3>1 DEF AuthorityChain, IsActiveAssignment
    <3> QED
      BY <3>1, <3>2
  <2>2. CASE state # "CUSTOMER_CONFIRMED"
    BY <2>2 DEF ConfirmedUnderConsent, ServiceWasAgreed, InService
  <2> QED
    BY <2>1, <2>2
<1>2. c = 1
  BY DEF AskedOnce
<1>3. contexts[c] \in Context
  BY ElementOfSeq, LenProperties DEF TypeOK
<1>4. Len(assignments) \in Nat \ {0}
  <2>1. contexts[c].assignment \in 1 .. MaxAssignments
    BY <1>3 DEF Context
  <2> QED
    BY <1>1, <2>1
<1>5. assignments # <<>> /\ Len(assignments) \in DOMAIN assignments
  BY <1>4, EmptySeq, LenProperties DEF TypeOK
<1> QED
  BY <1>1, <1>2, <1>5 DEF AuthorityChain

(* ingress.ts, orchestrator.ts: service is only ever begun, done or missed *)
(* between a provider and a customer who said so in recorded replies: one  *)
(* about the offer the last assignment rests on, one about a context for   *)
(* that assignment and the terms in force.                                 *)
THEOREM ServiceAlwaysOnTheirWord == ChannelSpec => []ServiceOnTheirWord
<1>1. ChannelSpec => [](AuthorityChain /\ ConfirmedUnderConsent)
  BY ConversationIsALifecycle, AuthorityAlwaysChained, AlwaysUnderConsent, PTL
<1>2. ChannelInit => CustomerAnswered
  BY DEF ChannelInit, Init, CustomerAnswered, InService
<1>3. CInv /\ CInv' /\ ConfirmedUnderConsent' /\ CustomerAnswered
        /\ [ChannelNext]_conversation => CustomerAnswered'
  BY CustomerAnsweredStep, ConversationStep, LifecycleStep DEF ConfirmedUnderConsent
<1>4. ChannelSpec => []CustomerAnswered
  BY <1>1, <1>2, <1>3, Inductive, PTL DEF ChannelSpec
<1>5. CInv /\ AuthorityChain /\ ConfirmedUnderConsent /\ CustomerAnswered => ServiceOnTheirWord
  <2> SUFFICES ASSUME CInv, AuthorityChain, ConfirmedUnderConsent, CustomerAnswered,
                      state \in InService
               PROVE  /\ assignments # <<>>
                      /\ \E e \in Events :
                            /\ IsAnswer(e, "PROVIDER_ACCEPT")
                            /\ About(e) = assignments[Len(assignments)].attempt
                      /\ \E e \in Events :
                            /\ IsAnswer(e, "CUSTOMER_CONFIRM")
                            /\ contexts[About(e)].assignment = Len(assignments)
                            /\ contexts[About(e)].version = currentVersion
    BY DEF ServiceOnTheirWord, InService
  <2>1. TypeOK /\ ChannelTypeOK /\ AskedOnce /\ DecisionsAnswered
    BY DEF CInv, ChannelTypeOK
  <2>2. /\ assignments # <<>>
        /\ assignments[Len(assignments)].attempt \in DOMAIN attempts
        /\ attempts[assignments[Len(assignments)].attempt].state = "ACCEPTED"
        /\ contexts[1].assignment = Len(assignments)
        /\ contexts[1].version = currentVersion
    BY <2>1, ServiceRows
  <2>3. \E e \in Events : IsAnswer(e, "PROVIDER_ACCEPT")
                          /\ About(e) = assignments[Len(assignments)].attempt
    BY <2>1, <2>2 DEF DecisionsAnswered
  <2>4. PICK e \in Events : IsAnswer(e, "CUSTOMER_CONFIRM")
    BY DEF CustomerAnswered
  <2>5. About(e) = 1
    <3>1. /\ events[e].message \in DOMAIN messages
          /\ \E agreed \in BOOLEAN :
                "CUSTOMER_CONFIRM" = IntentOf(messages[events[e].message], agreed)
      BY <2>1, <2>4 DEF CInv, AnswersOnRecord, OnRecord, IsAnswer, ChannelTypeOK
    <3>2. messages[events[e].message].type # "PROVIDER_OFFER"
      BY <3>1 DEF IntentOf
    <3>3. About(e) \in DOMAIN contexts
      BY <2>1, <3>1, <3>2 DEF ChannelTypeOK, About
    <3> QED
      BY <2>1, <3>3 DEF AskedOnce
  <2> QED
    BY <2>2, <2>3, <2>4, <2>5
<1> QED
  BY <1>1, <1>4, <1>5, Inductive, PTL
=============================================================================
