------------------------------ MODULE Channel ------------------------------
(***************************************************************************)
(* One Service Request and the conversation about it (src/src/channel,     *)
(* src/src/host/channelHost.ts): the messages that communicate an offer or *)
(* a confirmation context, the transport's events that come back, and the  *)
(* operational actions they ask for.  The request is RequestLifecycle's;   *)
(* its provider and its customer answer through the channel only, and the  *)
(* owner and the clocks act as they did there.                             *)
(*                                                                         *)
(* The webhook is one transaction: the event row, the action and what the  *)
(* action changes land together.  Contenders for an event id queue on an   *)
(* advisory lock and those for the request on its row, so an event is one  *)
(* action here.  Delivered again it finds its row and nothing changes; and *)
(* where the transaction is lost, so is everything: that is a stutter, for *)
(* an inbound event as for a message the transport may have carried        *)
(* already, whose token then resolves to nothing.                          *)
(***************************************************************************)
EXTENDS RequestLifecycle

CONSTANTS
    Events,          \* what the transport delivers: an id, on a channel
    MaxMessages      \* bound: messages about one request

(* `channel:<id>`, the key of the action, leaves the channel out.          *)
Key(e) == e[2]

Keys == {Key(e) : e \in Events}

VARIABLES
    messages,        \* core_channel_message rows, by age
    events,          \* core_channel_event rows
    actions          \* core_operational_action rows, by idempotency_key

channelVars == <<messages, events, actions>>
conversation == <<vars, channelVars>>

-----------------------------------------------------------------------------
(* The rows.                                                               *)

MessageTypes == {"PROVIDER_OFFER", "CUSTOMER_CONFIRMATION_REQUEST"}

(* CREATED is never committed: the transport is asked before.              *)
MessageStatuses == {"SENT", "SEND_FAILED", "DELIVERED", "READ"}

(* about is the attempt, or the confirmation context.                      *)
Message == [type : MessageTypes, about : Nat \ {0}, status : MessageStatuses]

Intents == {"PROVIDER_ACCEPT", "PROVIDER_DECLINE", "CUSTOMER_CONFIRM",
            "CUSTOMER_DECLINE"}

(* Of a refused event and of a receipt, only that it was one is kept.      *)
EventRow == [outcome : {"ACCEPTED"}, intent : Intents, message : Nat \ {0}]

Received == [outcome |-> "RECEIVED"]
Refused  == [outcome |-> "REFUSED"]

ActionRow == [intent : Intents, attempt : Nat, outcome : {"ACCEPTED", "REFUSED"}]

NoEvent  == [outcome |-> None]
NoAction == [outcome |-> None]

(* classifyResponse: the same word means something else to another party.  *)
IntentOf(message, agreed) ==
    IF message.type = "PROVIDER_OFFER"
    THEN IF agreed THEN "PROVIDER_ACCEPT" ELSE "PROVIDER_DECLINE"
    ELSE IF agreed THEN "CUSTOMER_CONFIRM" ELSE "CUSTOMER_DECLINE"

-----------------------------------------------------------------------------
(* Deliberate faults.  Each is a plausible mistake in one definition below  *)
(* and stands in for it when we ask whether a property could fail at all.   *)

PayloadOfCurrent(message) ==              \* whichever attempt is open now
    IF message.type = "PROVIDER_OFFER" THEN Len(attempts) ELSE 0

NotActedOn(e) == actions[Key(e)] = NoAction   \* replay known by the action only

RepliesToBoth(outcome, intent, attempt, row) ==    \* no conflict is noticed
    outcome = row.outcome

ReceiptCountsAsAnswer(e, m, status) ==    \* READ taken for an acceptance
    /\ events[e] = NoEvent /\ m \in DOMAIN messages
    /\ events' = [events EXCEPT ![e] = Received]
    /\ messages' = [messages EXCEPT ![m].status = status]
    /\ RecordProviderAcceptance(Len(attempts))
    /\ UNCHANGED actions

SendAboutNextAttempt(i, status) ==        \* a version counted from one too many
    /\ attempts[i].state = "OFFERED"
    /\ Len(messages) < MaxMessages
    /\ messages' = Append(messages, [type |-> "PROVIDER_OFFER", about |-> i + 1,
                                     status |-> status])
    /\ UNCHANGED <<vars, events, actions>>

-----------------------------------------------------------------------------
(* Outbound: a message exists only for an open offer or a pending context. *)

Persist(type, about, status) ==
    /\ Len(messages) < MaxMessages
    /\ status \in {"SENT", "SEND_FAILED"}
    /\ messages' = Append(messages, [type |-> type, about |-> about, status |-> status])
    /\ UNCHANGED <<vars, events, actions>>

SendProviderOfferMessage(i, status) ==
    /\ attempts[i].state = "OFFERED"
    /\ Persist("PROVIDER_OFFER", i, status)

SendCustomerConfirmationMessage(c, status) ==
    /\ contexts[c].status = "PENDING"
    /\ Persist("CUSTOMER_CONFIRMATION_REQUEST", c, status)

-----------------------------------------------------------------------------
(* Inbound.                                                                *)

(* The payload, as far as it is part of the action's fingerprint: the      *)
(* attempt the message was about, and nothing for a customer.              *)
PayloadOf(message) == IF message.type = "PROVIDER_OFFER" THEN message.about ELSE 0

IsFirstDelivery(e) == events[e] = NoEvent

RecordEvent(e, row) == events' = [events EXCEPT ![e] = row]

(* A receipt is recorded and moves the row of a message that was carried,  *)
(* in whatever order receipts arrive.                                      *)
Receipt(e, m, status) ==
    /\ IsFirstDelivery(e)
    /\ RecordEvent(e, Received)
    /\ messages' = IF messages[m].status = "SEND_FAILED" THEN messages
                   ELSE [messages EXCEPT ![m].status = status]
    /\ UNCHANGED <<vars, actions>>

(* Unauthentic, uncorrelated, from somebody else, or unclear: the event is *)
(* recorded and refused.  What is authentic and does not parse is refused  *)
(* without a row (step 2), and is a stutter.                               *)
RefuseEvent(e) ==
    /\ IsFirstDelivery(e)
    /\ RecordEvent(e, Refused)
    /\ UNCHANGED <<vars, messages, actions>>

RecordAction(e, message, intent, outcome) ==
    actions' = [actions EXCEPT ![Key(e)] = [intent |-> intent,
                   attempt |-> PayloadOf(message), outcome |-> outcome]]

(* What RECORD_CUSTOMER_CONFIRMATION asks for: the payload names no        *)
(* context, the one that is pending is meant.                              *)
ConfirmationBinds ==
    /\ state = "AWAITING_CUSTOMER_CONFIRMATION"
    /\ eligible /\ ~consentElapsed
    /\ \E c \in DOMAIN contexts :
          /\ contexts[c].status = "PENDING"
          /\ contexts[c].version = currentVersion
          /\ IsActiveAssignment(contexts[c].assignment)

(* The handler accepts, and the request moves.                             *)
Accepts(intent, attempt) ==
    \/ intent = "PROVIDER_ACCEPT" /\ RecordProviderAcceptance(attempt)
    \/ intent = "PROVIDER_DECLINE" /\ RecordProviderRejection(attempt)
    \/ intent = "CUSTOMER_CONFIRM" /\ RecordCustomerConfirmation
    \/ intent = "CUSTOMER_DECLINE" /\ CancelService /\ state' = "CANCELLED"

(* The handler refuses; a cancellation has written by then.                *)
Refuses(intent, attempt) ==
    \/ /\ intent \in {"PROVIDER_ACCEPT", "PROVIDER_DECLINE"}
       /\ ~ResponseBinds(attempt)
       /\ UNCHANGED vars
    \/ /\ intent = "CUSTOMER_CONFIRM"
       /\ ~ConfirmationBinds
       /\ UNCHANGED vars
    \/ /\ intent = "CUSTOMER_DECLINE"
       /\ state \in Terminal
       /\ UNCHANGED vars
    \/ /\ intent = "CUSTOMER_DECLINE"
       /\ CancelService
       /\ state' # "CANCELLED"

(* The key is new: the action is executed and put on record.               *)
ExecuteAnswer(e, m, intent, outcome) ==
    /\ actions[Key(e)] = NoAction
    /\ IF outcome = "ACCEPTED" THEN Accepts(intent, PayloadOf(messages[m]))
                               ELSE Refuses(intent, PayloadOf(messages[m]))
    /\ RecordAction(e, messages[m], intent, outcome)

(* The decision on record if it was the same action, and a conflict if not. *)
RepliesFrom(outcome, intent, attempt, row) ==
    outcome = IF row.intent = intent /\ row.attempt = attempt
              THEN row.outcome ELSE "REFUSED"

(* The key is taken, which only an event of the same id on another channel *)
(* can have done: nothing is executed again.                               *)
ReplayAnswer(e, m, intent, outcome) ==
    /\ actions[Key(e)] # NoAction
    /\ RepliesFrom(outcome, intent, PayloadOf(messages[m]), actions[Key(e)])
    /\ UNCHANGED <<vars, actions>>

(* A reply that correlates with a message and says clearly yes or no.      *)
Answer(e, m, agreed, outcome) ==
    LET intent == IntentOf(messages[m], agreed)
    IN  /\ IsFirstDelivery(e)
        /\ \/ ExecuteAnswer(e, m, intent, outcome)
           \/ ReplayAnswer(e, m, intent, outcome)
        /\ RecordEvent(e, IF outcome = "REFUSED" THEN Refused
                          ELSE [outcome |-> outcome, intent |-> intent, message |-> m])
        /\ UNCHANGED messages

-----------------------------------------------------------------------------
ChannelInit ==
    /\ Init
    /\ messages = <<>>
    /\ events = [e \in Events |-> NoEvent]
    /\ actions = [k \in Keys |-> NoAction]

(* Everybody but the provider and the customer.  The conversation reads    *)
(* neither capacity nor the provider's standing: they stay as they are.    *)
Operate ==
    /\ \/ OwnerAct
       \/ \E i \in DOMAIN attempts : ExpireDispatch(i) \/ AssignProvider(i)
       \/ AcceptanceWindowCloses \/ ConfirmationWindowCloses
    /\ UNCHANGED channelVars

Send ==
    \E status \in {"SENT", "SEND_FAILED"} :
       \/ \E i \in DOMAIN attempts : SendProviderOfferMessage(i, status)
       \/ \E c \in DOMAIN contexts : SendCustomerConfirmationMessage(c, status)

Ingest ==
    \E e \in Events :
       \/ \E m \in DOMAIN messages, status \in {"DELIVERED", "READ"} :
             Receipt(e, m, status)
       \/ RefuseEvent(e)
       \/ \E m \in DOMAIN messages, agreed \in BOOLEAN,
             outcome \in {"ACCEPTED", "REFUSED"} : Answer(e, m, agreed, outcome)

ChannelNext == Operate \/ Send \/ Ingest

ChannelSpec == ChannelInit /\ [][ChannelNext]_conversation

-----------------------------------------------------------------------------
(* Correctness.                                                            *)

(* Rows keep their columns and point to rows that exist.                   *)
ChannelTypeOK ==
    /\ TypeOK
    /\ messages \in Seq(Message)
    /\ \A m \in DOMAIN messages :
          messages[m].about \in IF messages[m].type = "PROVIDER_OFFER"
                                THEN DOMAIN attempts ELSE DOMAIN contexts
    /\ events \in [Events -> EventRow \union {NoEvent, Received, Refused}]
    /\ \A e \in Events : events[e].outcome = "ACCEPTED" =>
          events[e].message \in DOMAIN messages
    /\ actions \in [Keys -> ActionRow \union {NoAction}]

IsAnswer(e, intent) ==
    /\ events[e].outcome = "ACCEPTED"
    /\ events[e].intent = intent

About(e) == messages[events[e].message].about

(* channel/ingress.ts: what a provider or a customer is held to was said   *)
(* in a recorded event, in reply to a message about that very offer or     *)
(* that very confirmation context, and is what the reply said; and what an *)
(* accepted event said is what the request shows.                          *)
DecisionHasItsEvent ==
    /\ \A i \in DOMAIN attempts :
          /\ attempts[i].state = "ACCEPTED" =>
                \E e \in Events : IsAnswer(e, "PROVIDER_ACCEPT") /\ About(e) = i
          /\ attempts[i].state = "DECLINED" =>
                \E e \in Events : IsAnswer(e, "PROVIDER_DECLINE") /\ About(e) = i
    /\ \A c \in DOMAIN contexts :
          contexts[c].status = "CONFIRMED" =>
             \E e \in Events : IsAnswer(e, "CUSTOMER_CONFIRM") /\ About(e) = c
    /\ \A e \in Events :
          /\ IsAnswer(e, "PROVIDER_ACCEPT") => attempts[About(e)].state = "ACCEPTED"
          /\ IsAnswer(e, "PROVIDER_DECLINE") => attempts[About(e)].state = "DECLINED"
          /\ IsAnswer(e, "CUSTOMER_CONFIRM") => contexts[About(e)].status # "PENDING"
          /\ IsAnswer(e, "CUSTOMER_DECLINE") => state = "CANCELLED"

(* Service is only ever begun, done or missed between two people who said  *)
(* so: the provider in reply to a message about the offer that the last    *)
(* assignment rests on, and the customer in reply to one about a context   *)
(* for that very assignment and the terms in force.  It holds across three *)
(* tables, two state machines and every event that came in between         *)
(* (ingress.ts; orchestrator.ts: "provider acceptance -> owner assignment  *)
(* -> customer confirmation").                                             *)
ServiceOnTheirWord ==
    state \in {"CUSTOMER_CONFIRMED", "FULFILLMENT_ACTIVE", "SERVICE_COMPLETED", "NO_SHOW"} =>
       /\ assignments # <<>>
       /\ \E e \in Events :
             /\ IsAnswer(e, "PROVIDER_ACCEPT")
             /\ About(e) = assignments[Len(assignments)].attempt
       /\ \E e \in Events :
             /\ IsAnswer(e, "CUSTOMER_CONFIRM")
             /\ contexts[About(e)].assignment = Len(assignments)
             /\ contexts[About(e)].version = currentVersion

(* However often a message is sent, and however many replies it gets under *)
(* however many ids, one of them decides: two accepted answers about an    *)
(* offer are one decision, delivered by two channels under one id.         *)
OneDecisionPerQuestion ==
    \A d, e \in Events :
       /\ events[d].outcome = "ACCEPTED" /\ events[e].outcome = "ACCEPTED"
       /\ messages[events[d].message].type = messages[events[e].message].type
       /\ About(d) = About(e)
       => \/ Key(d) = Key(e) /\ events[d].intent = events[e].intent
          \/ /\ events[d].intent # events[e].intent
             /\ messages[events[d].message].type = "CUSTOMER_CONFIRMATION_REQUEST"

(* A transport's event is settled when it first arrives, as is the action  *)
(* it asked for: nothing that is delivered later, in any order or again,   *)
(* changes what was recorded of it.                                        *)
EventsAreFinal ==
    [][/\ \A e \in Events : events[e] # NoEvent => events'[e] = events[e]
       /\ \A k \in Keys : actions[k] # NoAction => actions'[k] = actions[k]
       /\ \A m \in DOMAIN messages :
             /\ m \in DOMAIN messages'
             /\ messages'[m].about = messages[m].about
             /\ messages[m].status = "SEND_FAILED" => messages'[m] = messages[m]
      ]_conversation

(* outbound.ts: "a delivery receipt cannot fabricate a business outcome",  *)
(* and ingress.ts: steps 1 to 7 "can only ever REFUSE".  A step that       *)
(* records a receipt, or a refusal, advances nothing: not the request, no  *)
(* offer, no recovery and no result.                                       *)
NetworkFactsAdvanceNothing ==
    [][(\E e \in Events :
           /\ events[e] = NoEvent /\ events'[e] # NoEvent
           /\ events'[e] \in {Received, Refused})
        => UNCHANGED <<state, judgement, attempts, recovery, result>>]_conversation
=============================================================================
