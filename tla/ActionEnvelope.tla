-------------------------- MODULE ActionEnvelope --------------------------
(***************************************************************************)
(* The envelope around every operational action (executeOperationalAction, *)
(* src/src/lifecycle/orchestrator.ts:154-388), called from many            *)
(* transactions at once.  Each call is one delivery of a command: it looks *)
(* its idempotency key up, locks its request, looks the key up again, runs *)
(* the handler under a savepoint, inserts the action row, and commits.     *)
(* PostgreSQL runs each statement in a snapshot of its own (READ           *)
(* COMMITTED), so other transactions commit between any two of the steps.  *)
(*                                                                         *)
(* A handler is reduced to what makes it safe to call twice or not: it     *)
(* accepts from one stage of its request only, and moves it to the next.   *)
(* What it really does is module RequestLifecycle.                         *)
(***************************************************************************)
EXTENDS OperationalAction

CONSTANTS
    MaxFaults,       \* bound: aborted transactions and lost replies
    MaxDeliveries    \* bound: times one call is made

ASSUME FaultsAssumption ==
    MaxFaults \in Nat /\ MaxDeliveries \in Nat \ {0}

VARIABLES
    pc,              \* pc[c]: the step call c takes next
    working,         \* working[c]: the outcome its open transaction has written
    owner,           \* owner[r]: the call whose transaction locks r's row
    stage,           \* core_service_request, committed
    decided,         \* core_operational_action, committed
    answer,          \* answer[c]: what call c returns
    faults,          \* how many times a transaction was lost so far
    deliveries       \* deliveries[c]: how many times call c was made

vars == <<pc, working, owner, stage, decided, answer, faults, deliveries>>

durable == <<stage, decided>>
bounds  == <<faults, deliveries>>

-----------------------------------------------------------------------------
Locked == {"recheck", "handle", "persist"}

Steps == {"early", "lock", "commit", "answered"} \union Locked

(* The key is settled by a row this transaction can see.                   *)
IsDecided(c) == decided[Key[c]] # NoRow

(* Another transaction has inserted a row for c's key and not ended yet:   *)
(* the unique index makes a second insert wait for it.                     *)
KeyIsInFlight(c) ==
    \E d \in Calls \ {c} :
       Key[d] = Key[c] /\ pc[d] = "commit" /\ working[d] # None

Goto(c, step) == pc' = [pc EXCEPT ![c] = step]

Return(c, value) == answer' = [answer EXCEPT ![c] = value]

ReleaseLocksIfWritten(c) ==               \* fault: a replay leaves its transaction
    IF working[c] = None THEN UNCHANGED owner                   \* open
    ELSE owner' = [r \in Requests |-> IF owner[r] = c THEN None ELSE owner[r]]

(* The transaction of c ends: its row lock is free again.                  *)
ReleaseLocks(c) ==
    owner' = [r \in Requests |-> IF owner[r] = c THEN None ELSE owner[r]]

Init ==
    /\ pc = [c \in Calls |-> "early"]
    /\ working = [c \in Calls |-> None]
    /\ owner = [r \in Requests |-> None]
    /\ stage = [r \in Requests |-> 0]
    /\ decided = [k \in Keys |-> NoRow]
    /\ answer = [c \in Calls |-> None]
    /\ faults = 0
    /\ deliveries = [c \in Calls |-> 1]

-----------------------------------------------------------------------------
(* Either lookup answers the call when its key is already decided.         *)
LookUp(c, step, next) ==
    /\ pc[c] = step
    /\ \/ /\ IsDecided(c)
          /\ Return(c, Replay(c, decided[Key[c]]))
          /\ Goto(c, "commit")
       \/ /\ ~IsDecided(c)
          /\ Goto(c, next)
          /\ UNCHANGED answer
    /\ UNCHANGED <<working, owner, durable, bounds>>

EarlyCheck(c) == LookUp(c, "early", "lock")

LockRequestAtOnce(c) ==                   \* fault: SELECT without FOR UPDATE
    /\ pc[c] = "lock"
    /\ owner' = [owner EXCEPT ![Request[c]] = c]
    /\ Goto(c, "recheck")
    /\ UNCHANGED <<working, durable, answer, bounds>>

LockRequest(c) ==
    /\ pc[c] = "lock"
    /\ owner[Request[c]] = None
    /\ owner' = [owner EXCEPT ![Request[c]] = c]
    /\ Goto(c, "recheck")
    /\ UNCHANGED <<working, durable, answer, bounds>>

Recheck(c) == LookUp(c, "recheck", "handle")

HandleAnyStage(c) ==                      \* fault: no predecessor guard
    /\ pc[c] = "handle"
    /\ working' = [working EXCEPT ![c] = "ACCEPTED"]
    /\ Goto(c, "persist")
    /\ UNCHANGED <<owner, durable, answer, bounds>>

Handle(c) ==
    /\ pc[c] = "handle"
    /\ working' = [working EXCEPT ![c] =
                      IF stage[Request[c]] = Predecessor[c]
                      THEN "ACCEPTED" ELSE "REFUSED"]
    /\ Goto(c, "persist")
    /\ UNCHANGED <<owner, durable, answer, bounds>>

PersistUnlessDecided(c) ==                \* fault: no unique index on the key
    /\ pc[c] = "persist"
    /\ \/ /\ ~IsDecided(c)
          /\ Return(c, working[c])
          /\ UNCHANGED working
       \/ /\ IsDecided(c)
          /\ working' = [working EXCEPT ![c] = None]
          /\ Return(c, Replay(c, decided[Key[c]]))
    /\ Goto(c, "commit")
    /\ UNCHANGED <<owner, durable, bounds>>

PersistHoldingOn(c) ==                    \* fault: the loser is never woken
    /\ pc[c] = "persist"
    /\ ~KeyIsInFlight(c)
    /\ ~IsDecided(c)
    /\ Return(c, working[c])
    /\ Goto(c, "commit")
    /\ UNCHANGED <<working, owner, durable, bounds>>

(* The insert waits while the key is in flight.  If the other transaction  *)
(* committed, the index refuses the row: everything since the savepoint is *)
(* undone and the winner's decision is the answer.                         *)
Persist(c) ==
    /\ pc[c] = "persist"
    /\ ~KeyIsInFlight(c)
    /\ \/ /\ ~IsDecided(c)
          /\ Return(c, working[c])
          /\ UNCHANGED working
       \/ /\ IsDecided(c)
          /\ working' = [working EXCEPT ![c] = None]
          /\ Return(c, Replay(c, decided[Key[c]]))
    /\ Goto(c, "commit")
    /\ UNCHANGED <<owner, durable, bounds>>

Land(c) ==
    /\ pc[c] = "commit"
    /\ IF working[c] # None
       THEN /\ decided' = [decided EXCEPT ![Key[c]] = Row(c, working[c])]
            /\ stage' = IF working[c] = "ACCEPTED"
                        THEN [stage EXCEPT ![Request[c]] = @ + 1] ELSE stage
       ELSE UNCHANGED durable
    /\ working' = [working EXCEPT ![c] = None]
    /\ ReleaseLocks(c)
    /\ Goto(c, "answered")

(* withTransaction commits whatever executeOperationalAction returned, a   *)
(* refusal as much as an acceptance.                                       *)
Commit(c) ==
    /\ Land(c)
    /\ UNCHANGED <<answer, bounds>>

(* COMMIT took effect and the connection broke before saying so.           *)
CommitUnheard(c) ==
    /\ faults < MaxFaults
    /\ faults' = faults + 1
    /\ Land(c)
    /\ Return(c, "ERROR")
    /\ UNCHANGED deliveries

AbortKeepingEffect(c, step, value) ==     \* fault: the handler's writes are not
    /\ pc[c] # "answered"                 \* part of the transaction
    /\ faults < MaxFaults
    /\ faults' = faults + 1
    /\ stage' = IF working[c] = "ACCEPTED"
                THEN [stage EXCEPT ![Request[c]] = @ + 1] ELSE stage
    /\ working' = [working EXCEPT ![c] = None]
    /\ ReleaseLocks(c)
    /\ Return(c, value)
    /\ Goto(c, step)
    /\ UNCHANGED <<decided, deliveries>>

(* The transaction is rolled back: by a deadlock or serialization failure, *)
(* after which withTransaction runs it again from the start, or by any     *)
(* other error, which it hands to the caller.                              *)
Abort(c, step, value) ==
    /\ pc[c] # "answered"
    /\ faults < MaxFaults
    /\ faults' = faults + 1
    /\ working' = [working EXCEPT ![c] = None]
    /\ ReleaseLocks(c)
    /\ Return(c, value)
    /\ Goto(c, step)
    /\ UNCHANGED <<durable, deliveries>>

Retry(c) == Abort(c, "early", None)

Fail(c) == Abort(c, "answered", "ERROR")

(* A channel or an owner repeats the command, whatever it was told.        *)
Redeliver(c) ==
    /\ pc[c] = "answered"
    /\ deliveries[c] < MaxDeliveries
    /\ deliveries' = [deliveries EXCEPT ![c] = @ + 1]
    /\ Goto(c, "early")
    /\ Return(c, None)
    /\ UNCHANGED <<working, owner, durable, faults>>

Progress(c) ==
    \/ EarlyCheck(c)
    \/ LockRequest(c)
    \/ Recheck(c)
    \/ Handle(c)
    \/ Persist(c)
    \/ Commit(c)

Disturbance(c) ==
    \/ CommitUnheard(c)
    \/ Retry(c)
    \/ Fail(c)
    \/ Redeliver(c)

Next == \E c \in Calls : Progress(c) \/ Disturbance(c)

(* A transaction that can run does run.  Nothing makes a fault happen or a *)
(* command be repeated.                                                    *)
Fairness == \A c \in Calls : WF_vars(Progress(c))

Spec == Init /\ [][Next]_vars /\ Fairness

-----------------------------------------------------------------------------
(* Correctness.                                                            *)

(* Every variable keeps its type; a request never leaves its last stage.   *)
TypeOK ==
    /\ pc \in [Calls -> Steps]
    /\ working \in [Calls -> {"ACCEPTED", "REFUSED", None}]
    /\ owner \in [Requests -> Calls \union {None}]
    /\ stage \in [Requests -> 0 .. MaxStage]
    /\ decided \in [Keys -> Rows]
    /\ answer \in [Calls -> Answers]
    /\ faults \in 0 .. MaxFaults
    /\ deliveries \in [Calls -> 1 .. MaxDeliveries]

(* What a handler decided under the row lock is still true of the request  *)
(* when its transaction commits, though both lookups and the handler read  *)
(* in different snapshots: accepted means still at the stage it leaves.    *)
HandlerIsolated ==
    \A c \in Calls :
       /\ working[c] # None => owner[Request[c]] = c
       /\ working[c] = "ACCEPTED" => stage[Request[c]] = Predecessor[c]

(* A request has advanced exactly as often as an accepted action about it  *)
(* is on record: no effect without its evidence, no evidence without its   *)
(* effect, and none twice (orchestrator.ts:155-157).                       *)
EffectsMatchEvidence ==
    \A r \in Requests :
       stage[r] = Cardinality({k \in Keys : /\ decided[k].outcome = "ACCEPTED"
                                            /\ decided[k].fingerprint[1] = r})

(* A call is never told anything but the decision on record for its key:   *)
(* the outcome when the action is the same, a conflict when it is not.     *)
AnswersAreHonest ==
    \A c \in Calls : pc[c] = "answered" =>
       /\ answer[c] \in Outcomes => decided[Key[c]] = Row(c, answer[c])
       /\ answer[c] = "IDEMPOTENCY_CONFLICT" =>
             IsDecided(c) /\ decided[Key[c]].fingerprint # Fingerprint(c)
       /\ answer[c] # None

(* The transactions the next statement of c waits for: the one that locks  *)
(* its request's row, or the one that has its key in flight.               *)
WaitsFor(c) ==
    CASE pc[c] = "lock"    -> {owner[Request[c]]} \ {None}
      [] pc[c] = "persist" -> {d \in Calls \ {c} :
                                 Key[d] = Key[c] /\ pc[d] = "commit" /\ working[d] # None}
      [] OTHER             -> {}

(* No calls wait for each other in a circle, and none waits for a          *)
(* transaction that is over: a wait for a row lock leads to at most one    *)
(* wait for a key, and that to a transaction that only has to commit.  The *)
(* envelope takes the row before the index entry in every call             *)
(* (orchestrator.ts:265-388), whichever key goes with whichever request.   *)
WaitsEnd ==
    \A c \in Calls : \A d \in WaitsFor(c) :
       /\ d # c /\ pc[d] # "answered"
       /\ \A e \in WaitsFor(d) : e # c /\ pc[e] # "answered" /\ WaitsFor(e) = {}

(* A decision, once on record, is never replaced.                          *)
DecisionIsFinal ==
    [][\A k \in Keys : decided[k] # NoRow => decided'[k] = decided[k]]_vars

(* Every call is answered, whoever else wants its key or its request.      *)
EveryCallIsAnswered ==
    \A c \in Calls : pc[c] # "answered" ~> pc[c] = "answered"

(* The envelope keeps the promise of DecideOnce: a call's answer exists    *)
(* once it has returned.                                                   *)
Returned == [c \in Calls |-> IF pc[c] = "answered" THEN answer[c] ELSE None]

Promise == INSTANCE DecideOnce WITH answer <- Returned

KeepsPromise == Promise!Spec
=============================================================================
