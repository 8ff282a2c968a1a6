------------------------ MODULE ActionEnvelopeProofs ------------------------
(***************************************************************************)
(* Theorems about the action envelope, for any calls, keys and requests    *)
(* and any number of faults and deliveries: its invariants, and that every *)
(* step of it is a step of DecideOnce or leaves DecideOnce's view alone.   *)
(***************************************************************************)
EXTENDS ActionEnvelope, FiniteSetTheorems, TLAPS

(* The transaction of c has written, and is not over.                      *)
Wrote(c) == working[c] # None

(* Between its lock and its end a transaction owns the row of its request. *)
Locking ==
    \A c \in Calls :
       /\ pc[c] \in Locked => owner[Request[c]] = c
       /\ Wrote(c) => pc[c] \in {"persist", "commit"} /\ owner[Request[c]] = c
       /\ pc[c] = "persist" => Wrote(c)

(* A lock is on its owner's own request, and its owner's transaction is    *)
(* open.                                                                   *)
OwnersAreAtWork ==
    \A r \in Requests, c \in Calls : owner[r] = c =>
       r = Request[c] /\ pc[c] \in Locked \union {"commit"}

(* What was judged of the request when the handler ran is still so.        *)
Judged ==
    \A c \in Calls :
       /\ working[c] = "ACCEPTED" => stage[Request[c]] = Predecessor[c]
       /\ working[c] = "REFUSED" => stage[Request[c]] # Predecessor[c]

(* Whoever is about to commit a decision is alone with its key.            *)
KeyIsFree ==
    \A c \in Calls : pc[c] = "commit" /\ Wrote(c) => ~IsDecided(c) /\ ~KeyIsInFlight(c)

(* What a call is about to be told is its own decision, or the one on      *)
(* record.                                                                 *)
AboutToTell ==
    \A c \in Calls : pc[c] = "commit" =>
       \/ Wrote(c) /\ answer[c] = working[c]
       \/ ~Wrote(c) /\ IsDecided(c) /\ answer[c] = Replay(c, decided[Key[c]])

(* The keys whose decisions moved request r.                               *)
Accepted(r) == {k \in Keys : /\ decided[k].outcome = "ACCEPTED"
                             /\ decided[k].fingerprint[1] = r}

EvidenceIsFinite == \A r \in Requests : IsFiniteSet(Accepted(r))

Exclusive == Locking /\ OwnersAreAtWork /\ Judged /\ KeyIsFree

IInv == /\ TypeOK /\ Exclusive /\ AboutToTell /\ AnswersAreHonest
        /\ EvidenceIsFinite /\ EffectsMatchEvidence

-----------------------------------------------------------------------------
(* Rows and replays.                                                       *)

LEMMA CallTyped ==
    ASSUME NEW c \in Calls
    PROVE  /\ Key[c] \in Keys /\ Request[c] \in Requests
           /\ Predecessor[c] \in 0 .. MaxStage - 1 /\ MaxStage \in Nat /\ c # None
BY CallsAssumption

(* A replay tells the decision on record, or that it was another action's. *)
LEMMA ReplayTells ==
    ASSUME NEW c \in Calls, NEW row \in Rows, row # NoRow
    PROVE  /\ Replay(c, row) \in Outcomes \union {"IDEMPOTENCY_CONFLICT"}
           /\ Replay(c, row) \in Outcomes => row = Row(c, Replay(c, row))
           /\ Replay(c, row) = "IDEMPOTENCY_CONFLICT" => row.fingerprint # Fingerprint(c)
<1>1. PICK d \in Calls, o \in Outcomes : row = Row(d, o)
  BY DEF Rows
<1>2. row.outcome = o /\ row.fingerprint = Fingerprint(d)
  BY <1>1 DEF Row
<1>3. CASE Fingerprint(d) = Fingerprint(c)
  BY <1>1, <1>2, <1>3 DEF Replay, Row, Outcomes
<1>4. CASE Fingerprint(d) # Fingerprint(c)
  BY <1>2, <1>4 DEF Replay, Outcomes
<1> QED
  BY <1>3, <1>4

LEMMA RowReplayed ==
    ASSUME NEW c \in Calls, NEW outcome
    PROVE  /\ Replay(c, Row(c, outcome)) = outcome
           /\ outcome \in Outcomes => Row(c, outcome) \in Rows /\ Row(c, outcome) # NoRow
BY DEF Replay, Row, Rows, NoRow, Outcomes, None

(* Ending the transaction of c frees no other's lock.                      *)
LEMMA LocksReleased ==
    ASSUME TypeOK, NEW c \in Calls, ReleaseLocks(c)
    PROVE  /\ owner' \in [Requests -> Calls \union {None}]
           /\ \A d \in Calls : d # c /\ owner[Request[d]] = d => owner'[Request[d]] = d
           /\ \A r \in Requests : owner'[r] # c /\ owner'[r] \in {owner[r], None}
BY CallTyped DEF ReleaseLocks, TypeOK

-----------------------------------------------------------------------------
(* A step of c before its transaction ends leaves what is committed alone. *)

LEMMA EvidenceFrame ==
    ASSUME EvidenceIsFinite, EffectsMatchEvidence, UNCHANGED durable
    PROVE  EvidenceIsFinite' /\ EffectsMatchEvidence'
BY DEF EvidenceIsFinite, EffectsMatchEvidence, Accepted, durable

(* Only c moves.                                                           *)
OnlyMoves(c) ==
    \A d \in Calls : d # c =>
       /\ pc'[d] = pc[d] /\ working'[d] = working[d] /\ answer'[d] = answer[d]

LEMMA LookUpStep ==
    ASSUME IInv, NEW c \in Calls, EarlyCheck(c) \/ Recheck(c)
    PROVE  IInv' /\ UNCHANGED durable /\ OnlyMoves(c) /\ pc'[c] # "answered"
<1>1. TypeOK /\ UNCHANGED <<working, owner, stage, decided, faults, deliveries>>
  BY DEF IInv, EarlyCheck, Recheck, LookUp, durable, bounds
<1>2. \/ /\ IsDecided(c) /\ answer' = [answer EXCEPT ![c] = Replay(c, decided[Key[c]])]
         /\ pc' = [pc EXCEPT ![c] = "commit"]
      \/ /\ answer' = answer
         /\ \/ pc[c] = "early" /\ pc' = [pc EXCEPT ![c] = "lock"]
            \/ pc[c] = "recheck" /\ pc' = [pc EXCEPT ![c] = "handle"]
  BY DEF EarlyCheck, Recheck, LookUp, Goto, Return
<1>3. pc[c] \in {"early", "recheck"} /\ working[c] = None
  BY DEF IInv, Exclusive, Locking, Wrote, EarlyCheck, Recheck, LookUp
<1>4. IsDecided(c) => Replay(c, decided[Key[c]]) \in Answers
  BY <1>1, CallTyped, ReplayTells DEF TypeOK, IsDecided, Answers
<1>5. TypeOK'
  BY <1>1, <1>2, <1>4 DEF TypeOK, Steps, Locked
<1>6. OnlyMoves(c) /\ pc'[c] # "answered"
  BY <1>1, <1>2 DEF OnlyMoves, TypeOK
<1>7. Exclusive'
  <2>1. Locking'
    BY <1>1, <1>2, <1>3, <1>6 DEF IInv, Exclusive, Locking, TypeOK, Wrote, OnlyMoves, Locked
  <2>2. Judged'
    BY <1>1 DEF IInv, Exclusive, Judged
  <2>3. KeyIsFree'
    BY <1>1, <1>3, <1>6
    DEF IInv, Exclusive, KeyIsFree, IsDecided, KeyIsInFlight, Wrote, OnlyMoves
  <2>4. OwnersAreAtWork'
    BY <1>1, <1>2, <1>6 DEF IInv, Exclusive, OwnersAreAtWork, OnlyMoves, TypeOK, Locked
  <2> QED
    BY <2>1, <2>2, <2>3, <2>4 DEF Exclusive
<1>8. AboutToTell'
  BY <1>1, <1>2, <1>3, <1>6 DEF IInv, AboutToTell, IsDecided, Wrote, OnlyMoves, TypeOK
<1>9. AnswersAreHonest'
  BY <1>1, <1>6 DEF IInv, AnswersAreHonest, OnlyMoves, IsDecided
<1>10. EvidenceIsFinite' /\ EffectsMatchEvidence'
  BY <1>1, EvidenceFrame DEF IInv, durable
<1> QED
  BY <1>1, <1>5, <1>6, <1>7, <1>8, <1>9, <1>10 DEF IInv, durable

LEMMA LockRequestStep ==
    ASSUME IInv, NEW c \in Calls, LockRequest(c)
    PROVE  IInv' /\ UNCHANGED durable /\ OnlyMoves(c) /\ pc'[c] # "answered"
<1>1. /\ TypeOK /\ UNCHANGED <<working, stage, decided, answer, faults, deliveries>>
      /\ pc[c] = "lock" /\ owner[Request[c]] = None
      /\ pc' = [pc EXCEPT ![c] = "recheck"]
      /\ owner' = [owner EXCEPT ![Request[c]] = c]
  BY DEF IInv, LockRequest, Goto, durable, bounds
<1>2. OnlyMoves(c) /\ pc'[c] = "recheck"
  BY <1>1 DEF OnlyMoves, TypeOK
<1>3. /\ owner'[Request[c]] = c
      /\ \A d \in Calls : owner[Request[d]] = d => owner'[Request[d]] = d
  BY <1>1, CallTyped DEF TypeOK
<1>4. TypeOK'
  BY <1>1, CallTyped DEF TypeOK, Steps, Locked
<1>5. Exclusive'
  <2>1. Locking'
    BY <1>1, <1>2, <1>3 DEF IInv, Exclusive, Locking, Wrote, OnlyMoves
  <2>2. Judged' /\ KeyIsFree'
    BY <1>1, <1>2
    DEF IInv, Exclusive, Judged, KeyIsFree, IsDecided, KeyIsInFlight, Wrote, OnlyMoves
  <2>3. OwnersAreAtWork'
    BY <1>1, <1>2 DEF IInv, Exclusive, OwnersAreAtWork, OnlyMoves, TypeOK, Locked
  <2> QED
    BY <2>1, <2>2, <2>3 DEF Exclusive
<1>6. AboutToTell' /\ AnswersAreHonest'
  BY <1>1, <1>2 DEF IInv, AboutToTell, AnswersAreHonest, IsDecided, Wrote, OnlyMoves
<1>7. EvidenceIsFinite' /\ EffectsMatchEvidence'
  BY <1>1, EvidenceFrame DEF IInv, durable
<1> QED
  BY <1>1, <1>2, <1>4, <1>5, <1>6, <1>7 DEF IInv, durable

LEMMA HandleStep ==
    ASSUME IInv, NEW c \in Calls, Handle(c)
    PROVE  IInv' /\ UNCHANGED durable /\ OnlyMoves(c) /\ pc'[c] # "answered"
<1> SUFFICES ASSUME NEW outcome,
                    outcome = IF stage[Request[c]] = Predecessor[c]
                              THEN "ACCEPTED" ELSE "REFUSED"
             PROVE  IInv' /\ UNCHANGED durable /\ OnlyMoves(c) /\ pc'[c] # "answered"
  OBVIOUS
<1>1. /\ TypeOK /\ UNCHANGED <<owner, stage, decided, answer, faults, deliveries>>
      /\ pc[c] = "handle" /\ pc' = [pc EXCEPT ![c] = "persist"]
      /\ working' = [working EXCEPT ![c] = outcome]
  BY DEF IInv, Handle, Goto, durable, bounds
<1>2. OnlyMoves(c) /\ pc'[c] = "persist" /\ working'[c] = outcome
  BY <1>1 DEF OnlyMoves, TypeOK
<1>3. TypeOK'
  BY <1>1 DEF TypeOK, Steps, Locked
<1>4. Exclusive'
  <2>1. Locking'
    BY <1>1, <1>2 DEF IInv, Exclusive, Locking, Wrote, OnlyMoves, Locked, None
  <2>2. Judged' /\ KeyIsFree'
    BY <1>1, <1>2
    DEF IInv, Exclusive, Judged, KeyIsFree, IsDecided, KeyIsInFlight, Wrote, OnlyMoves
  <2>3. OwnersAreAtWork'
    BY <1>1, <1>2 DEF IInv, Exclusive, OwnersAreAtWork, OnlyMoves, Locked
  <2> QED
    BY <2>1, <2>2, <2>3 DEF Exclusive
<1>5. AboutToTell' /\ AnswersAreHonest'
  BY <1>1, <1>2 DEF IInv, AboutToTell, AnswersAreHonest, IsDecided, Wrote, OnlyMoves
<1>6. EvidenceIsFinite' /\ EffectsMatchEvidence'
  BY <1>1, EvidenceFrame DEF IInv, durable
<1> QED
  BY <1>1, <1>2, <1>3, <1>4, <1>5, <1>6 DEF IInv, durable

(* The insert waits for whoever has the key in flight, so the winner is    *)
(* alone with it, and the loser has nothing left to commit.                *)
LEMMA PersistStep ==
    ASSUME IInv, NEW c \in Calls, Persist(c)
    PROVE  IInv' /\ UNCHANGED durable /\ OnlyMoves(c) /\ pc'[c] # "answered"
<1>1. /\ TypeOK /\ UNCHANGED <<owner, stage, decided, faults, deliveries>>
      /\ pc[c] = "persist" /\ pc' = [pc EXCEPT ![c] = "commit"]
      /\ ~KeyIsInFlight(c)
  BY DEF IInv, Persist, Goto, durable, bounds
<1>2. \/ /\ ~IsDecided(c) /\ working' = working
         /\ answer' = [answer EXCEPT ![c] = working[c]]
      \/ /\ IsDecided(c) /\ working' = [working EXCEPT ![c] = None]
         /\ answer' = [answer EXCEPT ![c] = Replay(c, decided[Key[c]])]
  BY DEF Persist, Return
<1>3. /\ OnlyMoves(c) /\ pc'[c] = "commit"
      /\ \/ ~IsDecided(c) /\ working'[c] = working[c] /\ answer'[c] = working[c]
         \/ /\ IsDecided(c) /\ working'[c] = None
            /\ answer'[c] = Replay(c, decided[Key[c]])
  BY <1>1, <1>2 DEF OnlyMoves, TypeOK
<1>4. working[c] \in Outcomes /\ owner[Request[c]] = c
  BY <1>1 DEF IInv, Exclusive, Locking, TypeOK, Wrote, Outcomes
<1>5. IsDecided(c) => Replay(c, decided[Key[c]]) \in Answers
  BY <1>1, CallTyped, ReplayTells DEF TypeOK, IsDecided, Answers
<1>6. TypeOK'
  BY <1>1, <1>2, <1>4, <1>5 DEF TypeOK, Steps, Answers
<1>7. Exclusive'
  <2>1. Locking'
    BY <1>1, <1>3, <1>4 DEF IInv, Exclusive, Locking, Wrote, OnlyMoves, Locked
  <2>2. Judged'
    BY <1>1, <1>3 DEF IInv, Exclusive, Judged, OnlyMoves, None
  <2>3. KeyIsFree'
    BY <1>1, <1>3
    DEF IInv, Exclusive, KeyIsFree, IsDecided, KeyIsInFlight, Wrote, OnlyMoves
  <2>4. OwnersAreAtWork'
    BY <1>1, <1>3 DEF IInv, Exclusive, OwnersAreAtWork, OnlyMoves
  <2> QED
    BY <2>1, <2>2, <2>3, <2>4 DEF Exclusive
<1>8. AboutToTell'
  BY <1>1, <1>3, <1>4
  DEF IInv, AboutToTell, IsDecided, Wrote, OnlyMoves, Outcomes, None
<1>9. AnswersAreHonest'
  BY <1>1, <1>3 DEF IInv, AnswersAreHonest, IsDecided, OnlyMoves
<1>10. EvidenceIsFinite' /\ EffectsMatchEvidence'
  BY <1>1, EvidenceFrame DEF IInv, durable
<1> QED
  BY <1>1, <1>3, <1>6, <1>7, <1>8, <1>9, <1>10 DEF IInv, durable

(* A transaction that is lost, or a command that comes again, leaves no    *)
(* trace in what is committed.                                             *)
LEMMA AbortStep ==
    ASSUME IInv, NEW c \in Calls,
           NEW step, NEW value, Abort(c, step, value),
           \/ step = "early" /\ value = None
           \/ step = "answered" /\ value = "ERROR"
    PROVE  /\ IInv' /\ UNCHANGED durable /\ OnlyMoves(c)
           /\ pc[c] # "answered" /\ pc'[c] = step /\ answer'[c] = value
<1>1. /\ TypeOK /\ UNCHANGED <<stage, decided, deliveries>>
      /\ pc[c] # "answered" /\ faults < MaxFaults /\ faults' = faults + 1
      /\ pc' = [pc EXCEPT ![c] = step]
      /\ working' = [working EXCEPT ![c] = None]
      /\ answer' = [answer EXCEPT ![c] = value]
      /\ ReleaseLocks(c)
  BY DEF IInv, Abort, Goto, Return, durable
<1>2. OnlyMoves(c) /\ pc'[c] = step /\ working'[c] = None /\ answer'[c] = value
  BY <1>1 DEF OnlyMoves, TypeOK
<1>3. /\ owner' \in [Requests -> Calls \union {None}]
      /\ \A d \in Calls : d # c /\ owner[Request[d]] = d => owner'[Request[d]] = d
      /\ \A r \in Requests : owner'[r] # c /\ owner'[r] \in {owner[r], None}
  BY <1>1, LocksReleased
<1>4. TypeOK'
  BY <1>1, <1>3, FaultsAssumption DEF TypeOK, Steps, Answers
<1>5. Exclusive'
  <2>1. Locking'
    BY <1>1, <1>2, <1>3 DEF IInv, Exclusive, Locking, Wrote, OnlyMoves, Locked
  <2>2. Judged' /\ KeyIsFree'
    BY <1>1, <1>2
    DEF IInv, Exclusive, Judged, KeyIsFree, IsDecided, KeyIsInFlight, Wrote, OnlyMoves,
        None
  <2>3. OwnersAreAtWork'
    BY <1>2, <1>3, CallTyped DEF IInv, Exclusive, OwnersAreAtWork, OnlyMoves
  <2> QED
    BY <2>1, <2>2, <2>3 DEF Exclusive
<1>6. AboutToTell' /\ AnswersAreHonest'
  BY <1>1, <1>2
  DEF IInv, AboutToTell, AnswersAreHonest, IsDecided, Wrote, OnlyMoves, Outcomes, None
<1>7. EvidenceIsFinite' /\ EffectsMatchEvidence'
  BY <1>1, EvidenceFrame DEF IInv, durable
<1> QED
  BY <1>1, <1>2, <1>4, <1>5, <1>6, <1>7 DEF IInv, durable

LEMMA RedeliverStep ==
    ASSUME IInv, NEW c \in Calls, Redeliver(c)
    PROVE  /\ IInv' /\ UNCHANGED durable /\ OnlyMoves(c)
           /\ pc[c] = "answered" /\ pc'[c] = "early"
<1>1. /\ TypeOK /\ UNCHANGED <<working, owner, stage, decided, faults>>
      /\ pc[c] = "answered" /\ pc' = [pc EXCEPT ![c] = "early"]
      /\ answer' = [answer EXCEPT ![c] = None]
      /\ deliveries[c] < MaxDeliveries
      /\ deliveries' = [deliveries EXCEPT ![c] = deliveries[c] + 1]
  BY DEF IInv, Redeliver, Goto, Return, durable
<1>2. OnlyMoves(c) /\ pc'[c] = "early" /\ working[c] = None
  BY <1>1 DEF OnlyMoves, TypeOK, IInv, Exclusive, Locking, Wrote
<1>3. TypeOK'
  BY <1>1, FaultsAssumption DEF TypeOK, Steps, Answers
<1>4. Exclusive'
  BY <1>1, <1>2
  DEF IInv, Exclusive, Locking, OwnersAreAtWork, Judged, KeyIsFree, IsDecided,
      KeyIsInFlight, Wrote, OnlyMoves, Locked
<1>5. AboutToTell' /\ AnswersAreHonest'
  BY <1>1, <1>2 DEF IInv, AboutToTell, AnswersAreHonest, IsDecided, Wrote, OnlyMoves
<1>6. EvidenceIsFinite' /\ EffectsMatchEvidence'
  BY <1>1, EvidenceFrame DEF IInv, durable
<1> QED
  BY <1>1, <1>2, <1>3, <1>4, <1>5, <1>6 DEF IInv, durable

-----------------------------------------------------------------------------
(* A decision lands.                                                       *)

(* What is committed when the transaction of c ends.                       *)
Lands(c, row, outcome) ==
    /\ decided' = [decided EXCEPT ![Key[c]] = row]
    /\ stage' = IF outcome = "ACCEPTED"
                THEN [stage EXCEPT ![Request[c]] = stage[Request[c]] + 1] ELSE stage

LEMMA LandMoves ==
    ASSUME IInv, NEW c \in Calls, Land(c)
    PROVE  /\ pc[c] = "commit" /\ pc' = [pc EXCEPT ![c] = "answered"]
           /\ working' = [working EXCEPT ![c] = None] /\ ReleaseLocks(c)
           /\ \/ ~Wrote(c) /\ UNCHANGED durable
              \/ /\ working[c] \in Outcomes /\ owner[Request[c]] = c
                 /\ ~IsDecided(c) /\ ~KeyIsInFlight(c)
                 /\ Lands(c, Row(c, working[c]), working[c])
<1>1. CASE Wrote(c)
  BY <1>1 DEF IInv, Exclusive, Locking, KeyIsFree, Wrote, TypeOK, Land, Goto, Lands, Outcomes
<1>2. CASE ~Wrote(c)
  BY <1>2 DEF Land, Goto, Wrote
<1> QED
  BY <1>1, <1>2

(* The evidence of the request grows by the key, and the request by a      *)
(* stage; no other request has either.                                     *)
LEMMA EvidenceLands ==
    ASSUME IInv, NEW c \in Calls, NEW outcome \in Outcomes, ~IsDecided(c),
           NEW row, row = Row(c, outcome), Lands(c, row, outcome)
    PROVE  EvidenceIsFinite' /\ EffectsMatchEvidence'
<1>1. row.outcome = outcome /\ row.fingerprint[1] = Request[c]
  BY DEF Row, Fingerprint
<1>2. decided \in [Keys -> Rows] /\ stage \in [Requests -> 0 .. MaxStage]
  BY DEF IInv, TypeOK
<1>3. /\ decided'[Key[c]] = row
      /\ \A k \in Keys : k # Key[c] => decided'[k] = decided[k]
  BY <1>2, CallTyped DEF Lands
<1>4. \A r \in Requests : Key[c] \notin Accepted(r)
  BY DEF Accepted, IsDecided, NoRow, None
<1> SUFFICES ASSUME NEW r \in Requests
             PROVE  IsFiniteSet(Accepted(r)') /\ stage'[r] = Cardinality(Accepted(r)')
  BY DEF EvidenceIsFinite, EffectsMatchEvidence, Accepted
<1>5. IsFiniteSet(Accepted(r)) /\ stage[r] = Cardinality(Accepted(r))
  BY DEF IInv, EvidenceIsFinite, EffectsMatchEvidence, Accepted
<1>6. CASE outcome = "ACCEPTED" /\ r = Request[c]
  <2>1. Accepted(r)' = Accepted(r) \union {Key[c]}
    BY <1>1, <1>3, <1>6, CallTyped DEF Accepted
  <2>2. stage'[r] = stage[r] + 1
    BY <1>2, <1>6 DEF Lands
  <2>3. ASSUME NEW S, IsFiniteSet(S), NEW x, x \notin S
        PROVE  IsFiniteSet(S \union {x}) /\ Cardinality(S \union {x}) = Cardinality(S) + 1
    BY <2>3, FS_AddElement
  <2>4. /\ IsFiniteSet(Accepted(r) \union {Key[c]})
        /\ Cardinality(Accepted(r) \union {Key[c]}) = Cardinality(Accepted(r)) + 1
    BY <1>4, <1>5, <2>3
  <2> QED
    BY <1>5, <2>1, <2>2, <2>4
<1>7. CASE ~(outcome = "ACCEPTED" /\ r = Request[c])
  <2>1. Accepted(r)' = Accepted(r)
    BY <1>1, <1>3, <1>4, <1>7 DEF Accepted
  <2>2. stage'[r] = stage[r]
    BY <1>2, <1>7 DEF Lands
  <2> QED
    BY <1>5, <2>1, <2>2
<1> QED
  BY <1>6, <1>7

(* Whoever else has written is at work on another request, under another   *)
(* key if it is about to commit.                                           *)
LEMMA OthersAreElsewhere ==
    ASSUME IInv, NEW c \in Calls, NEW d \in Calls, d # c, Wrote(d),
           owner[Request[c]] = c, ~KeyIsInFlight(c)
    PROVE  Request[d] # Request[c] /\ (pc[d] = "commit" => Key[d] # Key[c])
BY DEF IInv, Exclusive, Locking, KeyIsInFlight, Wrote

LEMMA LandStep ==
    ASSUME IInv, NEW c \in Calls, Land(c),
           \/ answer' = answer /\ UNCHANGED bounds
           \/ /\ answer' = [answer EXCEPT ![c] = "ERROR"]
              /\ faults < MaxFaults /\ faults' = faults + 1 /\ UNCHANGED deliveries
    PROVE  IInv' /\ OnlyMoves(c) /\ pc'[c] = "answered"
<1>1. /\ TypeOK /\ pc[c] = "commit" /\ pc' = [pc EXCEPT ![c] = "answered"]
      /\ working' = [working EXCEPT ![c] = None] /\ ReleaseLocks(c)
  BY LandMoves DEF IInv
<1>2. /\ OnlyMoves(c) /\ pc'[c] = "answered" /\ working'[c] = None
      /\ answer'[c] \in {answer[c], "ERROR"}
  BY <1>1 DEF OnlyMoves, TypeOK
<1>3. /\ owner' \in [Requests -> Calls \union {None}]
      /\ \A d \in Calls : d # c /\ owner[Request[d]] = d => owner'[Request[d]] = d
      /\ \A r \in Requests : owner'[r] # c /\ owner'[r] \in {owner[r], None}
  BY <1>1, LocksReleased
<1>4. /\ pc' \in [Calls -> Steps] /\ working' \in [Calls -> {"ACCEPTED", "REFUSED", None}]
      /\ answer' \in [Calls -> Answers]
      /\ faults' \in 0 .. MaxFaults /\ deliveries' \in [Calls -> 1 .. MaxDeliveries]
  BY <1>1, FaultsAssumption DEF TypeOK, Steps, Answers, bounds
<1>5. Locking' /\ OwnersAreAtWork'
  <2>1. Locking'
    BY <1>1, <1>2, <1>3 DEF IInv, Exclusive, Locking, Wrote, OnlyMoves, Locked
  <2>2. OwnersAreAtWork'
    BY <1>2, <1>3, CallTyped DEF IInv, Exclusive, OwnersAreAtWork, OnlyMoves
  <2> QED
    BY <2>1, <2>2
<1>6. CASE ~Wrote(c) /\ UNCHANGED durable
  <2>1. TypeOK'
    BY <1>1, <1>3, <1>4, <1>6 DEF TypeOK, durable
  <2>2. Judged' /\ KeyIsFree'
    BY <1>1, <1>2, <1>6
    DEF IInv, Exclusive, Judged, KeyIsFree, IsDecided, KeyIsInFlight, Wrote, OnlyMoves,
        None, durable
  <2>3. AboutToTell'
    BY <1>2, <1>6 DEF IInv, AboutToTell, IsDecided, Wrote, OnlyMoves, durable
  <2>4. AnswersAreHonest'
    <3>1. decided[Key[c]] \in Rows /\ decided[Key[c]] # NoRow
          /\ answer[c] = Replay(c, decided[Key[c]])
      BY <1>1, <1>6, CallTyped DEF IInv, AboutToTell, IsDecided, TypeOK
    <3>2. /\ answer[c] \in Outcomes \union {"IDEMPOTENCY_CONFLICT"}
          /\ answer[c] \in Outcomes => decided[Key[c]] = Row(c, answer[c])
          /\ answer[c] = "IDEMPOTENCY_CONFLICT" =>
                decided[Key[c]].fingerprint # Fingerprint(c)
      BY <3>1, ReplayTells
    <3> QED
      BY <1>2, <1>6, <3>1, <3>2
      DEF IInv, AnswersAreHonest, IsDecided, OnlyMoves, Outcomes, None, durable
  <2>5. EvidenceIsFinite' /\ EffectsMatchEvidence'
    BY <1>6, EvidenceFrame DEF IInv
  <2> QED
    BY <1>2, <1>5, <2>1, <2>2, <2>3, <2>4, <2>5 DEF IInv, Exclusive
<1>7. ASSUME NEW outcome \in Outcomes, outcome = working[c],
             NEW row, row = Row(c, outcome), Lands(c, row, outcome),
             owner[Request[c]] = c, ~IsDecided(c), ~KeyIsInFlight(c)
      PROVE  IInv' /\ OnlyMoves(c) /\ pc'[c] = "answered"
  <2>1. /\ Key[c] \in Keys /\ decided[Key[c]] = NoRow /\ row \in Rows /\ row # NoRow
        /\ decided' = [decided EXCEPT ![Key[c]] = row]
    BY <1>7, CallTyped, RowReplayed DEF Lands, IsDecided
  <2>2. /\ decided'[Key[c]] = row
        /\ \A k \in Keys : decided[k] # NoRow => decided'[k] = decided[k]
        /\ \A k \in Keys : k # Key[c] => decided'[k] = decided[k]
    BY <1>1, <2>1 DEF TypeOK
  <2>3. \A r \in Requests : r # Request[c] => stage'[r] = stage[r]
    BY <1>1, <1>7 DEF Lands, TypeOK
  <2>4. \A d \in Calls : d # c /\ Wrote(d) =>
           Request[d] # Request[c] /\ (pc[d] = "commit" => Key[d] # Key[c])
    BY <1>7, OthersAreElsewhere
  <2>5. TypeOK'
    <3>1. outcome = "ACCEPTED" => stage[Request[c]] + 1 \in 0 .. MaxStage
      <4>1. outcome = "ACCEPTED" => stage[Request[c]] = Predecessor[c]
        BY <1>7 DEF IInv, Exclusive, Judged
      <4>2. ASSUME NEW n \in Nat, NEW m \in 0 .. n - 1 PROVE m + 1 \in 0 .. n
        OBVIOUS
      <4> QED
        BY <4>1, <4>2, CallTyped
    <3>2. stage' \in [Requests -> 0 .. MaxStage]
      BY <1>1, <1>7, <3>1 DEF Lands, TypeOK
    <3> QED
      BY <1>1, <1>3, <1>4, <2>1, <3>2 DEF TypeOK
  <2>6. Judged'
    BY <1>2, <2>3, <2>4, CallTyped DEF IInv, Exclusive, Judged, Wrote, OnlyMoves, None
  <2>7. KeyIsFree'
    BY <1>2, <2>2, <2>4, CallTyped
    DEF IInv, Exclusive, KeyIsFree, IsDecided, KeyIsInFlight, Wrote, OnlyMoves
  <2>8. AboutToTell'
    BY <1>2, <2>2, CallTyped DEF IInv, AboutToTell, IsDecided, Wrote, OnlyMoves
  <2>9. AnswersAreHonest'
    <3>1. answer[c] = outcome
      BY <1>1, <1>7 DEF IInv, AboutToTell
    <3>2. ASSUME NEW d \in Calls, d # c, pc'[d] = "answered"
          PROVE  /\ answer'[d] \in Outcomes => decided'[Key[d]] = Row(d, answer'[d])
                 /\ answer'[d] = "IDEMPOTENCY_CONFLICT" =>
                       /\ decided'[Key[d]] # NoRow
                       /\ decided'[Key[d]].fingerprint # Fingerprint(d)
                 /\ answer'[d] # None
      <4>1. pc[d] = "answered" /\ answer'[d] = answer[d]
        BY <1>2, <3>2 DEF OnlyMoves
      <4>2. answer[d] \in Outcomes => decided[Key[d]] # NoRow
        BY <4>1, <3>2, RowReplayed DEF IInv, AnswersAreHonest
      <4> QED
        BY <4>1, <4>2, <2>2, <3>2, CallTyped DEF IInv, AnswersAreHonest, IsDecided
    <3>3. /\ answer'[c] \in Outcomes => decided'[Key[c]] = Row(c, answer'[c])
          /\ answer'[c] # "IDEMPOTENCY_CONFLICT" /\ answer'[c] # None
      BY <1>2, <1>7, <2>2, <3>1 DEF Outcomes, None
    <3> QED
      BY <3>2, <3>3 DEF AnswersAreHonest, IsDecided
  <2>10. EvidenceIsFinite' /\ EffectsMatchEvidence'
    BY <1>7, EvidenceLands
  <2> QED
    BY <1>2, <1>5, <2>5, <2>6, <2>7, <2>8, <2>9, <2>10 DEF IInv, Exclusive
<1> QED
  BY <1>6, <1>7, LandMoves

-----------------------------------------------------------------------------
(* The theorems.                                                           *)

LEMMA Initially == Init => IInv
<1> SUFFICES ASSUME Init PROVE IInv
  OBVIOUS
<1>1. TypeOK
  BY CallsAssumption, FaultsAssumption DEF Init, TypeOK, Steps, Rows, Answers
<1>2. Exclusive
  BY CallTyped
  DEF Init, Exclusive, Locking, OwnersAreAtWork, Judged, KeyIsFree, Wrote, Locked, None
<1>3. AboutToTell /\ AnswersAreHonest
  BY DEF Init, AboutToTell, AnswersAreHonest
<1>4. \A r \in Requests : Accepted(r) = {} /\ stage[r] = 0
  BY DEF Init, Accepted, NoRow, None
<1>5. EvidenceIsFinite /\ EffectsMatchEvidence
  BY <1>4, FS_EmptySet DEF EvidenceIsFinite, EffectsMatchEvidence, Accepted
<1> QED
  BY <1>1, <1>2, <1>3, <1>5 DEF IInv

LEMMA Stutter == IInv /\ UNCHANGED vars => IInv'
<1> SUFFICES ASSUME IInv, UNCHANGED vars PROVE IInv'
  OBVIOUS
<1>1. TypeOK' /\ AboutToTell' /\ AnswersAreHonest'
  BY DEF IInv, vars, TypeOK, AboutToTell, AnswersAreHonest, IsDecided, Wrote
<1>2. Exclusive'
  BY DEF IInv, vars, Exclusive, Locking, OwnersAreAtWork, Judged, KeyIsFree, Wrote,
         IsDecided, KeyIsInFlight
<1>3. EvidenceIsFinite' /\ EffectsMatchEvidence'
  BY EvidenceFrame DEF IInv, vars, durable
<1> QED
  BY <1>1, <1>2, <1>3 DEF IInv

(* Either the transaction of c lands, or nothing committed changes.        *)
LEMMA EveryStep ==
    ASSUME IInv, NEW c \in Calls, Progress(c) \/ Disturbance(c)
    PROVE  IInv' /\ OnlyMoves(c) /\ (UNCHANGED durable \/ Land(c))
<1>1. CASE EarlyCheck(c) \/ Recheck(c)
  BY <1>1, LookUpStep
<1>2. CASE LockRequest(c)
  BY <1>2, LockRequestStep
<1>3. CASE Handle(c)
  BY <1>3, HandleStep
<1>4. CASE Persist(c)
  BY <1>4, PersistStep
<1>5. CASE Commit(c)
  BY <1>5, LandStep DEF Commit
<1>6. CASE CommitUnheard(c)
  BY <1>6, LandStep DEF CommitUnheard, Return
<1>7. CASE Retry(c)
  BY <1>7, AbortStep DEF Retry
<1>8. CASE Fail(c)
  BY <1>8, AbortStep DEF Fail
<1>9. CASE Redeliver(c)
  BY <1>9, RedeliverStep
<1> QED
  BY <1>1, <1>2, <1>3, <1>4, <1>5, <1>6, <1>7, <1>8, <1>9 DEF Progress, Disturbance

LEMMA Inductive == IInv /\ [Next]_vars => IInv'
BY EveryStep, Stutter DEF Next

LEMMA Invariant == Spec => []IInv
BY Initially, Inductive, PTL DEF Spec

(* Every variable keeps its type: a request never leaves its last stage,   *)
(* and no key is settled by a row other than some call's decision.         *)
THEOREM TypeCorrect == Spec => []TypeOK
<1>1. IInv => TypeOK
  BY DEF IInv
<1> QED
  BY <1>1, Invariant, PTL

(* What a handler judged under the row lock (orchestrator.ts:251-281) is   *)
(* still so when its transaction commits, however many calls run beside it.*)
THEOREM HandlersAreIsolated == Spec => []HandlerIsolated
<1>1. IInv => HandlerIsolated
  BY DEF IInv, Exclusive, Locking, Judged, Wrote, HandlerIsolated
<1> QED
  BY <1>1, Invariant, PTL

(* A request has advanced exactly as often as an accepted action about it  *)
(* is on record, whatever was retried, lost or delivered again.            *)
THEOREM EffectsAlwaysMatchEvidence == Spec => []EffectsMatchEvidence
<1>1. IInv => EffectsMatchEvidence
  BY DEF IInv
<1> QED
  BY <1>1, Invariant, PTL

(* No call is told anything but the decision on record for its key.        *)
THEOREM AnswersAlwaysHonest == Spec => []AnswersAreHonest
<1>1. IInv => AnswersAreHonest
  BY DEF IInv
<1> QED
  BY <1>1, Invariant, PTL

(* No circle of calls waits for each other, and nobody waits for a         *)
(* transaction that is over, for any calls, keys and requests: a row lock  *)
(* has an owner at work on that row, and whoever has a key in flight has   *)
(* nothing left to wait for.                                               *)
THEOREM WaitsAlwaysEnd == Spec => []WaitsEnd
<1>1. ASSUME IInv, NEW c \in Calls, NEW d \in WaitsFor(c)
      PROVE  /\ d \in Calls /\ d # c
             /\ \/ /\ pc[c] = "lock" /\ d = owner[Request[c]]
                   /\ pc[d] \in Locked \union {"commit"}
                \/ pc[c] = "persist" /\ pc[d] = "commit"
  <2>1. CASE pc[c] = "lock"
    <3>1. d = owner[Request[c]] /\ d \in Calls
      BY <1>1, <2>1, CallTyped DEF WaitsFor, IInv, TypeOK
    <3>2. pc[d] \in Locked \union {"commit"}
      BY <3>1, CallTyped, <1>1 DEF IInv, Exclusive, OwnersAreAtWork
    <3> QED
      BY <2>1, <3>1, <3>2 DEF Locked
  <2>2. CASE pc[c] # "lock"
    BY <1>1, <2>2 DEF WaitsFor
  <2> QED
    BY <2>1, <2>2
<1>2. ASSUME IInv, NEW c \in Calls, NEW d \in WaitsFor(c)
      PROVE  /\ d # c /\ pc[d] # "answered"
             /\ \A e \in WaitsFor(d) : e # c /\ pc[e] # "answered" /\ WaitsFor(e) = {}
  <2>1. d \in Calls /\ d # c /\ pc[d] \in Locked \union {"commit"}
    BY <1>1, <1>2 DEF Locked
  <2>2. ASSUME NEW e \in WaitsFor(d)
        PROVE  pc[e] = "commit" /\ pc[c] # "commit"
    BY <1>1, <1>2, <2>1, <2>2 DEF Locked
  <2> QED
    BY <2>1, <2>2 DEF Locked, WaitsFor
<1>3. IInv => WaitsEnd
  BY <1>2 DEF WaitsEnd
<1> QED
  BY <1>3, Invariant, PTL

(* A decision on record is never replaced: a transaction that writes one   *)
(* found its key free, and nobody else can have taken it since.            *)
THEOREM DecisionsAreFinal == Spec => DecisionIsFinal
<1>1. ASSUME IInv, NEW c \in Calls, Land(c), NEW k \in Keys, decided[k] # NoRow
      PROVE  decided'[k] = decided[k]
  BY <1>1, LandMoves, CallTyped DEF Lands, IsDecided, durable, IInv, TypeOK
<1>2. IInv /\ [Next]_vars => \A k \in Keys : decided[k] # NoRow => decided'[k] = decided[k]
  BY <1>1, EveryStep DEF Next, vars, durable
<1>3. IInv /\ [Next]_vars =>
         [\A k \in Keys : decided[k] # NoRow => decided'[k] = decided[k]]_vars
  BY <1>2
<1> QED
  BY <1>3, Invariant, PTL DEF Spec, DecisionIsFinal

-----------------------------------------------------------------------------
(* The envelope implements DecideOnce.                                     *)

LEMMA SameWords ==
    ASSUME NEW c, NEW row, NEW outcome
    PROVE  /\ Promise!Replay(c, row) = Replay(c, row)
           /\ Promise!Row(c, outcome) = Row(c, outcome)
           /\ Promise!NoRow = NoRow /\ Promise!None = None
BY DEF Promise!Replay, Replay, Promise!Row, Row, Promise!Fingerprint, Fingerprint,
       Promise!NoRow, NoRow, Promise!None, None

(* What a step of c alone does to the answers that exist.                  *)
LEMMA ReturnedMoves ==
    ASSUME NEW c \in Calls, OnlyMoves(c)
    PROVE  /\ pc[c] # "answered" => Returned[c] = None
           /\ pc[c] = "answered" => Returned[c] = answer[c]
           /\ pc'[c] = "answered" => Returned' = [Returned EXCEPT ![c] = answer'[c]]
           /\ pc'[c] # "answered" => Returned' = [Returned EXCEPT ![c] = None]
           /\ pc[c] # "answered" /\ pc'[c] # "answered" => Returned' = Returned
BY DEF OnlyMoves, Returned

(* A transaction that ends tells its call about the decision it has made,  *)
(* judged as DecideOnce judges it, or about one that was there before.     *)
LEMMA LandKeepsPromise ==
    ASSUME IInv, NEW c \in Calls, Land(c)
    PROVE  /\ pc[c] # "answered"
           /\ \/ /\ decided[Key[c]] = NoRow
                 /\ Promise!Land(c, Promise!Judgement(c))
                 /\ answer[c] = Promise!Judgement(c)
                 /\ decided'[Key[c]] = Row(c, answer[c])
              \/ /\ decided[Key[c]] # NoRow /\ UNCHANGED <<stage, decided>>
                 /\ answer[c] = Replay(c, decided'[Key[c]])
<1>1. pc[c] = "commit"
  BY LandMoves
<1>2. CASE ~Wrote(c) /\ UNCHANGED durable
  BY <1>1, <1>2 DEF IInv, AboutToTell, IsDecided, durable
<1>3. ASSUME NEW outcome \in Outcomes, outcome = working[c],
             ~IsDecided(c), Lands(c, Row(c, outcome), outcome)
      PROVE  /\ decided[Key[c]] = NoRow
             /\ Promise!Land(c, Promise!Judgement(c))
             /\ answer[c] = Promise!Judgement(c)
             /\ decided'[Key[c]] = Row(c, answer[c])
  <2>1. outcome = Promise!Judgement(c)
    BY <1>3 DEF IInv, Exclusive, Judged, Outcomes, Promise!Judgement
  <2>2. answer[c] = outcome
    BY <1>1, <1>3 DEF IInv, AboutToTell, IsDecided
  <2>3. Promise!Land(c, outcome)
    BY <1>3, SameWords DEF Lands, Promise!Land
  <2>4. decided'[Key[c]] = Row(c, outcome)
    BY <1>3, CallTyped DEF Lands, IInv, TypeOK
  <2> QED
    BY <1>3, <2>1, <2>2, <2>3, <2>4 DEF IsDecided
<1> QED
  BY <1>1, <1>2, <1>3, LandMoves

LEMMA CommitSettles ==
    ASSUME IInv, NEW c \in Calls, Commit(c)
    PROVE  Promise!Settle(c)
<1>1. Land(c) /\ answer' = answer
  BY DEF Commit
<1>2. OnlyMoves(c) /\ pc'[c] = "answered"
  BY LandStep DEF Commit
<1>3. pc[c] # "answered"
  BY <1>1, LandKeepsPromise
<1>4. Returned[c] = None /\ Returned' = [Returned EXCEPT ![c] = answer[c]]
  BY <1>1, <1>2, <1>3, ReturnedMoves
<1>5. answer[c] = Replay(c, decided'[Key[c]])
  BY <1>1, LandKeepsPromise, RowReplayed
<1>6. Returned' = [Returned EXCEPT ![c] = Promise!Replay(c, decided'[Key[c]])]
  BY <1>4, <1>5, SameWords
<1> QED
  BY <1>1, <1>4, <1>6, LandKeepsPromise, SameWords DEF Promise!Settle

LEMMA UnheardLoses ==
    ASSUME IInv, NEW c \in Calls, CommitUnheard(c)
    PROVE  Promise!Lose(c)
<1>1. /\ Land(c) /\ answer' = [answer EXCEPT ![c] = "ERROR"]
      /\ OnlyMoves(c) /\ pc'[c] = "answered"
  BY LandStep DEF CommitUnheard, Return
<1>2. answer'[c] = "ERROR"
  BY <1>1 DEF IInv, TypeOK
<1>3. Returned[c] = None /\ Returned' = [Returned EXCEPT ![c] = "ERROR"]
  BY <1>1, <1>2, LandKeepsPromise, ReturnedMoves
<1> QED
  BY <1>1, <1>3, LandKeepsPromise, SameWords DEF Promise!Lose

(* Every step of a call is a step of DecideOnce, or out of its sight.      *)
LEMMA StepKeepsPromise ==
    ASSUME IInv, NEW c \in Calls, Progress(c) \/ Disturbance(c)
    PROVE  \/ Promise!Settle(c) \/ Promise!Lose(c) \/ Promise!AskAgain(c)
           \/ UNCHANGED Promise!vars
<1>1. ASSUME UNCHANGED durable, OnlyMoves(c), pc[c] # "answered", pc'[c] # "answered"
      PROVE  UNCHANGED Promise!vars
  BY <1>1, ReturnedMoves DEF Promise!vars, durable
<1>2. CASE EarlyCheck(c) \/ Recheck(c)
  BY <1>1, <1>2, LookUpStep DEF EarlyCheck, Recheck, LookUp
<1>3. CASE LockRequest(c)
  BY <1>1, <1>3, LockRequestStep DEF LockRequest
<1>4. CASE Handle(c)
  BY <1>1, <1>4, HandleStep DEF Handle
<1>5. CASE Persist(c)
  BY <1>1, <1>5, PersistStep DEF Persist
<1>6. CASE Commit(c)
  BY <1>6, CommitSettles
<1>7. CASE CommitUnheard(c)
  BY <1>7, UnheardLoses
<1>8. CASE Retry(c)
  BY <1>1, <1>8, AbortStep DEF Retry
<1>9. CASE Fail(c)
  <2>1. /\ UNCHANGED <<stage, decided>> /\ OnlyMoves(c)
        /\ pc[c] # "answered" /\ pc'[c] = "answered" /\ answer'[c] = "ERROR"
    BY <1>9, AbortStep DEF Fail, durable
  <2> QED
    BY <2>1, ReturnedMoves, SameWords DEF Promise!Lose
<1>10. CASE Redeliver(c)
  <2>1. /\ UNCHANGED <<stage, decided>> /\ OnlyMoves(c)
        /\ pc[c] = "answered" /\ pc'[c] = "early" /\ answer[c] # None
    BY <1>10, RedeliverStep DEF IInv, AnswersAreHonest, durable
  <2> QED
    BY <2>1, ReturnedMoves, SameWords DEF Promise!AskAgain
<1> QED
  BY <1>2, <1>3, <1>4, <1>5, <1>6, <1>7, <1>8, <1>9, <1>10 DEF Progress, Disturbance

(* The envelope of executeOperationalAction keeps the safety part of the   *)
(* promise of DecideOnce: a key is decided at most once, its effect lands  *)
(* with the decision or not at all, and every answer is that decision.     *)
THEOREM EnvelopeDecidesOnce == Spec => Promise!Init /\ [][Promise!Next]_(Promise!vars)
<1>1. Init => Promise!Init
  BY SameWords DEF Init, Promise!Init, Returned, None, Promise!None, Promise!NoRow, NoRow
<1>2. UNCHANGED vars => UNCHANGED Promise!vars
  BY DEF vars, Promise!vars, Returned
<1>3. IInv /\ [Next]_vars => [Promise!Next]_(Promise!vars)
  BY <1>2, StepKeepsPromise DEF Next, Promise!Next
<1> QED
  BY <1>1, <1>3, Invariant, PTL DEF Spec
=============================================================================
