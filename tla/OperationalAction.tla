------------------------- MODULE OperationalAction -------------------------
(***************************************************************************)
(* The commands sent to the orchestrator and the rows that record them     *)
(* (src/src/lifecycle/actions.ts), shared by the envelope and its promise. *)
(***************************************************************************)
EXTENDS Naturals, FiniteSets

CONSTANTS
    Calls,        \* the calls made of executeOperationalAction
    Keys,         \* the idempotency keys of one tenant
    Requests,     \* the Service Requests
    Key,          \* Key[c]: the idempotency key call c carries
    Request,      \* Request[c]: the request it is about
    Predecessor,  \* Predecessor[c]: the stage it asks the request to leave
    MaxStage      \* the last stage of a request

None == "NONE"

ASSUME CallsAssumption ==
    /\ IsFiniteSet(Calls) /\ None \notin Calls
    /\ Key \in [Calls -> Keys]
    /\ Request \in [Calls -> Requests]
    /\ MaxStage \in Nat
    /\ Predecessor \in [Calls -> 0 .. MaxStage - 1]

(* actionFingerprint: everything material about the call but its key.      *)
Fingerprint(c) == <<Request[c], Predecessor[c]>>

Outcomes == {"ACCEPTED", "REFUSED"}

Answers == Outcomes \union {"IDEMPOTENCY_CONFLICT", "ERROR", None}

(* The envelope row that settles a key, and its absence.                   *)
Row(c, outcome) == [fingerprint |-> Fingerprint(c), outcome |-> outcome]

NoRow == [fingerprint |-> <<>>, outcome |-> None]

Rows == {NoRow} \union {Row(c, o) : c \in Calls, o \in Outcomes}

(* What a call is told once row settles its key (replayOf): the decision   *)
(* already made when it is the same action, a conflict when it is not.     *)
ReplayRegardless(c, row) == row.outcome       \* fault: no fingerprint check

Replay(c, row) ==
    IF row.fingerprint = Fingerprint(c) THEN row.outcome
                                        ELSE "IDEMPOTENCY_CONFLICT"
=============================================================================
