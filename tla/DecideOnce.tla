---------------------------- MODULE DecideOnce ----------------------------
(***************************************************************************)
(* What the action envelope promises the channels and the owner's commands *)
(* that call it: an idempotency key is decided at most once, its effect    *)
(* lands with the decision or not at all, and every call that is answered  *)
(* is told that one decision, however often and from wherever it is made.  *)
(***************************************************************************)
EXTENDS OperationalAction

VARIABLES
    stage,        \* stage[r]: how far request r has advanced
    decided,      \* decided[k]: the core_operational_action row of key k
    answer        \* answer[c]: what call c was told, None while it waits

vars == <<stage, decided, answer>>

(* A handler accepts exactly from the stage it names.                      *)
Judgement(c) ==
    IF stage[Request[c]] = Predecessor[c] THEN "ACCEPTED" ELSE "REFUSED"

Land(c, outcome) ==
    /\ decided' = [decided EXCEPT ![Key[c]] = Row(c, outcome)]
    /\ stage' = IF outcome = "ACCEPTED"
                THEN [stage EXCEPT ![Request[c]] = @ + 1]
                ELSE stage

Init ==
    /\ stage = [r \in Requests |-> 0]
    /\ decided = [k \in Keys |-> NoRow]
    /\ answer = [c \in Calls |-> None]

(* The call settles its key if nobody has, and is told how it was settled. *)
Settle(c) ==
    /\ answer[c] = None
    /\ \/ /\ decided[Key[c]] = NoRow
          /\ Land(c, Judgement(c))
       \/ /\ decided[Key[c]] # NoRow
          /\ UNCHANGED <<stage, decided>>
    /\ answer' = [answer EXCEPT ![c] = Replay(c, decided'[Key[c]])]

(* The call fails; its caller cannot tell whether its key was settled.     *)
Lose(c) ==
    /\ answer[c] = None
    /\ \/ decided[Key[c]] = NoRow /\ Land(c, Judgement(c))
       \/ UNCHANGED <<stage, decided>>
    /\ answer' = [answer EXCEPT ![c] = "ERROR"]

(* The same call is made again.                                            *)
AskAgain(c) ==
    /\ answer[c] # None
    /\ answer' = [answer EXCEPT ![c] = None]
    /\ UNCHANGED <<stage, decided>>

Next == \E c \in Calls : Settle(c) \/ Lose(c) \/ AskAgain(c)

Fairness == \A c \in Calls : WF_vars(Settle(c) \/ Lose(c))

Spec == Init /\ [][Next]_vars /\ Fairness
=============================================================================
