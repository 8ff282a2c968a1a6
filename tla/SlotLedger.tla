---------------------------- MODULE SlotLedger ----------------------------
(***************************************************************************)
(* What the capacity of the commerce kernel promises whoever holds an      *)
(* offer: each exclusive resource of the window has one holder at most;    *)
(* while the hold is live nobody else takes the resource; a sale sells all *)
(* that the offer holds at once, in time; and what is sold has the same    *)
(* holder for good.                                                        *)
(***************************************************************************)
CONSTANTS
    Offers,          \* the offers that may be made
    Resources,       \* exclusive resources
    Supersedes,      \* Supersedes[o]: the offer that o replaces, or None
    None             \* no offer

VARIABLES
    holder,          \* holder[r]: the offer that has resource r, or None
    sold,            \* the resources that are sold, to their holders
    overdue          \* the offers whose hold is past its time

vars == <<holder, sold, overdue>>

Held(o) == {r \in Resources : holder[r] = o}

Init ==
    /\ holder = [r \in Resources |-> None]
    /\ sold = {}
    /\ overdue = {}

Changes == holder' \in [Resources -> Offers \union {None}]

(* A resource that is nobody's, or no longer.                              *)
MayTake(r) ==
    /\ r \notin sold
    /\ holder[r] \in {None} \union overdue

(* A new offer takes what it can of what it needs.  The one it replaces    *)
(* gives up whatever it has not sold.                                      *)
Take(o) ==
    /\ Held(o) = {} /\ Changes
    /\ \A r \in Resources :
          \/ holder'[r] = o /\ MayTake(r)
          \/ holder'[r] = holder[r] /\ (holder[r] = Supersedes[o] => r \in sold)
          \/ holder'[r] = None /\ holder[r] = Supersedes[o] /\ r \notin sold
    /\ UNCHANGED <<sold, overdue>>

(* Holds end without a sale: their offers close, or they are swept or      *)
(* released.                                                               *)
GiveUp ==
    /\ Changes
    /\ \A r \in Resources :
          holder'[r] # holder[r] => holder'[r] = None /\ r \notin sold
    /\ UNCHANGED <<sold, overdue>>

Sell(o) ==
    /\ o \notin overdue
    /\ Held(o) # {} /\ Held(o) \intersect sold = {}
    /\ sold' = sold \union Held(o)
    /\ UNCHANGED <<holder, overdue>>

(* The time of o's hold runs out before it sold.                           *)
Lapse(o) ==
    /\ Held(o) \ sold # {}
    /\ overdue' = overdue \union {o}
    /\ UNCHANGED <<holder, sold>>

Next == GiveUp \/ \E o \in Offers : Take(o) \/ Sell(o) \/ Lapse(o)

Spec == Init /\ [][Next]_vars
=============================================================================
