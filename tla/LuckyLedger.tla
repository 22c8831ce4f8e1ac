---------------------------- MODULE LuckyLedger ----------------------------
(* What lucky codes promise, with no list, no claim key and no request: a code
   that is offered goes to one other user, for good, and the answer that hands it
   out names that user. LuckyCodes implements it (LuckyCodesRefinement).      *)
EXTENDS Integers

CONSTANTS Users, Nobody, Codes

VARIABLES state,     \* state[id]: none, available, used, deleted
          offeredBy,
          takenBy,
          answered   \* <<id, uid>>

vars == <<state, offeredBy, takenBy, answered>>

Init == /\ state = [id \in Codes |-> "none"]
        /\ offeredBy = [id \in Codes |-> Nobody]
        /\ takenBy = [id \in Codes |-> Nobody]
        /\ answered = {}

Offer(id, u) ==
    /\ state[id] = "none"
    /\ state' = [state EXCEPT ![id] = "available"]
    /\ offeredBy' = [offeredBy EXCEPT ![id] = u]
    /\ UNCHANGED <<takenBy, answered>>

(* The one who takes it is answered in the same step, or never. *)
TakeCode(id, u) ==
    /\ state[id] = "available"
    /\ offeredBy[id] # u
    /\ state' = [state EXCEPT ![id] = "used"]
    /\ takenBy' = [takenBy EXCEPT ![id] = u]
    /\ answered' \in {answered, answered \union {<<id, u>>}}
    /\ UNCHANGED offeredBy

(* The row of a publish that failed, whatever has become of the code since. *)
Retract(id) ==
    /\ state[id] # "none"
    /\ state' = [state EXCEPT ![id] = "deleted"]
    /\ UNCHANGED <<offeredBy, takenBy, answered>>

Next == \E id \in Codes :
            \/ Retract(id)
            \/ \E u \in Users : Offer(id, u) \/ TakeCode(id, u)

Spec == Init /\ [][Next]_vars
=============================================================================
