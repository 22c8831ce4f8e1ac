--------------------------- MODULE ActivityLedger ---------------------------
(* What one activity promises its publishers, with no queue, no cache and no
   request in sight: who takes part, what chances they hold, how often they were
   served and to whom. ActivityClaim implements it (ActivityClaimRefinement).  *)
EXTENDS Integers

CONSTANTS Users, Grant, InitialPoints

VARIABLES members,    \* who has published
          credit,     \* ordinary chances left
          priority,   \* priority chances left
          wallet,     \* points left to buy priority chances with
          served,     \* times a publisher was served, from either queue
          claimed,    \* times a user received somebody's content
          received    \* <<claimant, publisher>>

vars == <<members, credit, priority, wallet, served, claimed, received>>

(* Members may already be there: the server restarts, the ledger does not. *)
Init == /\ members \in SUBSET Users
        /\ credit = [u \in Users |-> IF u \in members THEN Grant ELSE 0]
        /\ priority = [u \in Users |-> 0]
        /\ wallet = [u \in Users |-> InitialPoints]
        /\ served = [u \in Users |-> 0]
        /\ claimed = [u \in Users |-> 0]
        /\ received = {}

(* A first publication brings the granted chances, which CONTEXT.md:15 says are
   none and platform.go:646 takes from a setting; a later one brings none. *)
Join(u) ==
    /\ u \notin members
    /\ members' = members \union {u}
    /\ credit' = [credit EXCEPT ![u] = Grant]
    /\ UNCHANGED <<priority, wallet, served, claimed, received>>

Buy(u, n) ==
    /\ u \in members
    /\ n \in 1 .. wallet[u]
    /\ wallet' = [wallet EXCEPT ![u] = @ - n]
    /\ priority' = [priority EXCEPT ![u] = @ + n]
    /\ UNCHANGED <<members, credit, served, claimed, received>>

(* One claim: c receives p's content and, as a member, earns a chance. *)
Earned(c) == IF c \in members THEN 1 ELSE 0

Receive(c, p) ==
    /\ p \in members /\ c # p
    /\ received' = received \union {<<c, p>>}
    /\ served' = [served EXCEPT ![p] = @ + 1]
    /\ claimed' = [claimed EXCEPT ![c] = @ + Earned(c)]

(* It costs p an ordinary chance, *)
ServeOrdinary(c, p) ==
    /\ Receive(c, p)
    /\ credit[p] > 0
    /\ credit' = [credit EXCEPT ![p] = @ - 1, ![c] = @ + Earned(c)]
    /\ UNCHANGED <<members, priority, wallet>>

(* or a priority chance, which is never spent on a repetition. *)
ServePriority(c, p) ==
    /\ Receive(c, p)
    /\ priority[p] > 0
    /\ <<c, p>> \notin received
    /\ priority' = [priority EXCEPT ![p] = @ - 1]
    /\ credit' = [credit EXCEPT ![c] = @ + Earned(c)]
    /\ UNCHANGED <<members, wallet>>

(* A new day: nobody has published and nothing is owed, but points stay spent. *)
NewDay ==
    /\ members' = {} /\ received' = {}
    /\ credit' = [u \in Users |-> 0] /\ priority' = [u \in Users |-> 0]
    /\ served' = [u \in Users |-> 0] /\ claimed' = [u \in Users |-> 0]
    /\ UNCHANGED wallet

Next ==
    \/ NewDay
    \/ \E u \in Users : Join(u)
    \/ \E u \in Users, n \in 1 .. InitialPoints : Buy(u, n)
    \/ \E c, p \in Users : ServeOrdinary(c, p) \/ ServePriority(c, p)

Spec == Init /\ [][Next]_vars
=============================================================================
