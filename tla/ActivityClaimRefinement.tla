---------------------- MODULE ActivityClaimRefinement ----------------------
(* ActivityClaim implements ActivityLedger: whatever the queues, the seeding,
   the failures and the interleaving of requests do, what MySQL ends up with is
   a history of publications, boosts, claims and new days.                   *)
EXTENDS ActivityClaim

Ledger == INSTANCE ActivityLedger WITH
    members  <- Published,
    credit   <- ordinaryCredit,
    priority <- priorityCredit,
    wallet   <- points,
    served   <- [u \in Users |-> ordinaryRounds[u] + priorityRounds[u]],
    claimed  <- claimCount,
    received <- claims

(* Every step of every request is a step of the ledger or leaves it alone: only
   the transactions of publish, boost, the two deliveries and the reset change it,
   each from a state that allows the change, however stale what the request
   read before is by then.                                                  *)
LedgerSpec == Ledger!Spec
=============================================================================
