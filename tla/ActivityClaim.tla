---------------------------- MODULE ActivityClaim ----------------------------
(* PublishActivity, BoostActivity and UseActivity of platform/platform.go for
   one activity type, served concurrently. MySQL holds the ledger; Redis holds
   the two queues (ActivityQueueScripts) and the flag that says they have been
   seeded from MySQL. A request is a goroutine in a slot; it steps from one
   MySQL statement, transaction or Redis script to the next, and other requests
   step in between. pc names the call a request makes next.                  *)
EXTENDS ActivityQueueScripts, Sequences, Functions

CONSTANTS Slots,          \* requests the server handles at the same time
          Grant,          \* config: activity_publish_ordinary_credit
          InitialPoints,  \* points a user has to spend on boosts
          MaxTries,       \* maxActivityQueueAttempts
          \* Bounds of a run:
          InitialRows,    \* rows a restarted server may find in MySQL
          MaxRequests,    \* requests received, and daily resets
          MaxRedisFaults, \* queue writes that Redis answers with an error
          MaxLostClaims,  \* claims that end with an error before they commit
          MaxBreaks,      \* connections that break once a write has been made
          MaxCrashes      \* restarts of the server

ASSUME GrantIsNatural   == Grant \in Nat
ASSUME PointsAreNatural == InitialPoints \in Nat
ASSUME TriesArePositive == MaxTries \in Nat \ {0}
ASSUME RowsAreUsers     == InitialRows \subseteq Seq(Users)
ASSUME RowsAreUnique    == \A r \in InitialRows : IsInjective(r)  \* uid_activity_type
ASSUME UsersAreFinite   == IsFiniteSet(Users)

VARIABLES
    \* MySQL: activity_contents (rows in id order), users.points, activity_claims
    rows, ordinaryCredit, ordinaryRounds, priorityCredit, priorityRounds,
    committed, claimCount, points, claims,
    \* Redis
    redis, seeded,
    \* The server: what each slot is doing
    req,
    resetting,  \* ResetDailyData has flushed Redis and not yet emptied the tables
    \* History
    orphaned,   \* claims served today to a claimant whose row was gone
    boosted,    \* points committed on earlier days
    crossed,    \* a request or a rebuild of the queues ran across the last reset
    \* What the run has spent of its bounds
    spent

ledger == <<rows, ordinaryCredit, ordinaryRounds, priorityCredit, priorityRounds,
            committed, claimCount, points, claims, orphaned>>
night  == <<resetting, boosted, crossed>>
vars   == <<ledger, redis, seeded, req, night, spent>>

PCs == {"idle",
        \* PublishActivity
        "loadRow", "enqueueOwn", "enqueueOwnPriority", "invalidate",
        \* BoostActivity
        "addBoost",
        \* UseActivity: ensureActivityQueues
        "checkSeed", "flush", "loadSeed", "seed", "seedPriority",
        \* UseActivity: selection and delivery
        "listClaims", "nextPriority", "deliverPriority", "removePriority",
        "nextOrdinary", "deliverOrdinary", "removeOrdinary",
        \* UseActivity: the counts after the commit
        "consumePriority", "consumeOrdinary", "invalidateThenEarn", "earn"}

Snapshot == [uid : Users, ordinary : Int, priority : Int]

Requests == [pc       : PCs,
             uid      : Users \union {Nobody},  \* the caller
             cand     : Users \union {Nobody},  \* the candidate publisher
             points   : Nat,                    \* points being boosted
             claimed  : SUBSET Users,           \* publishers already received
             excluded : SUBSET Users,           \* publishers the priority loop skips
             tries    : Nat,                    \* attempts of the running loop
             todo     : Seq(Snapshot)]          \* rows read and yet to enqueue

SpentBounds == [requests : Nat, faults : Nat, claims : Nat,
                breaks : Nat, crashes : Nat]

Idle == [pc |-> "idle", uid |-> Nobody, cand |-> Nobody, points |-> 0,
         claimed |-> {}, excluded |-> {}, tries |-> 0, todo |-> <<>>]

Published   == Range(rows)
RowOf(u)    == [uid |-> u, ordinary |-> ordinaryCredit[u], priority |-> priorityCredit[u]]

At(s, label)    == req[s].pc = label
Become(s, r)    == req' = [req EXCEPT ![s] = r]
GoTo(s, label)  == Become(s, [req[s] EXCEPT !.pc = label])
Finish(s)       == Become(s, Idle)

(* A server that starts: rows from earlier days of work, queues reset. *)
Init ==
    /\ rows \in InitialRows
    /\ ordinaryCredit = [u \in Users |-> IF u \in Published THEN Grant ELSE 0]
    /\ ordinaryRounds = [u \in Users |-> 0]
    /\ priorityCredit = [u \in Users |-> 0]
    /\ priorityRounds = [u \in Users |-> 0]
    /\ committed      = [u \in Users |-> 0]
    /\ claimCount     = [u \in Users |-> 0]
    /\ points         = [u \in Users |-> InitialPoints]
    /\ claims         = {}
    /\ orphaned       = 0
    /\ boosted        = [u \in Users |-> 0]
    /\ resetting = FALSE /\ crossed = FALSE
    /\ redis          = EmptyRedis
    /\ seeded         = FALSE
    /\ req            = [s \in Slots |-> Idle]
    /\ spent = [requests |-> 0, faults |-> 0, claims |-> 0,
                breaks |-> 0, crashes |-> 0]

Begin ==
    /\ spent.requests < MaxRequests
    /\ spent' = [spent EXCEPT !.requests = @ + 1]

Receive(s) == At(s, "idle") /\ Begin

(* A queue write that Redis answers with an error may have run all the same. *)
RedisFault(written) ==
    /\ spent.faults < MaxRedisFaults
    /\ spent' = [spent EXCEPT !.faults = @ + 1]
    /\ redis' \in {redis, written}

RedisWrite(written) == redis' = written /\ UNCHANGED spent

(* The Redis client repeats a call whose connection breaks before the answer, so
   a script may run twice and answer once. That changes what an adjustment comes
   to; to enqueue twice is to enqueue once, and a selection made twice passes
   over a publisher, as one does that a lost claim made. *)
RedisResend(written) ==
    /\ spent.breaks < MaxBreaks
    /\ spent' = [spent EXCEPT !.breaks = @ + 1]
    /\ redis' = written

AdjustCall(k, u, delta) ==
    LET once == Adjust(redis, k, u, delta)
    IN  RedisWrite(once) \/ RedisResend(Adjust(once, k, u, delta))

AdjustFault(k, u, delta) == RedisFault(Adjust(redis, k, u, delta))

-----------------------------------------------------------------------------
(* MUTANT of Publish: the upsert assigns the granted credit too. *)
PublishGrantsAgain(s, u) ==
    /\ Receive(s)
    /\ Become(s, [Idle EXCEPT !.pc = "loadRow", !.uid = u])
    /\ rows' = IF u \in Published THEN rows ELSE Append(rows, u)
    /\ ordinaryCredit' = [ordinaryCredit EXCEPT ![u] = Grant]
    /\ UNCHANGED <<ordinaryRounds, priorityCredit, priorityRounds, committed,
                   claimCount, points, claims, orphaned, redis, seeded>>

(* PublishActivity: INSERT ... DO NOTHING. A row that is there only has its
   content refreshed, and no count of it changes. *)
Publish(s, u) ==
    /\ Receive(s)
    /\ Become(s, [Idle EXCEPT !.pc = "loadRow", !.uid = u])
    /\ \/ /\ u \notin Published
          /\ rows' = Append(rows, u)
          /\ ordinaryCredit' = [ordinaryCredit EXCEPT ![u] = Grant]
       \/ u \in Published /\ UNCHANGED <<rows, ordinaryCredit>>
    /\ UNCHANGED <<ordinaryRounds, priorityCredit, priorityRounds, committed,
                   claimCount, points, claims, orphaned, redis, seeded>>

LoadRow(s) ==
    /\ At(s, "loadRow")
    /\ req[s].uid \in Published
    /\ Become(s, [req[s] EXCEPT !.pc = "enqueueOwn", !.todo = <<RowOf(req[s].uid)>>])
    /\ UNCHANGED <<ledger, redis, seeded, spent>>

EnqueueOwn(s) ==
    LET row     == Head(req[s].todo)
        written == Enqueue(redis, "ordinary", row.uid, row.ordinary)
    IN  /\ At(s, "enqueueOwn")
        /\ \/ /\ RedisWrite(written)
              /\ \/ row.priority > 0 /\ GoTo(s, "enqueueOwnPriority")
                 \/ row.priority <= 0 /\ Finish(s)
           \/ RedisFault(written) /\ GoTo(s, "invalidate")
        /\ UNCHANGED <<ledger, seeded>>

EnqueueOwnPriority(s) ==
    LET row     == Head(req[s].todo)
        written == Enqueue(redis, "priority", row.uid, row.priority)
    IN  /\ At(s, "enqueueOwnPriority")
        /\ \/ RedisWrite(written) /\ Finish(s)
           \/ RedisFault(written) /\ GoTo(s, "invalidate")
        /\ UNCHANGED <<ledger, seeded>>

(* InvalidateSeed, whose own error every caller ignores. *)
Invalidate(s) ==
    /\ \/ At(s, "invalidate") /\ Finish(s)
       \/ At(s, "invalidateThenEarn") /\ GoTo(s, "earn")
    /\ \/ seeded' = FALSE /\ UNCHANGED <<redis, spent>>
       \/ RedisFault(redis) /\ UNCHANGED seeded
    /\ UNCHANGED ledger

(* The client of a publish is gone, or MySQL fails, once the row is written: every
   call left runs under the request's context, InvalidateSeed too, so none is made.
   Or the answer to the commit of a boost or a delivery is lost: it counts as
   failed, and no queue is touched. *)
CutOff(s) ==
    /\ req[s].pc \in {"loadRow", "enqueueOwn", "enqueueOwnPriority",
                      "addBoost", "consumePriority", "consumeOrdinary"}
    /\ spent.breaks < MaxBreaks
    /\ spent' = [spent EXCEPT !.breaks = @ + 1]
    /\ Finish(s)
    /\ UNCHANGED <<ledger, redis, seeded>>

-----------------------------------------------------------------------------
(* MUTANT of Boost: the balance is not checked under the lock. *)
BoostUnchecked(s, u, n) ==
    /\ Receive(s)
    /\ u \in Published
    /\ committed' = [committed EXCEPT ![u] = @ + n]
    /\ priorityCredit' = [priorityCredit EXCEPT ![u] = @ + n]
    /\ points' = [points EXCEPT ![u] = @ - n]
    /\ Become(s, [Idle EXCEPT !.pc = "addBoost", !.uid = u, !.points = n])
    /\ UNCHANGED <<rows, ordinaryCredit, ordinaryRounds, priorityRounds, claimCount,
                   claims, orphaned, redis, seeded>>

(* BoostActivity: one transaction that locks the user and the row. *)
Boost(s, u, n) ==
    /\ Receive(s)
    /\ u \in Published
    /\ points[u] >= n
    /\ committed' = [committed EXCEPT ![u] = @ + n]
    /\ priorityCredit' = [priorityCredit EXCEPT ![u] = @ + n]
    /\ points' = [points EXCEPT ![u] = @ - n]
    /\ Become(s, [Idle EXCEPT !.pc = "addBoost", !.uid = u, !.points = n])
    /\ UNCHANGED <<rows, ordinaryCredit, ordinaryRounds, priorityRounds, claimCount,
                   claims, orphaned, redis, seeded>>

AddBoost(s) ==
    /\ At(s, "addBoost")
    /\ \/ AdjustCall("priority", req[s].uid, req[s].points) /\ Finish(s)
       \/ AdjustFault("priority", req[s].uid, req[s].points) /\ GoTo(s, "invalidate")
    /\ UNCHANGED <<ledger, seeded>>

-----------------------------------------------------------------------------
(* UseActivity by a user who has a row; without one it ends at once. *)
Use(s, u) ==
    /\ Receive(s)
    /\ u \in Published
    /\ Become(s, [Idle EXCEPT !.pc = "checkSeed", !.uid = u])
    /\ UNCHANGED <<ledger, redis, seeded>>

(* ensureActivityQueues *)
CheckSeed(s) ==
    /\ At(s, "checkSeed")
    /\ GoTo(s, IF seeded THEN "listClaims" ELSE "flush")
    /\ UNCHANGED <<ledger, redis, seeded, spent>>

Flush(s) ==
    /\ At(s, "flush")
    /\ redis' = FlushQueues(redis)
    /\ GoTo(s, "loadSeed")
    /\ UNCHANGED <<ledger, seeded, spent>>

LoadSeed(s) ==
    /\ At(s, "loadSeed")
    /\ Become(s, [req[s] EXCEPT !.pc = "seed",
                                !.todo = [i \in DOMAIN rows |-> RowOf(rows[i])]])
    /\ UNCHANGED <<ledger, redis, seeded, spent>>

SeedOrdinary(s) ==
    LET row == Head(req[s].todo)
    IN  /\ At(s, "seed")
        /\ req[s].todo # <<>>
        /\ redis' = Enqueue(redis, "ordinary", row.uid, row.ordinary)
        /\ \/ row.priority > 0 /\ GoTo(s, "seedPriority")
           \/ row.priority <= 0 /\ Become(s, [req[s] EXCEPT !.todo = Tail(@)])
        /\ UNCHANGED <<ledger, seeded, spent>>

SeedPriority(s) ==
    LET row == Head(req[s].todo)
    IN  /\ At(s, "seedPriority")
        /\ redis' = Enqueue(redis, "priority", row.uid, row.priority)
        /\ Become(s, [req[s] EXCEPT !.pc = "seed", !.todo = Tail(@)])
        /\ UNCHANGED <<ledger, seeded, spent>>

MarkSeeded(s) ==
    /\ At(s, "seed")
    /\ req[s].todo = <<>>
    /\ seeded' = TRUE
    /\ GoTo(s, "listClaims")
    /\ UNCHANGED <<ledger, redis, spent>>

(* The row of the caller, read again, is gone: a reset has deleted it. *)
RowGone(s) ==
    /\ At(s, "loadRow") \/ At(s, "listClaims")
    /\ req[s].uid \notin Published
    /\ Finish(s)
    /\ UNCHANGED <<ledger, redis, seeded, spent>>

(* listActivityClaims: what the caller has received, as of now. *)
ListClaims(s) ==
    LET received == {p \in Users : <<req[s].uid, p>> \in claims}
    IN  /\ At(s, "listClaims")
        /\ req[s].uid \in Published
        /\ Become(s, [req[s] EXCEPT !.pc = "nextPriority", !.tries = 0,
                                    !.claimed = received, !.excluded = received])
        /\ UNCHANGED <<ledger, redis, seeded, spent>>

-----------------------------------------------------------------------------
(* claimPriorityActivity: without a candidate, or out of tries, the ordinary
   queue is asked, with the claims that were listed. *)
NextPriority(s) ==
    LET chosen == NextActive(redis, "priority", req[s].uid, req[s].excluded)
    IN  /\ At(s, "nextPriority")
        /\ \/ /\ req[s].tries < MaxTries /\ chosen # Nobody
              /\ Become(s, [req[s] EXCEPT !.pc = "deliverPriority", !.cand = chosen,
                                          !.tries = @ + 1])
           \/ /\ req[s].tries >= MaxTries \/ chosen = Nobody
              /\ Become(s, [req[s] EXCEPT !.pc = "nextOrdinary", !.tries = 0])
        /\ UNCHANGED <<ledger, redis, seeded, spent>>

(* MUTANT of HasCredit: the queue is trusted, the credit not read again. *)
HasRow(p, credit) == p \in Published

HasCredit(p, credit) == p \in Published /\ credit[p] > 0

(* MUTANT of CountClaim: a record that is already there is not counted. *)
CountFirstClaim(c, p, credit) ==
    /\ claims' = claims \union {<<c, p>>}
    /\ claimCount' = [claimCount EXCEPT ![c] = IF <<c, p>> \in claims THEN @ ELSE @ + 1]
    /\ ordinaryCredit' = [credit EXCEPT ![c] = @ + 1]
    /\ UNCHANGED orphaned

(* bumpActivityClaimCount: the claim is counted and earns the claimant a chance,
   on top of what the delivery leaves the ordinary credits at. It updates no row
   when a reset has deleted the claimant's, and says nothing of it. *)
CountClaim(c, p, credit) ==
    /\ claims' = claims \union {<<c, p>>}
    /\ \/ /\ c \in Published
          /\ claimCount' = [claimCount EXCEPT ![c] = @ + 1]
          /\ ordinaryCredit' = [credit EXCEPT ![c] = @ + 1]
          /\ UNCHANGED orphaned
       \/ /\ c \notin Published
          /\ ordinaryCredit' = credit
          /\ orphaned' = orphaned + 1
          /\ UNCHANGED claimCount

(* MUTANT of ServePriority: ON CONFLICT DO NOTHING, as the ordinary delivery. *)
ServePriorityTwice(s) ==
    LET c == req[s].uid
        p == req[s].cand
    IN  /\ At(s, "deliverPriority")
        /\ HasCredit(p, priorityCredit)
        /\ priorityCredit' = [priorityCredit EXCEPT ![p] = @ - 1]
        /\ priorityRounds' = [priorityRounds EXCEPT ![p] = @ + 1]
        /\ CountClaim(c, p, ordinaryCredit)
        /\ GoTo(s, "consumePriority")
        /\ UNCHANGED <<rows, ordinaryRounds, committed, points, redis, seeded, spent>>

(* deliverPriorityActivity's transaction, under a lock of the candidate's row. *)
ServePriority(s) ==
    LET c == req[s].uid
        p == req[s].cand
    IN  /\ At(s, "deliverPriority")
        /\ HasCredit(p, priorityCredit)
        /\ <<c, p>> \notin claims
        /\ priorityCredit' = [priorityCredit EXCEPT ![p] = @ - 1]
        /\ priorityRounds' = [priorityRounds EXCEPT ![p] = @ + 1]
        /\ CountClaim(c, p, ordinaryCredit)
        /\ GoTo(s, "consumePriority")
        /\ UNCHANGED <<rows, ordinaryRounds, committed, points, redis, seeded, spent>>

(* errActivityAlreadyClaimed: rolled back, and the candidate is skipped. *)
SkipPriority(s) ==
    /\ At(s, "deliverPriority")
    /\ HasCredit(req[s].cand, priorityCredit)
    /\ <<req[s].uid, req[s].cand>> \in claims
    /\ Become(s, [req[s] EXCEPT !.pc = "nextPriority",
                                !.excluded = @ \union {req[s].cand}])
    /\ UNCHANGED <<ledger, redis, seeded, spent>>

(* errStaleActivityQueueEntry: the entry is taken off the queue. *)
StalePriority(s) ==
    /\ At(s, "deliverPriority")
    /\ ~HasCredit(req[s].cand, priorityCredit)
    /\ GoTo(s, "removePriority")
    /\ UNCHANGED <<ledger, redis, seeded, spent>>

RemovePriority(s) ==
    /\ At(s, "removePriority")
    /\ redis' = RemoveMember(redis, "priority", req[s].cand)
    /\ GoTo(s, "nextPriority")
    /\ UNCHANGED <<ledger, seeded, spent>>

ConsumePriority(s) ==
    /\ At(s, "consumePriority")
    /\ \/ AdjustCall("priority", req[s].cand, -1) /\ GoTo(s, "earn")
       \/ AdjustFault("priority", req[s].cand, -1) /\ GoTo(s, "invalidateThenEarn")
    /\ UNCHANGED <<ledger, seeded>>

-----------------------------------------------------------------------------
(* claimCursorActivity: without a candidate, or out of tries, the queue is
   empty for this claimant and the claim fails. *)
NextOrdinary(s) ==
    LET chosen == CursorChoice(redis, req[s].uid, req[s].claimed)
    IN  /\ At(s, "nextOrdinary")
        /\ req[s].tries < MaxTries
        /\ chosen # Nobody
        /\ redis' = CursorMove(redis, chosen)
        /\ Become(s, [req[s] EXCEPT !.pc = "deliverOrdinary", !.cand = chosen,
                                    !.tries = @ + 1])
        /\ UNCHANGED <<ledger, seeded, spent>>

QueueEmpty(s) ==
    /\ At(s, "nextOrdinary")
    /\ \/ req[s].tries >= MaxTries
       \/ CursorChoice(redis, req[s].uid, req[s].claimed) = Nobody
    /\ Finish(s)
    /\ UNCHANGED <<ledger, redis, seeded, spent>>

(* deliverCursorActivity's transaction, under a lock of the candidate's row. A
   claim record that is already there is left as it is and stops nothing. *)
ServeOrdinary(s) ==
    LET c == req[s].uid
        p == req[s].cand
    IN  /\ At(s, "deliverOrdinary")
        /\ HasCredit(p, ordinaryCredit)
        /\ ordinaryRounds' = [ordinaryRounds EXCEPT ![p] = @ + 1]
        /\ CountClaim(c, p, [ordinaryCredit EXCEPT ![p] = @ - 1])
        /\ GoTo(s, "consumeOrdinary")
        /\ UNCHANGED <<rows, priorityCredit, priorityRounds, committed, points,
                       redis, seeded, spent>>

StaleOrdinary(s) ==
    /\ At(s, "deliverOrdinary")
    /\ ~HasCredit(req[s].cand, ordinaryCredit)
    /\ GoTo(s, "removeOrdinary")
    /\ UNCHANGED <<ledger, redis, seeded, spent>>

RemoveOrdinary(s) ==
    /\ At(s, "removeOrdinary")
    /\ redis' = RemoveMember(redis, "ordinary", req[s].cand)
    /\ GoTo(s, "nextOrdinary")
    /\ UNCHANGED <<ledger, seeded, spent>>

ConsumeOrdinary(s) ==
    /\ At(s, "consumeOrdinary")
    /\ \/ AdjustCall("ordinary", req[s].cand, -1) /\ GoTo(s, "earn")
       \/ AdjustFault("ordinary", req[s].cand, -1) /\ GoTo(s, "invalidateThenEarn")
    /\ UNCHANGED <<ledger, seeded>>

(* The claimant's own new chance, after a delivery from either queue. *)
Earn(s) ==
    /\ At(s, "earn")
    /\ \/ AdjustCall("ordinary", req[s].uid, 1) /\ Finish(s)
       \/ AdjustFault("ordinary", req[s].uid, 1) /\ GoTo(s, "invalidate")
    /\ UNCHANGED <<ledger, seeded>>

(* Up to the commit every call runs under the request's context and any error
   of it (a client gone, a deadlock's victim, a store that does not answer)
   ends the claim; what was written so far stays. *)
LoseClaim(s) ==
    /\ req[s].pc \in {"checkSeed", "flush", "loadSeed", "seed", "seedPriority",
                      "listClaims", "nextPriority", "deliverPriority", "removePriority",
                      "nextOrdinary", "deliverOrdinary", "removeOrdinary"}
    /\ spent.claims < MaxLostClaims
    /\ spent' = [spent EXCEPT !.claims = @ + 1]
    /\ Finish(s)
    /\ UNCHANGED <<ledger, redis, seeded>>

(* The server dies with every request in it; the next one resets the queues
   (ResetActivityQueues) before it listens. *)
Crash ==
    /\ spent.crashes < MaxCrashes
    /\ spent' = [spent EXCEPT !.crashes = @ + 1]
    /\ req' = [s \in Slots |-> Idle]
    /\ redis' = FlushQueues(redis)
    /\ seeded' = FALSE
    /\ resetting' = FALSE /\ crossed' = FALSE
    /\ UNCHANGED <<ledger, boosted>>

-----------------------------------------------------------------------------
(* ResetDailyData, one caller at a time (resetMu), beside the requests: FLUSHDB,
   which takes the sequence counter along, *)
AllIdle == \A s \in Slots : At(s, "idle")

FlushDay ==
    /\ ~resetting /\ resetting' = TRUE
    /\ Begin
    /\ redis' = EmptyRedis
    /\ seeded' = FALSE
    /\ crossed' = ~AllIdle
    /\ UNCHANGED <<ledger, boosted, req>>

(* and then, in one transaction, the tables of the day; points stay as they are. *)
EmptyTables ==
    /\ resetting /\ resetting' = FALSE
    /\ rows' = <<>> /\ claims' = {} /\ orphaned' = 0
    /\ ordinaryCredit' = [u \in Users |-> 0] /\ ordinaryRounds' = [u \in Users |-> 0]
    /\ priorityCredit' = [u \in Users |-> 0] /\ priorityRounds' = [u \in Users |-> 0]
    /\ committed' = [u \in Users |-> 0] /\ claimCount' = [u \in Users |-> 0]
    /\ boosted' = [u \in Users |-> boosted[u] + committed[u]]
    /\ crossed' = (crossed \/ seeded \/ ~AllIdle)
    /\ UNCHANGED <<points, redis, seeded, req, spent>>

(* Or the reset ends with an error after the flush. *)
ResetFails ==
    /\ resetting /\ resetting' = FALSE
    /\ UNCHANGED <<ledger, redis, seeded, req, boosted, crossed, spent>>

-----------------------------------------------------------------------------
Step(s) ==
    \/ \E u \in Users : Publish(s, u) \/ Use(s, u)
    \/ \E u \in Users : \E n \in 1 .. InitialPoints : Boost(s, u, n)
    \/ LoadRow(s) \/ EnqueueOwn(s) \/ EnqueueOwnPriority(s) \/ Invalidate(s)
    \/ CutOff(s) \/ AddBoost(s)
    \/ CheckSeed(s) \/ Flush(s) \/ LoadSeed(s) \/ SeedOrdinary(s) \/ SeedPriority(s)
    \/ MarkSeeded(s) \/ RowGone(s) \/ ListClaims(s)
    \/ NextPriority(s) \/ ServePriority(s) \/ SkipPriority(s) \/ StalePriority(s)
    \/ RemovePriority(s) \/ ConsumePriority(s)
    \/ NextOrdinary(s) \/ QueueEmpty(s) \/ ServeOrdinary(s) \/ StaleOrdinary(s)
    \/ RemoveOrdinary(s) \/ ConsumeOrdinary(s)
    \/ Earn(s) \/ LoseClaim(s)

DailyReset == FlushDay \/ EmptyTables \/ ResetFails

Next == Crash \/ DailyReset \/ \E s \in Slots : Step(s) /\ UNCHANGED night

Spec == Init /\ [][Next]_vars

-----------------------------------------------------------------------------
(* The type invariant: the ledger, the queues and the requests, *)
ProgramTypeOK ==
    /\ rows \in Seq(Users)
    /\ ordinaryCredit \in [Users -> Int] /\ ordinaryRounds \in [Users -> Int]
    /\ priorityCredit \in [Users -> Int] /\ priorityRounds \in [Users -> Int]
    /\ committed \in [Users -> Int] /\ points \in [Users -> Int]
    /\ claimCount \in [Users -> Int]
    /\ claims \subseteq Users \X Users
    /\ redis \in RedisStates
    /\ seeded \in BOOLEAN
    /\ req \in [Slots -> Requests]
    /\ orphaned \in Int
    /\ spent \in SpentBounds

(* and what resets alone change. *)
TypeOK ==
    /\ ProgramTypeOK
    /\ resetting \in BOOLEAN /\ crossed \in BOOLEAN
    /\ boosted \in [Users -> Int]

(* backend/README.md:168, "normal credit = grant + claims - ordinary rounds",
   and nobody is served beyond it: whatever the interleaving of claims on one
   publisher and claims of that publisher, and whatever the queues said.
   CONTEXT.md:15 has no grant in it ("always Claim Count - Ordinary Rounds", "a new
   publication starts with zero credit"), which is so for Grant = 0 alone: the
   code sets activity_publish_ordinary_credit (platform.go:646).             *)
OrdinaryBalance ==
    \A u \in Published :
        /\ ordinaryCredit[u] = Grant + claimCount[u] - ordinaryRounds[u]
        /\ ordinaryCredit[u] >= 0

(* backend/README.md:169: a publisher's priority credit is the points committed
   less the rounds delivered, never negative, and the points committed, today or
   on an earlier day, are the points gone from the account: concurrent boosts and
   deliveries of one row, and resets, neither create nor lose a point.       *)
PriorityBalance ==
    \A u \in Users :
        /\ priorityCredit[u] = committed[u] - priorityRounds[u]
        /\ priorityCredit[u] >= 0
        /\ points[u] = InitialPoints - committed[u] - boosted[u]
        /\ points[u] >= 0

(* Every counted claim is a round of some publisher and the other way round,
   crashes and lost requests included: the two sides commit together. Only a
   reset between a claim's first step and its delivery leaves one side out.  *)
ClaimsAreRounds ==
    SumFunction(claimCount) + orphaned =
        SumFunction(ordinaryRounds) + SumFunction(priorityRounds)

(* A priority round goes to a claimant who had nothing from this publisher:
   there are at least as many claim records as priority rounds, even when two
   requests of one claimant have selected the same candidate.               *)
PriorityServesOnce ==
    \A p \in Users : priorityRounds[p] <= Cardinality({c \in Users : <<c, p>> \in claims})

(* Nobody receives their own content, from either queue.                     *)
NeverOwnContent == \A u \in Users : <<u, u>> \notin claims

-----------------------------------------------------------------------------
(* What the documentation promises of the two stores together. *)

(* backend/README.md:165, "the credit is the queue's count", and :215, a failed
   write heals by a rebuild: when no request is under way and the queues count
   as seeded, membership and counts are exactly what MySQL says. A reset, complete
   or interrupted, keeps it so, unless requests or a rebuild ran across it.   *)
CountsMirrorLedger ==
    AllIdle /\ seeded /\ ~crossed =>
        \A u \in Users :
            /\ u \in Members(redis, "ordinary") <=> u \in Published
            /\ redis.count["ordinary"][u] = ordinaryCredit[u]
            /\ redis.count["priority"][u] = priorityCredit[u]
            /\ u \in Active(redis, "priority") <=> priorityCredit[u] > 0

(* backend/README.md:202: the rotation follows the order of publication, through
   every rebuild, parking, re-activation and reset.                          *)
PlacesFollowRows ==
    AllIdle /\ seeded /\ ~crossed =>
        \A i, j \in DOMAIN rows :
            i < j => Place(redis, "ordinary", rows[i]) < Place(redis, "ordinary", rows[j])

(* canClaimActivity, from MySQL alone. *)
CanClaim(u) ==
    \E p \in Published \ {u} :
        /\ ordinaryCredit[p] > 0 \/ priorityCredit[p] > 0
        /\ <<u, p>> \notin claims

(* canClaimActivity "reports whether a claim click could succeed right now"
   (platform/platform.go:1235): a click that is told the queue is empty was made
   by someone the detail page tells there is nothing to claim, or was crossed by
   a reset.                                                                  *)
EmptyMeansNothing ==
    [][\A s \in Slots : QueueEmpty(s) => ~CanClaim(req[s].uid) \/ crossed]_vars

(* backend/README.md:183: a publisher's content reaches a claimant once and a
   concurrent duplicate never costs the publisher: as many rounds of a publisher
   as claim records that name them.                                          *)
EachPairOnce ==
    \A p \in Users :
        ordinaryRounds[p] + priorityRounds[p] = Cardinality({c \in Users : <<c, p>> \in claims})

=============================================================================
