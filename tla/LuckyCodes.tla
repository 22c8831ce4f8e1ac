----------------------------- MODULE LuckyCodes -----------------------------
(* Lucky codes: PublishLucky, ReceiveLucky and UseLucky (platform/platform.go)
   over a row per code in MySQL and, in Redis, a list of the codes to receive
   and one claim key per code that is being taken (queue/lucky.go). A request is
   a goroutine in a slot and steps from one statement or script to the next.  *)
EXTENDS Integers, Sequences, FiniteSets

CONSTANTS Users, Nobody,
          Slots,        \* requests the server handles at the same time
          MaxTries,     \* attempts of ReceiveLucky
          \* Bounds of a run:
          MaxCodes,     \* codes published
          MaxRequests,  \* requests received
          MaxFaults,    \* calls that a store answers with an error
          MaxLost,      \* requests whose context ends under way
          MaxRestarts,  \* restarts of the server, of Redis without its data
          MaxFailures,  \* the last three together
          MaxResends    \* Releases that are sent once more

ASSUME NobodyIsNoUser  == Nobody \notin Users
ASSUME TriesAreNatural == MaxTries \in Nat
ASSUME CodesAreNatural == MaxCodes \in Nat
ASSUME SlotsAreFinite  == IsFiniteSet(Slots)

VARIABLES
    status, owner, usedBy,  \* MySQL: lucky_codes, by id
    queue,                  \* Redis: lucky_queue, head first
    holder,                 \* Redis: lucky_used:{id}, whose claim it is
    req,                    \* the server: what each slot is doing
    handed,                 \* history: <<id, uid>> of the codes answered with
    spent                   \* what the run has spent of its bounds

rows == <<status, owner, usedBy>>
vars == <<rows, queue, holder, req, handed, spent>>

(* Ids come from AUTO_INCREMENT and are never given out again. *)
Codes    == 1 .. MaxCodes
Statuses == {"none", "available", "used", "deleted"}

PCs == {"idle", "push", "withdraw",                 \* PublishLucky
        "receive", "take", "drop", "requeue",       \* ReceiveLucky
        "claim", "use", "free",                     \* UseLucky
        "dropAgain", "requeueAgain", "freeAgain"}   \* Release, carried out and unanswered

(* Requests that have claimed their code and not yet let go of it; and those that
   have let go of it and are about to do so again. *)
HoldingPCs == {"take", "drop", "requeue", "use", "free"}
AgainPCs   == {"dropAgain", "requeueAgain", "freeAgain"}

Requests == [pc : PCs, uid : Users \union {Nobody}, id : 0 .. MaxCodes, tries : Nat]

Request(label, u, id, tries) == [pc |-> label, uid |-> u, id |-> id, tries |-> tries]

Idle == Request("idle", Nobody, 0, 0)

(* The rows that a statement finds with status = 'available'. *)
Available == {id \in Codes : status[id] = "available"}

At(s, label)   == req[s].pc = label
Become(s, r)   == req' = [req EXCEPT ![s] = r]
GoTo(s, label) == Become(s, [req[s] EXCEPT !.pc = label])
Finish(s)      == Become(s, Idle)

Init ==
    /\ status = [id \in Codes |-> "none"]
    /\ owner  = [id \in Codes |-> Nobody]
    /\ usedBy = [id \in Codes |-> Nobody]
    /\ queue  = <<>>
    /\ holder = [id \in Codes |-> Nobody]
    /\ req    = [s \in Slots |-> Idle]
    /\ handed = {}
    /\ spent  = [requests |-> 0, faults |-> 0, lost |-> 0, restarts |-> 0, resends |-> 0]

Spend(bound, max) ==
    /\ spent[bound] < max
    /\ spent' = [spent EXCEPT ![bound] = @ + 1]

SpendFailure(bound, max) ==
    /\ spent.faults + spent.lost + spent.restarts < MaxFailures
    /\ Spend(bound, max)

Receive(s) == At(s, "idle") /\ Spend("requests", MaxRequests)

(* A call that a store answers with an error may have been carried out; where the
   error is ignored, only that it was not makes a difference. The other fault is a
   connection that breaks before the answer: go-redis then sends the call again.
   Anything may happen between the two times it is carried out, so the request
   stays where it is, to make the call once more. *)
Fault == SpendFailure("faults", MaxFaults)

(* It is counted apart where it is a Release: see OneHolder. *)
Resend == Spend("resends", MaxResends)

-----------------------------------------------------------------------------
(* PublishLucky: the row, with the next id; then the push; and the row is
   deleted when the push is answered with an error. *)
Publish(s, u) ==
    /\ Receive(s)
    /\ \E id \in Codes :
        /\ status[id] = "none" /\ \A other \in Codes : other < id => status[other] # "none"
        /\ status' = [status EXCEPT ![id] = "available"]
        /\ owner' = [owner EXCEPT ![id] = u]
        /\ Become(s, Request("push", u, id, 0))
    /\ UNCHANGED <<usedBy, queue, holder, handed>>

Push(s) ==
    LET pushed == Append(queue, req[s].id)
    IN  /\ At(s, "push")
        /\ \/ queue' = pushed /\ Finish(s) /\ UNCHANGED spent
           \/ queue' = pushed /\ UNCHANGED req /\ Fault
           \/ queue' \in {queue, pushed} /\ GoTo(s, "withdraw") /\ Fault
        /\ UNCHANGED <<rows, holder, handed>>

(* Its own error is ignored. *)
Withdraw(s) ==
    LET deleted == [status EXCEPT ![req[s].id] = "deleted"]
    IN  /\ At(s, "withdraw")
        /\ \/ status' = deleted /\ UNCHANGED spent
           \/ UNCHANGED status /\ Fault
        /\ Finish(s)
        /\ UNCHANGED <<owner, usedBy, queue, holder, handed>>

-----------------------------------------------------------------------------
(* ReceiveLucky. receiveLuckyScript pops entries up to the first that is
   somebody else's and that nobody has claimed; of those it popped before, the
   caller's own go back to the head in their order, the claimed ones do not. *)
Eligible(id, u) == owner[id] # u /\ holder[id] = Nobody

(* The entries of s at the positions in D, in their order. *)
Ascending(D) ==
    CHOOSE f \in [1 .. Cardinality(D) -> D] : \A i, j \in DOMAIN f : i < j => f[i] < f[j]

Kept(s, D) == [k \in 1 .. Cardinality(D) |-> s[Ascending(D)[k]]]

OwnAt(popped, u) == {i \in DOMAIN popped : owner[popped[i]] = u}

(* Mutants: skipped entries go back in the order they were popped, not at all. *)
PutBackInPopOrder(popped, u) ==
    LET own == Kept(popped, OwnAt(popped, u))
    IN  [i \in 1 .. Len(own) |-> own[Len(own) + 1 - i]]

PutBackNothing(popped, u) == <<>>

PutBack(popped, u) == Kept(popped, OwnAt(popped, u))

ReceiveCall(s, u) ==
    /\ Receive(s)
    /\ Become(s, Request("receive", u, 0, 0))
    /\ UNCHANGED <<rows, queue, holder, handed>>

(* The answer of the script may be lost, with the entry it names, and the script
   be sent again for another. *)
PopEntry(s) ==
    LET u == req[s].uid
    IN  /\ At(s, "receive")
        /\ req[s].tries < MaxTries
        /\ \E i \in DOMAIN queue :
            /\ Eligible(queue[i], u)
            /\ \A j \in 1 .. i - 1 : ~Eligible(queue[j], u)
            /\ queue' = PutBack(SubSeq(queue, 1, i - 1), u) \o SubSeq(queue, i + 1, Len(queue))
            /\ holder' = [holder EXCEPT ![queue[i]] = u]
            /\ \/ /\ Become(s, Request("take", u, queue[i], req[s].tries + 1))
                  /\ UNCHANGED spent
               \/ (Finish(s) \/ UNCHANGED req) /\ Fault
        /\ UNCHANGED <<rows, handed>>

(* ErrQueueEmpty: nothing for this caller, or out of attempts. *)
PopNothing(s) ==
    /\ At(s, "receive")
    /\ \/ /\ req[s].tries < MaxTries
          /\ \A i \in DOMAIN queue : ~Eligible(queue[i], req[s].uid)
          /\ queue' = PutBack(queue, req[s].uid)
       \/ req[s].tries >= MaxTries /\ UNCHANGED queue
    /\ Finish(s)
    /\ UNCHANGED <<rows, holder, handed, spent>>

(* Mutant: the transaction does not look at the row's status. *)
UseAnyStatus(id, u) ==
    /\ id \in Codes
    /\ owner[id] # u
    /\ status' = [status EXCEPT ![id] = "used"]
    /\ usedBy' = [usedBy EXCEPT ![id] = u]

(* The transaction, under a lock of the row: the code is the caller's. *)
Use(id, u) ==
    /\ id \in Available
    /\ owner[id] # u
    /\ status' = [status EXCEPT ![id] = "used"]
    /\ usedBy' = [usedBy EXCEPT ![id] = u]

Answer(s) == handed' = handed \union {<<req[s].id, req[s].uid>>} /\ Finish(s)

Take(s) ==
    /\ At(s, "take")
    /\ Use(req[s].id, req[s].uid)
    /\ Answer(s)
    /\ UNCHANGED <<owner, queue, holder, spent>>

(* The row is used or gone: the entry is dropped and the next one popped. (That
   it is the caller's own, which the transaction checks too, cannot be: a pushed
   entry carries its row's owner, and the script does not return the caller's.) *)
TakeRefused(s) ==
    /\ At(s, "take")
    /\ req[s].id \notin Available
    /\ GoTo(s, "drop")
    /\ UNCHANGED <<rows, queue, holder, handed, spent>>

(* Any other error, of the commit too, which may have happened all the same. *)
TakeFails(s) ==
    /\ At(s, "take")
    /\ Use(req[s].id, req[s].uid) \/ UNCHANGED <<status, usedBy>>
    /\ GoTo(s, "requeue")
    /\ Fault
    /\ UNCHANGED <<owner, queue, holder, handed>>

(* Release: one transaction that deletes the key, without looking whose it is by
   now, and leaves the list it is given. Every caller ignores its error and goes
   on by Done. Sent again, it deletes a key that has been set in between, and lists
   a code that has been taken from the list in between. *)
Released(id) == [holder EXCEPT ![id] = Nobody]

Release(s, label, again, list, Done) ==
    /\ At(s, label) \/ At(s, again)
    /\ \/ holder' = Released(req[s].id) /\ queue' = list /\ Done /\ UNCHANGED spent
       \/ holder' = Released(req[s].id) /\ queue' = list /\ GoTo(s, again) /\ Resend
       \/ UNCHANGED <<holder, queue>> /\ Done /\ Fault
    /\ UNCHANGED <<rows, handed>>

Drop(s)    == Release(s, "drop", "dropAgain", queue, GoTo(s, "receive"))
Requeue(s) == Release(s, "requeue", "requeueAgain", <<req[s].id>> \o queue, Finish(s))

-----------------------------------------------------------------------------
(* UseLucky of a code that was listed: somebody else's and available, as read
   before the claim; of any other code the call ends at once. *)
UseCall(s, u, id) ==
    /\ Receive(s)
    /\ id \in Available
    /\ owner[id] # u
    /\ Become(s, Request("claim", u, id, 0))
    /\ UNCHANGED <<rows, queue, holder, handed>>

(* Mutant: SET without NX. *)
ClaimAnyway(s) ==
    /\ At(s, "claim")
    /\ holder' = [holder EXCEPT ![req[s].id] = req[s].uid]
    /\ GoTo(s, "use")
    /\ UNCHANGED <<rows, queue, handed, spent>>

Claim(s) ==
    LET id == req[s].id
        u  == req[s].uid
    IN  /\ At(s, "claim")
        /\ \/ holder[id] # Nobody /\ Finish(s) /\ UNCHANGED <<holder, spent>>
           \/ /\ holder[id] = Nobody
              /\ holder' = [holder EXCEPT ![id] = u]
              /\ \/ GoTo(s, "use") /\ UNCHANGED spent
                 \/ (Finish(s) \/ UNCHANGED req) /\ Fault
        /\ UNCHANGED <<rows, queue, handed>>

(* UPDATE ... WHERE status = 'available'. *)
UseRow(s) ==
    LET id == req[s].id
    IN  /\ At(s, "use")
        /\ \/ Use(id, req[s].uid) /\ Answer(s) /\ UNCHANGED spent
           \/ /\ id \notin Available /\ GoTo(s, "free")
              /\ UNCHANGED <<status, usedBy, handed, spent>>
           \/ /\ Use(id, req[s].uid) \/ UNCHANGED <<status, usedBy>>
              /\ GoTo(s, "free")
              /\ Fault
              /\ UNCHANGED handed
        /\ UNCHANGED <<owner, queue, holder>>

(* Mutant: the row is made available again together with the key. *)
FreeResets(s) ==
    /\ At(s, "free")
    /\ holder' = Released(req[s].id)
    /\ status' = [status EXCEPT ![req[s].id] = "available"]
    /\ Finish(s)
    /\ UNCHANGED <<owner, usedBy, queue, handed, spent>>

Free(s) == Release(s, "free", "freeAgain", queue, Finish(s))

-----------------------------------------------------------------------------
(* The client is gone: no call that is left is made, not even a Release. *)
Lose(s) ==
    /\ ~At(s, "idle")
    /\ SpendFailure("lost", MaxLost)
    /\ Finish(s)
    /\ UNCHANGED <<rows, queue, holder, handed>>

(* Mutant: keys are set without a time to live. *)
ExpireNever(id) == holder[id] # Nobody /\ holder' = holder /\ UNCHANGED <<rows, queue, req, handed, spent>>

(* A claim key outlives the request that set it, and any that had been about to
   send its Release again: lucky_claim_ttl is hours. *)
Expire(id) ==
    /\ holder[id] # Nobody
    /\ \A s \in Slots : ~(req[s].pc \in HoldingPCs \union AgainPCs /\ req[s].id = id)
    /\ holder' = Released(id)
    /\ UNCHANGED <<rows, queue, req, handed, spent>>

(* The server dies with every request in it; nothing is done about lucky codes
   when it starts. Or Redis does, and comes back empty. *)
Restart ==
    /\ SpendFailure("restarts", MaxRestarts)
    /\ req' = [s \in Slots |-> Idle]
    /\ UNCHANGED <<rows, queue, holder, handed>>

RedisLoss ==
    /\ SpendFailure("restarts", MaxRestarts)
    /\ queue' = <<>>
    /\ holder' = [id \in Codes |-> Nobody]
    /\ UNCHANGED <<rows, req, handed>>

Work(s) ==
    \/ Push(s) \/ Withdraw(s)
    \/ PopEntry(s) \/ PopNothing(s) \/ Take(s) \/ TakeRefused(s) \/ TakeFails(s)
    \/ Drop(s) \/ Requeue(s)
    \/ Claim(s) \/ UseRow(s) \/ Free(s)

Call(s) ==
    \E u \in Users :
        Publish(s, u) \/ ReceiveCall(s, u) \/ \E id \in Codes : UseCall(s, u, id)

Next ==
    \/ \E s \in Slots : Call(s) \/ Work(s) \/ Lose(s)
    \/ \E id \in Codes : Expire(id)
    \/ Restart \/ RedisLoss

Spec == Init /\ [][Next]_vars

(* A goroutine runs on to its end, and Redis deletes a key whose time is up. *)
Fairness ==
    /\ \A s \in Slots : WF_vars(Work(s))
    /\ \A id \in Codes : WF_vars(Expire(id))

FairSpec == Spec /\ Fairness

-----------------------------------------------------------------------------
(* The type invariant of the rows, the list, the claim keys and the requests. *)
TypeOK ==
    /\ status \in [Codes -> Statuses]
    /\ owner \in [Codes -> Users \union {Nobody}]
    /\ usedBy \in [Codes -> Users \union {Nobody}]
    /\ queue \in Seq(Codes)
    /\ holder \in [Codes -> Users \union {Nobody}]
    /\ req \in [Slots -> Requests]
    /\ handed \subseteq Codes \X Users
    /\ spent \in [{"requests", "faults", "lost", "restarts", "resends"} -> Nat]

(* A code is answered to one user at most, and never to the one who published
   it: for any race of receiving and using, for entries that are in the list
   twice, claims that expired, answers that were lost and a Redis that lost its
   keys. *)
HandedOnce ==
    \A id \in Codes, u \in Users : <<id, u>> \in handed =>
        /\ usedBy[id] = u
        /\ owner[id] # u
        /\ status[id] \in {"used", "deleted"}

(* As long as Redis keeps its data, one request at a time works on a code between
   its claim and its release or commit, but for the Releases that are carried out
   twice: lucky.go:73-83 deletes the key whoever's it is by then, so each of
   these lets in one more, however often a code is claimed, dropped, put back
   and claimed again. Errors, lost answers and clients that go away let in nobody. *)
Holders(id) == {s \in Slots : req[s].pc \in HoldingPCs /\ req[s].id = id}

OneHolder ==
    spent.restarts = 0 =>
    \A id \in Codes : Cardinality(Holders(id)) <= 1 + spent.resends

(* backend/README.md:3, FIFO is guaranteed, and "skipped own entry must retain
   FIFO priority" (queue/lucky_test.go:31): no pop, push or put-back, of whichever
   request, makes two codes that stay in the list change places. A code that a
   repeated push has put there twice has no one place.                       *)
Occurrences(s, id) == {i \in DOMAIN s : s[i] = id}

Precedes(s, a, b) ==
    /\ Cardinality(Occurrences(s, a)) = 1 /\ Cardinality(Occurrences(s, b)) = 1
    /\ \E i \in Occurrences(s, a), j \in Occurrences(s, b) : i < j

NeverReordered ==
    [][\A a, b \in Codes : Precedes(queue, a, b) => ~Precedes(queue', b, a)]_queue

(* As long as nothing fails, a code that is available is in the list, or in the
   hands of a request: no race of receiving and using makes an entry disappear. *)
AvailableIsListed ==
    spent.faults + spent.lost + spent.restarts + spent.resends = 0 =>
    \A id \in Available :
        \/ \E i \in DOMAIN queue : queue[i] = id
        \/ \E s \in Slots : req[s].pc \in HoldingPCs \union {"push"} /\ req[s].id = id

(* backend/README.md:69, whatever Redis loses heals from MySQL or expires: when
   no request is under way and no claim is left, what is available in MySQL can
   be received from the list.                                                *)
LossHeals ==
    (\A s \in Slots : At(s, "idle")) /\ (\A id \in Codes : holder[id] = Nobody) =>
        \A id \in Available : \E i \in DOMAIN queue : queue[i] = id

(* A claim that came to nothing does not hide a code for good: an available
   code is eventually unclaimed, so listed again, or not available any more. *)
ClaimsEnd ==
    \A id \in Codes :
        (id \in Available /\ holder[id] # Nobody) ~> (id \notin Available \/ holder[id] = Nobody)
=============================================================================
